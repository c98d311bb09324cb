------------------------- MODULE ObjectStoreProofs -------------------------
(***************************************************************************)
(* Proofs about ObjectStore, for every set of keys, requests and IDs: the  *)
(* types and the control of the handlers first, then what the records and  *)
(* the files of a bucket mean on top of it: the records of a key tell one  *)
(* story, history survives, every record has its data, no data is left     *)
(* behind, readers get the bytes they looked up, the lifecycle sweep       *)
(* spares what changed since it looked, and clients see the operations of  *)
(* BucketContract.                                                         *)
(***************************************************************************)
EXTENDS ObjectStore, FiniteSetTheorems, WellFoundedInduction, TLAPS

-----------------------------------------------------------------------------
(***************************************************************************)
(* Types of the metadata transactions                                      *)
(***************************************************************************)

\* What a reader of the metadata gets is a record or nothing.
LEMMA GetObjectMetaType ==
    ASSUME TypeOK, NEW k \in Keys, NEW v \in VersionIDs \cup {Unversioned}
    PROVE  /\ GetObjectMeta(k, v) \in Record \cup {NoRecord}
           /\ storedRecord(k, v) \in Record \cup {NoRecord}
  BY IdAssumption DEF TypeOK, GetObjectMeta, storedRecord, VersionIDs

LEMMA DataOfType ==
    ASSUME NEW k \in Keys, NEW recs, recs \subseteq Record \cup {NoRecord}
    PROVE  DataOf(k, recs) \subseteq Paths
  BY DEF DataOf, dataPath, Record, Paths

LEMMA VersionsType ==
    ASSUME TypeOK, NEW k \in Keys
    PROVE  GetObjectVersions(k) \subseteq Record
  BY DEF TypeOK, GetObjectVersions

\* PutObjectMeta keeps the types.
LEMMA PutObjectMetaType ==
    ASSUME TypeOK, NEW k \in Keys, NEW rec \in Record, PutObjectMeta(k, rec)
    PROVE  /\ pointer' \in [Keys -> Record \cup {NoRecord}]
           /\ versions' \in [Keys -> [VersionIDs -> Record \cup {NoRecord}]]
           /\ count' \in Nat \cup {NoCount}
<1>1. pointer' \in [Keys -> Record \cup {NoRecord}]
  BY DEF PutObjectMeta, TypeOK
<1>2. Archived(k, rec) \in [VersionIDs -> Record \cup {NoRecord}]
  <2>1. CASE pointer[k] # NoRecord /\ pointer[k].vid # Unversioned /\ pointer[k].vid # rec.vid
    <3>1. [pointer[k] EXCEPT !.latest = FALSE, !.noncurrent = rec.modified] \in Record
      BY <2>1 DEF TypeOK, Record
    <3>2. QED
      BY <2>1, <3>1 DEF Archived, TypeOK, Record
  <2>2. CASE ~(pointer[k] # NoRecord /\ pointer[k].vid # Unversioned /\ pointer[k].vid # rec.vid)
    BY <2>2 DEF Archived, TypeOK
  <2>3. QED
    BY <2>1, <2>2
<1>3. NoVersions \in [VersionIDs -> Record \cup {NoRecord}]
  BY DEF NoVersions
<1>4. versions' \in [Keys -> [VersionIDs -> Record \cup {NoRecord}]]
  BY <1>2, <1>3 DEF PutObjectMeta, TypeOK, Record
<1>5. count' \in Nat \cup {NoCount}
  BY DEF PutObjectMeta, TypeOK, adjustObjectCount, NoCount
<1>6. QED
  BY <1>1, <1>4, <1>5

\* The two forms of DeleteObjectMeta keep the types.
LEMMA DeleteVersionMetaType ==
    ASSUME TypeOK, NEW k \in Keys, NEW v \in VersionIDs, DeleteVersionMeta(k, v)
    PROVE  /\ pointer' \in [Keys -> Record \cup {NoRecord}]
           /\ versions' \in [Keys -> [VersionIDs -> Record \cup {NoRecord}]]
           /\ count' \in Nat \cup {NoCount}
<1>1. ASSUME NEW next \in NextNewest(k, v),
             pointer' = [pointer EXCEPT ![k] = [next EXCEPT !.latest = TRUE]],
             versions' = [versions EXCEPT ![k] =
                [@ EXCEPT ![v] = NoRecord, ![next.vid] = [next EXCEPT !.latest = TRUE]]]
      PROVE  /\ pointer' \in [Keys -> Record \cup {NoRecord}]
             /\ versions' \in [Keys -> [VersionIDs -> Record \cup {NoRecord}]]
  <2>1. next \in Record
    BY DEF NextNewest, TypeOK
  <2>2. [next EXCEPT !.latest = TRUE] \in Record
    BY <2>1 DEF Record
  <2>3. QED
    BY <1>1, <2>2 DEF TypeOK
<1>2. CASE pointer[k] # NoRecord /\ pointer[k].vid = v /\ NextNewest(k, v) # {}
  <2>1. PICK next \in NextNewest(k, v) :
              /\ pointer' = [pointer EXCEPT ![k] = [next EXCEPT !.latest = TRUE]]
              /\ versions' = [versions EXCEPT ![k] =
                    [@ EXCEPT ![v] = NoRecord, ![next.vid] = [next EXCEPT !.latest = TRUE]]]
              /\ UNCHANGED count
    BY <1>2 DEF DeleteVersionMeta
  <2>2. QED
    BY <1>1, <2>1 DEF TypeOK
<1>3. CASE pointer[k] # NoRecord /\ pointer[k].vid = v /\ NextNewest(k, v) = {}
  <2>1. /\ pointer' = [pointer EXCEPT ![k] = NoRecord]
        /\ versions' = [versions EXCEPT ![k][v] = NoRecord]
        /\ adjustObjectCount(-1)
    BY <1>3 DEF DeleteVersionMeta
  <2>2. count' \in Nat \cup {NoCount}
    BY <2>1 DEF TypeOK, adjustObjectCount, NoCount
  <2>3. QED
    BY <2>1, <2>2 DEF TypeOK
<1>4. CASE ~(pointer[k] # NoRecord /\ pointer[k].vid = v)
  <2>1. versions' = [versions EXCEPT ![k][v] = NoRecord] /\ UNCHANGED <<pointer, count>>
    BY <1>4 DEF DeleteVersionMeta
  <2>2. QED
    BY <2>1 DEF TypeOK
<1>5. QED
  BY <1>2, <1>3, <1>4

LEMMA DeleteAllMetaType ==
    ASSUME TypeOK, NEW k \in Keys, DeleteAllMeta(k)
    PROVE  /\ pointer' \in [Keys -> Record \cup {NoRecord}]
           /\ versions' \in [Keys -> [VersionIDs -> Record \cup {NoRecord}]]
           /\ count' \in Nat \cup {NoCount}
  BY DEF DeleteAllMeta, TypeOK, adjustObjectCount, NoCount, NoVersions

LEMMA ReturnType ==
    ASSUME TypeOK, NEW p \in Procs, Return(p)
    PROVE  /\ pc' \in [Procs -> PCs]
           /\ op' \in [Procs -> Op]
           /\ keyLock' \in [Keys -> Procs \cup {NoProc}]
           /\ committers' \subseteq Procs
<1>1. Idle \in Op
  BY DEF Idle, Op
<1>2. QED
  BY <1>1 DEF Return, Go, TypeOK, PCs

\* The records a PUT, a delete marker and a promotion write.
LEMMA NewRecordType ==
    ASSUME NEW v \in VersionIDs \cup {Unversioned}, NEW b \in Blobs, NEW t \in Nat
    PROVE  /\ [vid |-> v, blob |-> b, etag |-> b, marker |-> FALSE,
               latest |-> TRUE, modified |-> t, noncurrent |-> 0] \in Record
           /\ [vid |-> v, blob |-> NoBlob, etag |-> Absent, marker |-> TRUE,
               latest |-> TRUE, modified |-> t, noncurrent |-> 0] \in Record
  BY DEF Record, Paths

\* Which process state belongs to which kind of request: needed to know that
\* a PUT has a blob and a delete a version wherever they use one.
Shape(at, o) ==
    /\ at # "idle" => o.key \in Keys
    /\ at \in {"written", "renamed", "synced"} => o.kind = "put"
    /\ at \in {"waiting", "checked", "ready"} => o.kind # "put"
    /\ at \notin {"idle", "opening"} => o.kind \notin {"none", "get"}
    /\ o.kind = "put" => o.blob \in Blobs /\ o.mode = ""
    /\ at \in {"copied", "copySynced"} => o.copy \in Blobs
    /\ o.mode \in {"version", "marker"} => o.vid \in VersionIDs
    /\ at \in {"prepare", "copied", "copySynced", "recorded", "promoted", "ready"}
         /\ o.kind # "put" => o.mode # ""
    /\ at \in {"waiting", "locked", "checked"} => o.mode = ""
    /\ at = "opening" => o.blob \in Paths

OpShape == \A p \in Procs : Shape(pc[p], op[p])

\* Every variable of the store keeps its type, and every request its shape,
\* through each step of each handler.
TypeInv == TypeOK /\ OpShape

\* While a legacy object is being copied the current record is still that
\* object's: nobody else writes the key's metadata.
Promoting ==
    \A p \in Procs : pc[p] \in {"copied", "copySynced"} =>
        /\ pointer[op[p].key] # NoRecord
        /\ pointer[op[p].key].vid = Unversioned
        /\ ~pointer[op[p].key].marker
        /\ pointer[op[p].key].blob = NoBlob

\* A step of one process that leaves it with well-formed locals.
LEMMA ProcessStep ==
    ASSUME TypeInv, NEW p \in Procs, NEW to \in PCs, NEW o \in Op, Shape(to, o),
           pc' = [pc EXCEPT ![p] = to], op' = [op EXCEPT ![p] = o]
    PROVE  pc' \in [Procs -> PCs] /\ op' \in [Procs -> Op] /\ OpShape'
  BY DEF TypeInv, TypeOK, OpShape

LEMMA TypeInit == Init => TypeInv
<1> SUFFICES ASSUME Init PROVE TypeInv
  OBVIOUS
<1>1. Idle \in Op /\ Idle.kind = "none" /\ Idle.mode = ""
  BY DEF Idle, Op
<1>2. OpShape
  BY <1>1 DEF Init, OpShape, Shape
<1>3. NoVersions \in [VersionIDs -> Record \cup {NoRecord}]
  BY DEF NoVersions
<1> DEFINE StoreOK ==
      /\ status \in Statuses
      /\ pointer \in [Keys -> Record \cup {NoRecord}]
      /\ versions \in [Keys -> [VersionIDs -> Record \cup {NoRecord}]]
      /\ count \in Nat \cup {NoCount}
      /\ data \in [Paths -> Paths \cup {Absent}]
      /\ spent \subseteq Blobs \cup Uuids
<1>4. ASSUME EmptyStore PROVE StoreOK
  BY <1>3, <1>4 DEF EmptyStore, Statuses
<1>5. ASSUME NEW S \in SUBSET Keys, LegacyStore(S)
      PROVE  StoreOK
  <2>1. \A k \in Keys : LegacyObject(k) \in Record
    BY DEF LegacyObject, Record, Paths
  <2>2. QED
    BY <1>3, <1>5, <2>1 DEF LegacyStore, Statuses, Paths
<1>6. ASSUME NEW k \in Keys, NEW u1 \in Uuids, NEW u2 \in Uuids,
             NEW b1 \in Blobs, NEW b2 \in Blobs, NEW since \in {0, 2},
             OldHistory(k, u1, u2, b1, b2, since)
      PROVE  StoreOK
  <2>1. /\ OldVersion(u1, b1, FALSE, 1, since) \in Record
        /\ OldVersion(u2, b2, TRUE, 2, 0) \in Record
    BY DEF OldVersion, Record, Paths, VersionIDs
  <2>2. QED
    BY <1>6, <2>1 DEF OldHistory, Statuses, Paths
<1>7. StoreOK
  BY <1>4, <1>5, <1>6 DEF Init
<1>8. QED
  BY <1>1, <1>2, <1>7 DEF Init, TypeInv, TypeOK, PCs

LEMMA TypeNext == TypeInv /\ Promoting /\ [Next]_vars => TypeInv'
<1> SUFFICES ASSUME TypeInv, Promoting, [Next]_vars PROVE TypeInv'
  OBVIOUS
<1> USE DEF TypeInv
<1>a. \A p \in Procs : op[p] \in Op /\ pc[p] \in PCs /\ Shape(pc[p], op[p])
  BY DEF TypeOK, OpShape
<1>b. Idle \in Op /\ \A at \in PCs : at = "idle" => Shape(at, Idle)
  BY DEF Idle, Op, Shape
<1>c. ASSUME NEW p \in Procs, Return(p) PROVE OpShape' 
  BY <1>b, <1>c, ProcessStep DEF Return, Go, PCs
<1>1. ASSUME NEW p \in Procs, lockObjectKey(p) PROVE TypeInv'
  <2>1. Shape("locked", op[p]) /\ op' = [op EXCEPT ![p] = op[p]]
    BY <1>1, <1>a DEF lockObjectKey, Shape, TypeOK
  <2>2. pc' \in [Procs -> PCs] /\ op' \in [Procs -> Op] /\ OpShape'
    BY <1>1, <1>a, <2>1, ProcessStep DEF lockObjectKey, Go, PCs
  <2>3. QED
    BY <1>1, <2>2 DEF lockObjectKey, TypeOK, meta, disk
<1>2. ASSUME NEW p \in Procs, NEW k \in Keys, PutBegin(p, k) PROVE TypeInv'
  <2>1. PICK b \in Blobs \ spent :
            /\ spent' = spent \cup {b}
            /\ op' = [op EXCEPT ![p] = [Idle EXCEPT !.kind = "put", !.key = k, !.blob = b]]
    BY <1>2 DEF PutBegin
  <2> DEFINE o == [Idle EXCEPT !.kind = "put", !.key = k, !.blob = b]
  <2>2. o \in Op /\ Shape("written", o)
    BY DEF Idle, Op, Paths, Shape
  <2>3. pc' \in [Procs -> PCs] /\ op' \in [Procs -> Op] /\ OpShape'
    BY <1>2, <2>1, <2>2, ProcessStep DEF PutBegin, Go, PCs
  <2>4. QED
    BY <1>2, <2>1, <2>3 DEF PutBegin, TypeOK, meta, disk, locks
<1>3. ASSUME NEW p \in Procs, PutJoin(p) PROVE TypeInv'
  <2>1. PICK v \in VersionIDs \cup {Unversioned} :
            /\ spent' = spent \cup (Uuids \cap {v})
            /\ op' = [op EXCEPT ![p].vid = v, ![p].mod = clock]
    BY <1>3 DEF PutJoin
  <2> DEFINE o == [op[p] EXCEPT !.vid = v, !.mod = clock]
  <2>2. o \in Op /\ op' = [op EXCEPT ![p] = o]
    BY <1>a, <2>1, ZenonT(60) DEF Op, TypeOK
  <2>3. Shape("prepare", o)
    BY <1>3, <1>a, ZenonT(60) DEF Op, Shape, PutJoin
  <2>4. pc' \in [Procs -> PCs] /\ op' \in [Procs -> Op] /\ OpShape'
    BY <1>3, <2>2, <2>3, ProcessStep DEF PutJoin, Go, PCs
  <2>5. QED
    BY <1>3, <2>1, <2>4 DEF PutJoin, TypeOK, meta, disk
<1>4. ASSUME NEW p \in Procs, PutRename(p) PROVE TypeInv'
  <2>1. PICK g \in SUBSET Paths : op' = [op EXCEPT ![p].gone = g]
    <3> DEFINE k == op[p].key
               replaced == IF op[p].vid \in Uuids THEN {} ELSE {storedRecord(k, op[p].vid)}
               obsolete == IF op[p].vid = Unversioned THEN GetObjectVersions(k) ELSE {}
    <3>1. k \in Keys /\ op[p].vid \in VersionIDs \cup {Unversioned}
      BY <1>4, <1>a DEF PutRename, Shape, Op
    <3>2. replaced \cup obsolete \subseteq Record \cup {NoRecord}
      BY <3>1, GetObjectMetaType, VersionsType
    <3>3. DataOf(k, replaced \cup obsolete) \in SUBSET Paths
      BY <3>1, <3>2, DataOfType
    <3>4. QED
      BY <1>4, <3>3 DEF PutRename
  <2> DEFINE o == [op[p] EXCEPT !.gone = g]
  <2>2. o \in Op /\ op' = [op EXCEPT ![p] = o]
    BY <1>a, <2>1, ZenonT(60) DEF Op, TypeOK
  <2>3. Shape("renamed", o) /\ op[p].blob \in Blobs
    BY <1>4, <1>a DEF Op, Shape, PutRename
  <2>4. pc' \in [Procs -> PCs] /\ op' \in [Procs -> Op] /\ OpShape'
    BY <1>4, <2>2, <2>3, ProcessStep DEF PutRename, Go, PCs
  <2>5. QED
    BY <1>4, <2>3, <2>4 DEF PutRename, TypeOK, meta, locks, Paths
<1>5. ASSUME NEW p \in Procs, syncParents(p) PROVE TypeInv'
  <2>1. PICK to \in PCs : /\ pc' = [pc EXCEPT ![p] = to]
                          /\ Shape(to, op[p])
    BY <1>5, <1>a DEF syncParents, Go, PCs, Shape
  <2>2. op' = [op EXCEPT ![p] = op[p]]
    BY <1>5 DEF syncParents, TypeOK
  <2>3. pc' \in [Procs -> PCs] /\ op' \in [Procs -> Op] /\ OpShape'
    BY <1>a, <2>1, <2>2, ProcessStep
  <2>4. QED
    BY <1>5, <2>3 DEF syncParents, TypeOK, meta, locks
<1>6. ASSUME NEW p \in Procs, PutCommit(p) PROVE TypeInv'
  <2>1. Shape("cleanup", op[p]) /\ op' = [op EXCEPT ![p] = op[p]]
    BY <1>6, <1>a DEF PutCommit, Shape, TypeOK
  <2>2. pc' \in [Procs -> PCs] /\ op' \in [Procs -> Op] /\ OpShape'
    BY <1>6, <1>a, <2>1, ProcessStep DEF PutCommit, Go, PCs
  <2>3. /\ op[p].key \in Keys /\ op[p].blob \in Blobs /\ op[p].mod \in Nat
        /\ op[p].vid \in VersionIDs \cup {Unversioned}
    BY <1>6, <1>a DEF PutCommit, Shape, Op
  <2>4. /\ pointer' \in [Keys -> Record \cup {NoRecord}]
        /\ versions' \in [Keys -> [VersionIDs -> Record \cup {NoRecord}]]
        /\ count' \in Nat \cup {NoCount}
    BY <1>6, <2>3, NewRecordType, PutObjectMetaType DEF PutCommit
  <2>5. QED
    BY <1>6, <2>2, <2>4 DEF PutCommit, TypeOK, disk, locks
<1>7. ASSUME NEW p \in Procs, PromoteSkip(p) PROVE TypeInv'
  <2>1. Shape("promoted", op[p]) /\ op' = [op EXCEPT ![p] = op[p]]
    BY <1>7, <1>a DEF PromoteSkip, Shape, TypeOK
  <2>2. pc' \in [Procs -> PCs] /\ op' \in [Procs -> Op] /\ OpShape'
    BY <1>7, <1>a, <2>1, ProcessStep DEF PromoteSkip, Go, PCs
  <2>3. QED
    BY <1>7, <2>2 DEF PromoteSkip, TypeOK, meta, disk, locks
<1>e. ASSUME NEW k \in Keys, NEW rec \in Record, rec.vid = NullVersion,
             PutObjectMetaRaw(k, rec)
      PROVE  /\ pointer' \in [Keys -> Record \cup {NoRecord}]
             /\ versions' \in [Keys -> [VersionIDs -> Record \cup {NoRecord}]]
             /\ count' \in Nat \cup {NoCount}
  BY <1>e DEF PutObjectMetaRaw, TypeOK, VersionIDs
<1>8. ASSUME NEW p \in Procs, PromoteRaw(p) PROVE TypeInv'
  <2>1. Shape("promoted", op[p]) /\ op' = [op EXCEPT ![p] = op[p]]
    BY <1>8, <1>a DEF PromoteRaw, Shape, TypeOK
  <2>2. pc' \in [Procs -> PCs] /\ op' \in [Procs -> Op] /\ OpShape'
    BY <1>8, <1>a, <2>1, ProcessStep DEF PromoteRaw, Go, PCs
  <2> DEFINE rec == [pointer[op[p].key] EXCEPT !.vid = NullVersion, !.latest = TRUE]
  <2>3. op[p].key \in Keys /\ pointer[op[p].key] # NoRecord /\ PutObjectMetaRaw(op[p].key, rec)
    BY <1>8, <1>a DEF PromoteRaw, Promotes, Shape
  <2>4. rec \in Record /\ rec.vid = NullVersion
    <3>1. pointer[op[p].key] \in Record
      BY <2>3 DEF TypeOK
    <3>2. QED
      BY <3>1 DEF Record, VersionIDs
  <2>5. QED
    BY <1>8, <1>e, <2>2, <2>3, <2>4 DEF PromoteRaw, TypeOK, disk, locks
<1>9. ASSUME NEW p \in Procs, PromoteCopy(p) PROVE TypeInv'
  <2>1. PICK b \in Blobs \ spent :
            /\ spent' = spent \cup {b}
            /\ op' = [op EXCEPT ![p].copy = b]
            /\ data' = [data EXCEPT ![b] = data[op[p].key]]
            /\ unsynced' = unsynced \cup {b}
    BY <1>9 DEF PromoteCopy
  <2> DEFINE o == [op[p] EXCEPT !.copy = b]
  <2>2. o \in Op /\ op' = [op EXCEPT ![p] = o]
    BY <1>a, <2>1, ZenonT(60) DEF Op, TypeOK
  <2>3. Shape("copied", o) /\ op[p].key \in Keys
    BY <1>9, <1>a, ZenonT(60) DEF Op, Shape, PromoteCopy
  <2>4. pc' \in [Procs -> PCs] /\ op' \in [Procs -> Op] /\ OpShape'
    BY <1>9, <2>2, <2>3, ProcessStep DEF PromoteCopy, Go, PCs
  <2>5. QED
    BY <1>9, <2>1, <2>3, <2>4 DEF PromoteCopy, TypeOK, meta, locks, Paths
<1>10. ASSUME NEW p \in Procs, PromoteRecord(p) PROVE TypeInv'
  <2>1. Shape("recorded", op[p]) /\ op' = [op EXCEPT ![p] = op[p]]
    BY <1>10, <1>a DEF PromoteRecord, Shape, TypeOK
  <2>2. pc' \in [Procs -> PCs] /\ op' \in [Procs -> Op] /\ OpShape'
    BY <1>10, <1>a, <2>1, ProcessStep DEF PromoteRecord, Go, PCs
  <2> DEFINE rec == [pointer[op[p].key] EXCEPT !.vid = NullVersion, !.latest = TRUE,
                                               !.blob = op[p].copy]
  <2>3. /\ op[p].key \in Keys /\ op[p].copy \in Blobs /\ pointer[op[p].key] # NoRecord
        /\ PutObjectMetaRaw(op[p].key, rec)
    BY <1>10, <1>a DEF PromoteRecord, Promoting, Shape
  <2>4. rec \in Record /\ rec.vid = NullVersion
    <3>1. pointer[op[p].key] \in Record
      BY <2>3 DEF TypeOK
    <3>2. QED
      BY <2>3, <3>1 DEF Record, VersionIDs
  <2>5. QED
    BY <1>10, <1>e, <2>2, <2>3, <2>4 DEF PromoteRecord, TypeOK, disk, locks
<1>11. ASSUME NEW p \in Procs, PromoteDrop(p) PROVE TypeInv'
  <2> DEFINE o == [op[p] EXCEPT !.copy = NoBlob]
  <2>2. o \in Op /\ op' = [op EXCEPT ![p] = o]
    BY <1>a, <1>11, ZenonT(60) DEF Op, TypeOK, PromoteDrop
  <2>3. Shape("promoted", o)
    BY <1>11, <1>a DEF Op, Shape, PromoteDrop
  <2>4. pc' \in [Procs -> PCs] /\ op' \in [Procs -> Op] /\ OpShape'
    BY <1>11, <2>2, <2>3, ProcessStep DEF PromoteDrop, Go, PCs
  <2>5. QED
    BY <1>11, <2>4 DEF PromoteDrop, TypeOK, meta, locks
<1>12. ASSUME NEW p \in Procs, NEW k \in Keys, NEW v \in VersionIDs \cup {Unversioned},
              DeleteBegin(p, k, v)
       PROVE  TypeInv'
  <2> DEFINE o == [Idle EXCEPT !.kind = "delete", !.key = k, !.vid = v]
  <2>1. o \in Op /\ Shape("waiting", o)
    BY DEF Idle, Op, Shape
  <2>2. pc' \in [Procs -> PCs] /\ op' \in [Procs -> Op] /\ OpShape'
    BY <1>12, <2>1, ProcessStep DEF DeleteBegin, Go, PCs
  <2>3. QED
    BY <1>12, <2>2 DEF DeleteBegin, TypeOK, meta, disk, locks
<1>13. ASSUME NEW p \in Procs, DeleteMode(p) PROVE TypeInv'
  <2>1. PICK m \in {"version", "marker", "all"}, v \in VersionIDs \cup {Unversioned} :
            /\ op' = [op EXCEPT ![p] = [op[p] EXCEPT !.mode = m, !.vid = v]]
            /\ m # "all" => v \in VersionIDs
    <3>1. op[p].vid \in VersionIDs \cup {Unversioned}
      BY <1>a DEF Op
    <3>2. ASSUME NEW m, op' = [op EXCEPT ![p].mode = m]
          PROVE  op' = [op EXCEPT ![p] = [op[p] EXCEPT !.mode = m, !.vid = op[p].vid]]
      <4>1. [op[p] EXCEPT !.mode = m] = [op[p] EXCEPT !.mode = m, !.vid = op[p].vid]
        BY <1>a DEF Op
      <4>2. QED
        BY <3>2, <4>1
    <3>3. CASE op[p].vid # Unversioned /\ op' = [op EXCEPT ![p].mode = "version"]
      BY <3>1, <3>2, <3>3
    <3>4. ASSUME NEW u \in VersionIDs, op' = [op EXCEPT ![p].mode = "marker", ![p].vid = u]
          PROVE  op' = [op EXCEPT ![p] = [op[p] EXCEPT !.mode = "marker", !.vid = u]]
      BY <3>4, <1>a DEF TypeOK
    <3>5. CASE op' = [op EXCEPT ![p].mode = "all"]
      BY <3>1, <3>2, <3>5
    <3>6. \/ op[p].vid # Unversioned /\ op' = [op EXCEPT ![p].mode = "version"]
          \/ \E u \in VersionIDs : op' = [op EXCEPT ![p].mode = "marker", ![p].vid = u]
          \/ op' = [op EXCEPT ![p].mode = "all"]
      BY <1>13 DEF DeleteMode, VersionIDs
    <3>7. QED
      BY <3>3, <3>4, <3>5, <3>6
  <2> DEFINE o == [op[p] EXCEPT !.mode = m, !.vid = v]
  <2>2. o \in Op
    BY <1>a DEF Op
  <2>3. Shape("prepare", o)
    BY <1>13, <1>a, <2>1 DEF Op, Shape, DeleteMode
  <2>4. pc' \in [Procs -> PCs] /\ op' \in [Procs -> Op] /\ OpShape'
    BY <1>13, <2>1, <2>2, <2>3, ProcessStep DEF DeleteMode, Go, PCs
  <2>5. spent' \subseteq Blobs \cup Uuids
    BY <1>13 DEF DeleteMode, TypeOK
  <2>6. QED
    BY <1>13, <2>4, <2>5 DEF DeleteMode, TypeOK, meta, disk, locks
<1>14. ASSUME NEW p \in Procs, DeleteCollect(p) PROVE TypeInv'
  <2>1. PICK g \in SUBSET Paths : op' = [op EXCEPT ![p].gone = g, ![p].mod = clock]
    <3> DEFINE k == op[p].key
               recs == IF op[p].mode = "all" THEN GetObjectVersions(k)
                       ELSE {storedRecord(k, op[p].vid)}
    <3>1. k \in Keys /\ op[p].vid \in VersionIDs \cup {Unversioned}
      BY <1>14, <1>a DEF DeleteCollect, Shape, Op
    <3>2. recs \subseteq Record \cup {NoRecord}
      BY <3>1, GetObjectMetaType, VersionsType
    <3>3. DataOf(k, recs) \in SUBSET Paths
      BY <3>1, <3>2, DataOfType
    <3>4. QED
      BY <1>14, <3>3 DEF DeleteCollect
  <2> DEFINE o == [op[p] EXCEPT !.gone = g, !.mod = clock]
  <2>2. o \in Op /\ op' = [op EXCEPT ![p] = o]
    BY <1>a, <2>1, ZenonT(60) DEF Op, TypeOK
  <2>3. Shape("ready", o)
    BY <1>14, <1>a DEF Op, Shape, DeleteCollect
  <2>4. pc' \in [Procs -> PCs] /\ op' \in [Procs -> Op] /\ OpShape'
    BY <1>14, <2>2, <2>3, ProcessStep DEF DeleteCollect, Go, PCs
  <2>5. QED
    BY <1>14, <2>4 DEF DeleteCollect, TypeOK, meta, disk, locks
<1>15. ASSUME NEW p \in Procs, DeleteMissing(p) PROVE TypeInv'
  BY <1>15, <1>c, ReturnType DEF DeleteMissing, TypeOK, meta, disk
<1>16. ASSUME NEW p \in Procs, DeleteCommit(p) PROVE TypeInv'
  <2>1. Shape("cleanup", op[p]) /\ op' = [op EXCEPT ![p] = op[p]]
    BY <1>16, <1>a DEF DeleteCommit, Shape, TypeOK
  <2>2. pc' \in [Procs -> PCs] /\ op' \in [Procs -> Op] /\ OpShape'
    BY <1>16, <1>a, <2>1, ProcessStep DEF DeleteCommit, Go, PCs
  <2>3. /\ op[p].key \in Keys /\ op[p].mod \in Nat
        /\ op[p].mode \in {"version", "marker"} => op[p].vid \in VersionIDs
    BY <1>16, <1>a DEF DeleteCommit, Shape, Op
  <2> DEFINE MetaOK == /\ pointer' \in [Keys -> Record \cup {NoRecord}]
                       /\ versions' \in [Keys -> [VersionIDs -> Record \cup {NoRecord}]]
                       /\ count' \in Nat \cup {NoCount}
             rec == [vid |-> op[p].vid, blob |-> NoBlob, etag |-> Absent, marker |-> TRUE,
                     latest |-> TRUE, modified |-> op[p].mod, noncurrent |-> 0]
  <2>4. CASE op[p].mode = "version" /\ DeleteVersionMeta(op[p].key, op[p].vid)
    <3>1. MetaOK
      BY <2>3, <2>4, DeleteVersionMetaType
    <3>2. QED
      BY <1>16, <2>2, <3>1 DEF DeleteCommit, TypeOK, disk, locks
  <2>5. CASE op[p].mode = "all" /\ DeleteAllMeta(op[p].key)
    <3>1. MetaOK
      BY <2>3, <2>5, DeleteAllMetaType
    <3>2. QED
      BY <1>16, <2>2, <3>1 DEF DeleteCommit, TypeOK, disk, locks
  <2>6. CASE op[p].mode = "marker" /\ PutObjectMeta(op[p].key, rec)
    <3>1. rec \in Record
      BY <2>3, <2>6 DEF Record
    <3>2. MetaOK
      BY <2>3, <2>6, <3>1, PutObjectMetaType
    <3>3. QED
      BY <1>16, <2>2, <3>2 DEF DeleteCommit, TypeOK, disk, locks
  <2>7. QED
    BY <1>16, <2>4, <2>5, <2>6 DEF DeleteCommit
<1>17. ASSUME NEW p \in Procs, removeData(p) PROVE TypeInv'
  <2>1. PICK path \in op[p].gone :
            /\ op' = [op EXCEPT ![p].gone = @ \ {path}]
            /\ \/ data' = [data EXCEPT ![path] = Absent] /\ UNCHANGED disturbed
               \/ disturbed' = TRUE /\ UNCHANGED data
    BY <1>17 DEF removeData
  <2> DEFINE o == [op[p] EXCEPT !.gone = @ \ {path}]
  <2>2. o \in Op /\ op' = [op EXCEPT ![p] = o]
    BY <1>a, <2>1, ZenonT(60) DEF Op, TypeOK
  <2>3. Shape("cleanup", o) /\ pc' = [pc EXCEPT ![p] = "cleanup"]
    <3>1. pc[p] = "cleanup" /\ pc' = pc
      BY <1>17 DEF removeData
    <3>2. Shape("cleanup", o)
      BY <3>1, <1>a DEF Op, Shape
    <3>3. QED
      BY <3>1, <3>2 DEF TypeOK
  <2>4. pc' \in [Procs -> PCs] /\ op' \in [Procs -> Op] /\ OpShape'
    BY <2>2, <2>3, ProcessStep DEF PCs
  <2>5. path \in Paths
    BY <1>a, <2>1 DEF Op
  <2>6. data' \in [Paths -> Paths \cup {Absent}]
    BY <2>1, <2>5 DEF TypeOK
  <2>7. disturbed' \in BOOLEAN
    BY <2>1 DEF TypeOK
  <2>8. QED
    BY <1>17, <2>4, <2>6, <2>7 DEF removeData, TypeOK, meta, locks
<1>18. ASSUME NEW p \in Procs, Finish(p) PROVE TypeInv'
  BY <1>18, <1>c, ReturnType DEF Finish, TypeOK, meta, disk
<1>19. ASSUME NEW p \in Procs, Fail(p) PROVE TypeInv'
  <2>1. data' \in [Paths -> Paths \cup {Absent}]
    BY <1>19 DEF Fail, TypeOK
  <2>2. unsynced' \subseteq Blobs
    BY <1>19 DEF Fail, TypeOK
  <2>3. disturbed' \in BOOLEAN
    BY <1>19 DEF Fail, TypeOK
  <2>4. Return(p)
    BY <1>19 DEF Fail
  <2>5. QED
    BY <1>19, <1>c, <2>1, <2>2, <2>3, <2>4, ReturnType DEF Fail, TypeOK, meta
<1>20. ASSUME NEW p \in Procs, NEW k \in Keys, ScanCurrent(p, k) PROVE TypeInv'
  <2> DEFINE o == [Idle EXCEPT !.kind = "expireCurrent", !.key = k,
                               !.vid = pointer[k].vid, !.mod = pointer[k].modified]
  <2>1. pointer[k] \in Record
    BY <1>20 DEF ScanCurrent, TypeOK
  <2>2. o \in Op /\ Shape("waiting", o)
    BY <2>1 DEF Idle, Op, Shape, Record
  <2>3. pc' \in [Procs -> PCs] /\ op' \in [Procs -> Op] /\ OpShape'
    BY <1>20, <2>2, ProcessStep DEF ScanCurrent, Go, PCs
  <2>4. QED
    BY <1>20, <2>3 DEF ScanCurrent, TypeOK, meta, disk, locks
<1>21. ASSUME NEW p \in Procs, NEW k \in Keys, ScanNoncurrent(p, k) PROVE TypeInv'
  <2>1. PICK v \in VersionIDs :
           op' = [op EXCEPT ![p] = [Idle EXCEPT !.kind = "expireNoncurrent", !.key = k,
                                       !.vid = v, !.now = clock]]
    BY <1>21 DEF ScanNoncurrent
  <2> DEFINE o == [Idle EXCEPT !.kind = "expireNoncurrent", !.key = k,
                               !.vid = v, !.now = clock]
  <2>2. o \in Op /\ Shape("waiting", o)
    BY DEF Idle, Op, Shape, TypeOK
  <2>3. pc' \in [Procs -> PCs] /\ op' \in [Procs -> Op] /\ OpShape'
    BY <1>21, <2>1, <2>2, ProcessStep DEF ScanNoncurrent, Go, PCs
  <2>4. QED
    BY <1>21, <2>3 DEF ScanNoncurrent, TypeOK, meta, disk, locks
<1>22. ASSUME NEW p \in Procs, ExpireCheck(p) PROVE TypeInv'
  <2>1. PICK v \in VersionIDs \cup {Unversioned} : op' = [op EXCEPT ![p].vid = v]
    <3>1. op[p].vid \in VersionIDs \cup {Unversioned}
      BY <1>a DEF Op
    <3>2. [op EXCEPT ![p].vid = op[p].vid] = op
      BY <1>a DEF TypeOK, Op
    <3>3. QED
      BY <1>22, <3>1, <3>2 DEF ExpireCheck
  <2> DEFINE o == [op[p] EXCEPT !.vid = v]
  <2>2. o \in Op /\ op' = [op EXCEPT ![p] = o]
    BY <1>a, <2>1, ZenonT(60) DEF Op, TypeOK
  <2>3. Shape("checked", o)
    BY <1>22, <1>a DEF Op, Shape, ExpireCheck
  <2>4. pc' \in [Procs -> PCs] /\ op' \in [Procs -> Op] /\ OpShape'
    BY <1>22, <2>2, <2>3, ProcessStep DEF ExpireCheck, Go, PCs
  <2>5. QED
    BY <1>22, <2>4 DEF ExpireCheck, TypeOK, meta, disk, locks
<1>23. ASSUME NEW p \in Procs, ExpireSkip(p) PROVE TypeInv'
  BY <1>23, <1>c, ReturnType DEF ExpireSkip, TypeOK, meta, disk
<1>24. ASSUME NEW p \in Procs, NEW k \in Keys, NEW v \in VersionIDs \cup {Unversioned},
              GetBegin(p, k, v)
       PROVE  TypeInv'
  <2> DEFINE rec == GetObjectMeta(k, v)
             o == [Idle EXCEPT !.kind = "get", !.key = k,
                               !.blob = dataPath(k, rec), !.etag = rec.etag]
  <2>1. rec \in Record
    BY <1>24, GetObjectMetaType DEF GetBegin
  <2>2. dataPath(k, rec) \in Paths /\ rec.etag \in Paths \cup {Absent}
    BY <2>1 DEF dataPath, Record, Paths
  <2>3. o \in Op /\ Shape("opening", o)
    BY <2>2 DEF Idle, Op, Shape
  <2>4. pc' \in [Procs -> PCs] /\ op' \in [Procs -> Op] /\ OpShape'
    BY <1>24, <2>3, ProcessStep DEF GetBegin, Go, PCs
  <2>5. QED
    BY <1>24, <2>4 DEF GetBegin, TypeOK, meta, disk, locks
<1>25. ASSUME NEW p \in Procs, GetOpen(p) PROVE TypeInv'
  BY <1>25, <1>c, ReturnType DEF GetOpen, TypeOK, meta, disk
<1>26. ASSUME NEW s \in {"Enabled", "Suspended", "Disabled"}, SetBucketVersioning(s)
       PROVE  TypeInv'
  BY <1>26 DEF SetBucketVersioning, TypeOK, OpShape, Statuses, meta, disk, locks
<1>27. CASE CountObjectMetas
  <2>1. scanObjectCount \in Nat
    BY BoundAssumption, FS_Subset, FS_CardinalityType DEF scanObjectCount
  <2>2. QED
    BY <1>27, <2>1 DEF CountObjectMetas, TypeOK, OpShape, disk, locks
<1>28. CASE Tick
  BY <1>28 DEF Tick, TypeOK, OpShape, meta, disk, locks
<1>29. CASE Crash
  <2>1. data' \in [Paths -> Paths \cup {Absent}]
    BY <1>29 DEF Crash, TypeOK
  <2>2. pc' \in [Procs -> PCs] /\ op' \in [Procs -> Op] /\ OpShape'
    BY <1>29, <1>b DEF Crash, PCs, OpShape
  <2>3. QED
    BY <1>29, <2>1, <2>2 DEF Crash, TypeOK, meta
<1>30. CASE UNCHANGED vars
  BY <1>30 DEF vars, TypeOK, OpShape, meta, disk, locks
<1>31. ASSUME NEW p \in Procs, Begin(p) PROVE TypeInv'
  BY <1>31, <1>2, <1>12, <1>20, <1>21, <1>24 DEF Begin
<1>32. ASSUME NEW p \in Procs, Step(p) PROVE TypeInv'
  BY <1>32, <1>1, <1>3, <1>4, <1>5, <1>6, <1>7, <1>8, <1>9, <1>10, <1>11, <1>13, <1>14,
     <1>15, <1>16, <1>17, <1>18, <1>22, <1>23, <1>25 DEF Step
<1>33. QED
  BY <1>19, <1>26, <1>27, <1>28, <1>29, <1>30, <1>31, <1>32 DEF Next

-----------------------------------------------------------------------------
(***************************************************************************)
(* Who holds a key's lock, and who writes its metadata                     *)
(***************************************************************************)

\* A step of one handler.
Handler(p) == Begin(p) \/ Step(p) \/ Fail(p)

\* Where a handler is past lockObjectKey.
Holding == PCs \ {"idle", "written", "waiting", "opening"}

LockInv == \A p \in Procs : pc[p] \in Holding => keyLock[op[p].key] = p

\* The four ways a step of a handler moves it with respect to its key lock.
Begins(p) ==
    pc[p] = "idle" /\ pc'[p] \in PCs \ Holding /\ keyLock' = keyLock
Acquires(p) ==
    /\ pc[p] \in {"written", "waiting"} /\ pc'[p] \in Holding /\ op'[p].key = op[p].key /\ keyLock[op[p].key] = NoProc
    /\ keyLock' = [keyLock EXCEPT ![op[p].key] = p]
Continues(p) ==
    /\ pc[p] \in Holding /\ pc'[p] \in Holding
    /\ op'[p].key = op[p].key /\ keyLock' = keyLock
Leaves(p) ==
    /\ pc'[p] = "idle"
    /\ keyLock' = [k \in Keys |-> IF keyLock[k] = p THEN NoProc ELSE keyLock[k]]

\* The copy of a legacy object is made and fsynced before its record changes.
Copying(p) ==
    pc'[p] \in {"copied", "copySynced"} =>
        /\ pc[p] \in {"prepare", "copied"}
        /\ UNCHANGED <<pointer, versions>>
        /\ pc[p] = "prepare" => Promotes(p) /\ pointer[op[p].key].blob = NoBlob

\* What any step of a handler leaves alone: the other handlers, and the
\* metadata of every key but its own, which it writes only under the lock.
LEMMA HandlerStep ==
    ASSUME TypeInv, NEW p \in Procs, Handler(p)
    PROVE  /\ \A q \in Procs \ {p} : pc'[q] = pc[q] /\ op'[q] = op[q]
           /\ Begins(p) \/ Acquires(p) \/ Continues(p) \/ Leaves(p)
           /\ Copying(p)
<1> USE DEF TypeInv
<1> DEFINE Goal == /\ \A q \in Procs \ {p} : pc'[q] = pc[q] /\ op'[q] = op[q]
                   /\ Begins(p) \/ Acquires(p) \/ Continues(p) \/ Leaves(p)
                   /\ Copying(p)
<1>a. op[p] \in Op /\ pc[p] \in PCs /\ Shape(pc[p], op[p])
  BY DEF TypeOK, OpShape
<1>b. ASSUME Return(p) PROVE Goal
  BY <1>b DEF Return, Go, TypeOK, Leaves, Copying
<1>c. ASSUME NEW to \in Holding, pc[p] \in Holding, Go(p, to), NEW o,
             op' = [op EXCEPT ![p] = o], o.key = op[p].key, keyLock' = keyLock, Copying(p)
      PROVE  Goal
  BY <1>c DEF Go, TypeOK, Continues
<1>d. "locked" \in Holding /\ "checked" \in Holding /\ "prepare" \in Holding
      /\ "copied" \in Holding /\ "cleanup" \in Holding
  BY DEF Holding, PCs
<1>1. CASE Begin(p)
  <2>1. PICK to \in PCs \ Holding : Go(p, to) /\ \E o : op' = [op EXCEPT ![p] = o]
    BY <1>1 DEF Begin, PutBegin, DeleteBegin, GetBegin, ScanCurrent, ScanNoncurrent,
                Holding, PCs
  <2>2. pc[p] = "idle" /\ keyLock' = keyLock
    BY <1>1 DEF Begin, PutBegin, DeleteBegin, GetBegin, ScanCurrent, ScanNoncurrent, locks
  <2>3. QED
    BY <2>1, <2>2, SMTT(30) DEF Go, TypeOK, Begins, Copying, Holding, PCs
<1>2. CASE Fail(p)
  BY <1>2, <1>b DEF Fail
<1>3. CASE lockObjectKey(p)
  BY <1>3, <1>a DEF lockObjectKey, Go, TypeOK, Acquires, Copying, Holding, PCs
<1>4. CASE DeleteMissing(p) \/ Finish(p) \/ ExpireSkip(p) \/ GetOpen(p)
  BY <1>4, <1>b DEF DeleteMissing, Finish, ExpireSkip, GetOpen
<1>5. CASE PutJoin(p)
  BY <1>5, <1>a, ZenonT(60) DEF PutJoin, Go, TypeOK, Continues, Copying, Holding, PCs, Op
<1>6. CASE PutRename(p)
  BY <1>6, <1>a DEF PutRename, Go, TypeOK, Continues, Copying, Holding, PCs, Op, locks
<1>7. CASE syncParents(p)
  BY <1>7, <1>a, ZenonT(60) DEF syncParents, Go, TypeOK, Continues, Copying, Holding, PCs, Op, locks, meta
<1>8. CASE PutCommit(p)
  BY <1>8, <1>a DEF PutCommit, Go, TypeOK, Continues, Copying, Holding, PCs, Op, locks
<1>9. CASE PromoteSkip(p) \/ PromoteRaw(p)
  BY <1>9, <1>a DEF PromoteSkip, PromoteRaw, Go, TypeOK, Continues, Copying, Holding, PCs, Op, locks
<1>10. CASE PromoteCopy(p)
  <2>1. PICK b : op' = [op EXCEPT ![p].copy = b]
    BY <1>10 DEF PromoteCopy
  <2>2. op' = [op EXCEPT ![p] = [op[p] EXCEPT !.copy = b]] /\ [op[p] EXCEPT !.copy = b].key = op[p].key
    BY <2>1, <1>a DEF TypeOK, Op
  <2>3. pc[p] = "prepare" /\ Go(p, "copied") /\ keyLock' = keyLock /\ Copying(p)
    BY <1>10 DEF PromoteCopy, Go, Copying, locks, meta, TypeOK
  <2>4. QED
    BY <1>c, <1>d, <2>2, <2>3
<1>11. CASE PromoteRecord(p)
  BY <1>11, <1>a DEF PromoteRecord, Go, TypeOK, Continues, Copying, Holding, PCs, Op, locks
<1>12. CASE PromoteDrop(p)
  BY <1>12, <1>a DEF PromoteDrop, Go, TypeOK, Continues, Copying, Holding, PCs, Op, locks
<1>13. CASE DeleteMode(p)
  <2>1. PICK o : op' = [op EXCEPT ![p] = o] /\ o.key = op[p].key
    <3>1. ASSUME NEW m PROVE /\ [op EXCEPT ![p].mode = m] = [op EXCEPT ![p] = [op[p] EXCEPT !.mode = m]]
                             /\ [op[p] EXCEPT !.mode = m].key = op[p].key
      BY <1>a DEF TypeOK, Op
    <3>2. ASSUME NEW v
          PROVE  /\ [op EXCEPT ![p].mode = "marker", ![p].vid = v]
                      = [op EXCEPT ![p] = [op[p] EXCEPT !.mode = "marker", !.vid = v]]
                 /\ [op[p] EXCEPT !.mode = "marker", !.vid = v].key = op[p].key
      BY <1>a DEF TypeOK, Op
    <3>3. \/ \E m : op' = [op EXCEPT ![p].mode = m]
          \/ \E v \in VersionIDs : op' = [op EXCEPT ![p].mode = "marker", ![p].vid = v]
      BY <1>13 DEF DeleteMode, VersionIDs
    <3>4. ASSUME NEW m, op' = [op EXCEPT ![p].mode = m]
          PROVE  \E o : op' = [op EXCEPT ![p] = o] /\ o.key = op[p].key
      <4> WITNESS [op[p] EXCEPT !.mode = m]
      <4> QED
        BY <3>1, <3>4
    <3>5. ASSUME NEW v, op' = [op EXCEPT ![p].mode = "marker", ![p].vid = v]
          PROVE  \E o : op' = [op EXCEPT ![p] = o] /\ o.key = op[p].key
      <4> WITNESS [op[p] EXCEPT !.mode = "marker", !.vid = v]
      <4> QED
        BY <3>2, <3>5
    <3>6. QED
      BY <3>3, <3>4, <3>5
  <2>2. pc[p] \in {"locked", "checked"} /\ Go(p, "prepare") /\ keyLock' = keyLock /\ Copying(p)
    BY <1>13 DEF DeleteMode, Go, Copying, locks, TypeOK
  <2>3. QED
    BY <1>c, <1>d, <2>1, <2>2
<1>14. CASE DeleteCollect(p)
  BY <1>14, <1>a DEF DeleteCollect, Go, TypeOK, Continues, Copying, Holding, PCs, Op, locks
<1>15. CASE DeleteCommit(p)
  BY <1>15, <1>a DEF DeleteCommit, Go, TypeOK, Continues, Copying, Holding, PCs, Op, locks
<1>16. CASE removeData(p)
  <2>1. PICK path : op' = [op EXCEPT ![p].gone = @ \ {path}]
    BY <1>16 DEF removeData
  <2> DEFINE o == [op[p] EXCEPT !.gone = @ \ {path}]
  <2>2. op' = [op EXCEPT ![p] = o] /\ o.key = op[p].key
    BY <2>1, <1>a DEF TypeOK, Op
  <2>3. pc[p] = "cleanup" /\ pc' = pc /\ keyLock' = keyLock
    BY <1>16 DEF removeData, locks
  <2>4. Go(p, "cleanup") /\ Copying(p)
    BY <2>3 DEF Go, Copying, TypeOK
  <2>5. QED
    BY <1>c, <1>d, <2>2, <2>3, <2>4
<1>17. CASE ExpireCheck(p)
  <2>1. PICK v : op' = [op EXCEPT ![p].vid = v]
    <3>1. op = [op EXCEPT ![p].vid = op[p].vid]
      BY <1>a DEF TypeOK, Op
    <3>2. QED
      BY <1>17, <3>1 DEF ExpireCheck
  <2> DEFINE o == [op[p] EXCEPT !.vid = v]
  <2>2. op' = [op EXCEPT ![p] = o] /\ o.key = op[p].key
    BY <2>1, <1>a DEF TypeOK, Op
  <2>3. pc[p] = "locked" /\ Go(p, "checked") /\ keyLock' = keyLock /\ Copying(p)
    BY <1>17 DEF ExpireCheck, Go, Copying, locks, TypeOK
  <2>4. QED
    BY <1>c, <1>d, <2>2, <2>3
<1>18. QED
  BY <1>1, <1>2, <1>3, <1>4, <1>5, <1>6, <1>7, <1>8, <1>9, <1>10, <1>11, <1>12, <1>13,
     <1>14, <1>15, <1>16, <1>17 DEF Handler, Step

\* A key's metadata changes only at the hands of a handler working on it,
\* past the lock.
LEMMA MetadataFrame ==
    ASSUME TypeInv, NEW p \in Procs, Handler(p),
           NEW k \in Keys, pointer'[k] # pointer[k] \/ versions'[k] # versions[k]
    PROVE  k = op[p].key /\ pc[p] \in {"prepare", "copySynced", "synced", "ready"}
<1> USE DEF TypeInv
<1>1. UNCHANGED <<pointer, versions>> \/ PutCommit(p) \/ PromoteRaw(p) \/ PromoteRecord(p)
      \/ DeleteCommit(p)
  BY DEF Handler, Begin, Step, Fail, PutBegin, DeleteBegin, GetBegin, ScanCurrent,
         ScanNoncurrent, lockObjectKey, PutJoin, PutRename, syncParents, PromoteSkip,
         PromoteCopy, PromoteDrop, DeleteMode, DeleteCollect, DeleteMissing, removeData,
         Finish, ExpireCheck, ExpireSkip, GetOpen, meta
<1>2. CASE PutCommit(p)
  BY <1>2 DEF PutCommit, PutObjectMeta, TypeOK
<1>3. CASE PromoteRaw(p)
  BY <1>3 DEF PromoteRaw, PutObjectMetaRaw, TypeOK
<1>4. CASE PromoteRecord(p)
  BY <1>4 DEF PromoteRecord, PutObjectMetaRaw, TypeOK
<1>5. CASE DeleteCommit(p)
  BY <1>5 DEF DeleteCommit, PutObjectMeta, DeleteVersionMeta, DeleteAllMeta, TypeOK
<1>6. QED
  BY <1>1, <1>2, <1>3, <1>4, <1>5, SMTT(30)

LEMMA LockNext == TypeInv /\ LockInv /\ Promoting /\ [Next]_vars => LockInv' /\ Promoting'
<1> SUFFICES ASSUME TypeInv, LockInv, Promoting, [Next]_vars PROVE LockInv' /\ Promoting'
  OBVIOUS
<1>1. ASSUME NEW p \in Procs, Handler(p) PROVE LockInv'
  <2> SUFFICES ASSUME NEW q \in Procs, pc'[q] \in Holding PROVE keyLock'[op'[q].key] = q
    BY DEF LockInv
  <2>1. /\ \A r \in Procs \ {p} : pc'[r] = pc[r] /\ op'[r] = op[r]
        /\ Begins(p) \/ Acquires(p) \/ Continues(p) \/ Leaves(p)
    BY <1>1, HandlerStep
  <2>2. /\ keyLock \in [Keys -> Procs \cup {NoProc}]
        /\ \A r \in Procs : pc[r] # "idle" => op[r].key \in Keys
    BY DEF TypeInv, TypeOK, OpShape, Shape
  <2>3. "idle" \notin Holding
    BY DEF Holding
  <2>4. CASE q = p
    BY <2>1, <2>2, <2>3, <2>4 DEF LockInv, Begins, Acquires, Continues, Leaves, Holding, PCs
  <2>5. CASE q # p
    BY <2>1, <2>2, <2>3, <2>5, IdAssumption DEF LockInv, Begins, Acquires, Continues, Leaves
  <2>6. QED
    BY <2>4, <2>5
<1>2. ASSUME NEW p \in Procs, Handler(p) PROVE Promoting'
  <2> SUFFICES ASSUME NEW q \in Procs, pc'[q] \in {"copied", "copySynced"}
               PROVE  /\ pointer'[op'[q].key] # NoRecord
                      /\ pointer'[op'[q].key].vid = Unversioned
                      /\ ~pointer'[op'[q].key].marker
                      /\ pointer'[op'[q].key].blob = NoBlob
    BY DEF Promoting
  <2>1. /\ \A r \in Procs \ {p} : pc'[r] = pc[r] /\ op'[r] = op[r]
        /\ Begins(p) \/ Acquires(p) \/ Continues(p) \/ Leaves(p)
        /\ Copying(p)
    BY <1>2, HandlerStep
  <2>2. CASE q = p
    <3>1. pc[p] \in {"prepare", "copied"} /\ UNCHANGED pointer
      BY <2>1, <2>2 DEF Copying
    <3>2. op'[p].key = op[p].key
      BY <2>1, <2>2, <3>1 DEF Begins, Acquires, Continues, Leaves
    <3>3. QED
      BY <2>1, <2>2, <3>1, <3>2 DEF Copying, Promotes, Promoting
  <2>3. CASE q # p
    <3>1. pc[q] \in {"copied", "copySynced"} /\ op'[q].key = op[q].key /\ op[q].key \in Keys
      BY <2>1, <2>3 DEF TypeInv, OpShape, Shape
    <3>2. pointer'[op[q].key] = pointer[op[q].key]
      BY <1>2, <2>3, <3>1, MetadataFrame DEF LockInv, Holding, PCs
    <3>3. QED
      BY <3>1, <3>2 DEF Promoting
  <2>4. QED
    BY <2>2, <2>3
<1>3. CASE \E s \in {"Enabled", "Suspended", "Disabled"} : SetBucketVersioning(s)
  BY <1>3 DEF SetBucketVersioning, LockInv, Promoting, meta, locks
<1>4. CASE CountObjectMetas
  BY <1>4 DEF CountObjectMetas, LockInv, Promoting, locks
<1>5. CASE Tick
  BY <1>5 DEF Tick, LockInv, Promoting, meta, locks
<1>6. CASE Crash
  BY <1>6 DEF Crash, LockInv, Promoting, Holding
<1>7. CASE UNCHANGED vars
  BY <1>7 DEF vars, LockInv, Promoting, meta, locks
<1>8. QED
  BY <1>1, <1>2, <1>3, <1>4, <1>5, <1>6, <1>7 DEF Next, Handler

-----------------------------------------------------------------------------
\* What the handlers rely on: typed state, the exclusion of the key lock and
\* an undisturbed legacy record while it is copied.
Control == TypeInv /\ LockInv /\ Promoting

LEMMA ControlHolds == Spec => []Control
<1>1. Init => Control
  BY TypeInit DEF Init, Control, LockInv, Promoting, Holding
<1>2. Control /\ [Next]_vars => Control'
  BY TypeNext, LockNext DEF Control
<1>3. QED
  BY <1>1, <1>2, PTL DEF Spec

\* Every variable of the store has its type in every reachable state, for any
\* number of keys, handlers and IDs and whatever fails: no transaction writes
\* a malformed record and no handler uses a local it has not set.
THEOREM TypeCorrect == Spec => []TypeOK
<1>1. Control => TypeOK
  BY DEF Control, TypeInv
<1>2. QED
  BY <1>1, ControlHolds, PTL

\* lockObjectKey excludes: two handlers past it never work on the same key.
KeyExclusion ==
    \A p, q \in Procs : pc[p] \in Holding /\ pc[q] \in Holding /\ op[p].key = op[q].key => p = q

THEOREM HandlersExclude == Spec => []KeyExclusion
<1>1. Control => KeyExclusion
  BY DEF Control, LockInv, KeyExclusion
<1>2. QED
  BY <1>1, ControlHolds, PTL

-----------------------------------------------------------------------------
(***************************************************************************)
(* The metadata of a key                                                   *)
(***************************************************************************)

\* Where a PUT holds the bucket lock shared, and where it has a time.
Committing == {"prepare", "copied", "copySynced", "recorded", "promoted", "renamed", "synced",
               "cleanup"}
Dated(at, o) ==
    \/ o.kind = "put" /\ at \in Committing \ {"cleanup"}
    \/ at = "ready"

\* A request whose write or delete must not find an unversioned object.
Versioned(o) ==
    \/ o.kind = "put" /\ o.vid # Unversioned
    \/ o.mode = "marker"
    \/ o.mode = "version" /\ o.vid = NullVersion

Promoted == {"recorded", "promoted", "renamed", "synced", "ready"}

\* What a handler that holds a key's lock knows of the key's records.
Knows(p) ==
    LET cur == pointer[op[p].key]
    IN  /\ op[p].mode = "all" /\ pc[p] \in Holding =>
             \A u \in Uuids : versions[op[p].key][u] = NoRecord
        /\ op[p].mode = "all" /\ pc[p] = "ready" => cur # NoRecord
        /\ Versioned(op[p]) /\ pc[p] \in Promoted /\ cur # NoRecord => cur.vid # Unversioned
        /\ Dated(pc[p], op[p]) => /\ op[p].mod <= clock
                                  /\ cur # NoRecord => cur.modified <= op[p].mod
        /\ op[p].mode = "marker" => status # ""

\* The bucket lock is held shared by the PUTs that have read the status.
CommitInv ==
    \A p \in Procs : p \in committers <=> (op[p].kind = "put" /\ pc[p] \in Committing)

\* A bucket that was never versioned has no version with an ID of its own.
StatusInv == status = "" => \A k \in Keys, u \in Uuids : versions[k][u] = NoRecord

CurrentInv ==
    \A k \in Keys : pointer[k] # NoRecord =>
        /\ pointer[k].modified <= clock
        /\ pointer[k].vid = Unversioned => ~pointer[k].marker

MetaInv ==
    /\ LatestAgrees /\ CurrentInv /\ StatusInv
    /\ CommitInv /\ PublishesUnderCurrentStatus
    /\ \A p \in Procs : Knows(p)

\* The version an expiry names is noncurrent and was for too long.
Aged(k, o) ==
    /\ versions[k][o.vid] # NoRecord
    /\ ~versions[k][o.vid].latest
    /\ o.now - NoncurrentSince(k, versions[k][o.vid]) > Cutoff

\* The lifecycle sweep: what it found when it scanned, and found again.
Sweeps(p) ==
    LET k == op[p].key
    IN  /\ op[p].kind = "expireCurrent" =>
             /\ pc[p] \in {"waiting", "locked"} => clock - op[p].mod > Cutoff
             /\ pc[p] \in Holding \ {"locked", "cleanup"} =>
                  pointer[k] # NoRecord /\ clock - pointer[k].modified > Cutoff
        /\ op[p].kind = "expireNoncurrent" =>
             /\ op[p].vid \in VersionIDs /\ op[p].now <= clock
             /\ op[p].mode \in {"", "version"}
             /\ pc[p] \in Holding \ {"locked", "cleanup"} =>
                  /\ pc[p] \in {"checked", "prepare", "promoted", "ready"}
                  /\ Aged(k, op[p])

SweepInv == \A p \in Procs : Sweeps(p)

-----------------------------------------------------------------------------
(***************************************************************************)
(* The files                                                               *)
(***************************************************************************)

\* The record of version s of k, if any; an unversioned object has no entry
\* among the versions.
Slots == VersionIDs \cup {Unversioned}
Rec(k, s) ==
    IF s # Unversioned THEN versions[k][s]
    ELSE IF pointer[k] # NoRecord /\ pointer[k].vid = Unversioned THEN pointer[k]
    ELSE NoRecord

Refers(k, s, path) ==
    Rec(k, s) # NoRecord /\ ~Rec(k, s).marker /\ dataPath(k, Rec(k, s)) = path

\* A path that only p may still give or take data.
Unpublished == {"written", "locked", "prepare", "copied", "copySynced", "recorded", "promoted",
                "renamed", "synced"}
Owns(p, path) ==
    \/ op[p].kind = "put" /\ pc[p] \in Unpublished /\ path = op[p].blob
    \/ pc[p] \in {"copied", "copySynced"} /\ path = op[p].copy
    \/ pc[p] = "recorded" /\ path = op[p].key
    \/ pc[p] = "cleanup" /\ path \in op[p].gone

\* The files of the records a commit is about to remove.
Doomed(k, o) ==
    DataOf(k, (IF o.vid \in Uuids /\ o.mode # "version" THEN {} ELSE {storedRecord(k, o.vid)})
              \cup (IF o.mode = "all" \/ (o.kind = "put" /\ o.vid = Unversioned)
                    THEN GetObjectVersions(k) ELSE {}))

\* One file per record, one record per file, and it holds the record's bytes.
BackedInv ==
    \A k \in Keys, s \in Slots, path \in Paths : Refers(k, s, path) =>
        /\ data[path] = Rec(k, s).etag /\ Rec(k, s).etag # Absent
        /\ path \in Blobs => path \in spent
        /\ path \in Keys => s = Unversioned
        /\ path \notin unsynced
        /\ \A p \in Procs : ~Owns(p, path)

UniqueInv ==
    \A j, k \in Keys, s, t \in Slots, path \in Paths :
        Refers(k, s, path) /\ Refers(j, t, path) => k = j /\ s = t

OwnInv ==
    \A p \in Procs, path \in Paths : Owns(p, path) =>
        /\ path \in Blobs => path \in spent
        /\ path \in Keys => path = op[p].key
        /\ \A q \in Procs : Owns(q, path) => p = q

FileInv ==
    /\ \A b \in Blobs \ spent : data[b] = Absent
    /\ \A k \in Keys : data[k] \in {k, Absent}
    /\ \A k \in Keys, u \in Uuids : versions[k][u] # NoRecord => u \in spent

\* A request that is going to add the version its locals name.
Adds(at, o) ==
    \/ o.kind = "put" /\ at \in Committing \ {"cleanup"}
    \/ o.mode = "marker" /\ at \in Holding \ {"cleanup"}

\* What the locals of a handler say of the files.
Tracks(p) ==
    /\ op[p].kind = "put" /\ pc[p] \in Unpublished =>
         data[op[p].blob] = IF pc[p] \in {"renamed", "synced"} THEN op[p].blob ELSE Absent
    /\ pc[p] = "synced" => op[p].blob \notin unsynced
    /\ pc[p] \in {"copied", "copySynced"} =>
         /\ data[op[p].copy] = pointer[op[p].key].etag
         /\ op[p].kind = "put" => op[p].copy # op[p].blob
    /\ pc[p] = "copySynced" => op[p].copy \notin unsynced
    /\ pc[p] = "recorded" => Rec(op[p].key, Unversioned) = NoRecord
    /\ pc[p] \in {"renamed", "synced", "ready"} => op[p].gone = Doomed(op[p].key, op[p])
    /\ Adds(pc[p], op[p]) /\ op[p].vid \in Uuids =>
         op[p].vid \in spent /\ versions[op[p].key][op[p].vid] = NoRecord

\* Data that belongs to nobody appears only after a crash or failed cleanup.
KeptInv ==
    ~disturbed => \A path \in Paths : data[path] # Absent =>
        \/ \E k \in Keys, s \in Slots : Refers(k, s, path)
        \/ \E p \in Procs : Owns(p, path)

\* What a reader is about to open is a published file: nobody writes it again.
ReadInv ==
    \A p \in Procs : pc[p] = "opening" =>
        /\ data[op[p].blob] \in {op[p].etag, Absent}
        /\ op[p].blob \in Keys => op[p].etag = op[p].blob
        /\ op[p].blob \in Blobs =>
             /\ op[p].blob \in spent
             /\ \A q \in Procs : op[q].kind = "put" /\ pc[q] \in Unpublished =>
                                   op[q].blob # op[p].blob

DataInv ==
    /\ BackedInv /\ UniqueInv /\ OwnInv /\ FileInv /\ KeptInv /\ ReadInv
    /\ \A p \in Procs : Tracks(p)

-----------------------------------------------------------------------------
(***************************************************************************)
(* What the transactions do to the records of one key                      *)
(***************************************************************************)

LEMMA SmallestNat ==
    ASSUME NEW S, S \subseteq Nat, S # {}
    PROVE  \E m \in S : \A n \in S : m <= n
<1>1. PICK R : IsWellFoundedOn(R, Nat) /\ \A x, y \in Nat : x < y => <<x, y>> \in R
  <2>1. \A x, y \in Nat : x < y => <<x, y>> \in OpToRel(<, Nat)
    BY DEF OpToRel
  <2>2. QED
    BY <2>1, NatLessThanWellFounded
<1>2. IsWellFoundedOn(R, Nat)
  BY <1>1
<1>3. PICK x \in S : \A y \in S : ~(<<y, x>> \in R)
  BY <1>2, WFMin, Zenon
<1>4. ASSUME NEW y \in S PROVE x <= y
  <2>1. x \in Nat /\ y \in Nat
    OBVIOUS
  <2>2. ~(y < x)
    BY <1>1, <1>3, <2>1
  <2>3. QED
    BY <2>1, <2>2
<1>5. QED
  BY <1>4

LEMMA LargestNat ==
    ASSUME NEW S, S \subseteq Nat, S # {}, NEW bound \in Nat, \A n \in S : n <= bound
    PROVE  \E m \in S : \A n \in S : n <= m
<1>2. PICK T : T = {d \in Nat : \E n \in S : n + d = bound}
  OBVIOUS
<1>3. T \subseteq Nat /\ T # {}
  <2>1. PICK n \in S : TRUE
    OBVIOUS
  <2>2. bound - n \in Nat /\ n + (bound - n) = bound
    OBVIOUS
  <2>3. bound - n \in T
    BY <1>2, <2>2
  <2>4. QED
    BY <1>2, <2>3
<1>4. PICK x \in T : \A y \in T : x <= y
  BY <1>3, SmallestNat
<1>6. PICK m \in S : m + x = bound
  BY <1>2
<1>7. ASSUME NEW n \in S PROVE n <= m
  <2>1. bound - n \in Nat /\ n + (bound - n) = bound
    OBVIOUS
  <2>2. bound - n \in T
    BY <1>2, <2>1
  <2>3. x <= bound - n
    BY <1>4, <2>2
  <2>4. x \in Nat /\ m \in Nat /\ n \in Nat
    BY <1>3
  <2>5. QED
    BY <1>6, <2>3, <2>4
<1>8. QED
  BY <1>7

LEMMA Facts ==
    ASSUME TypeInv
    PROVE  /\ \A p \in Procs : op[p] \in Op /\ pc[p] \in PCs /\ Shape(pc[p], op[p])
           /\ \A k \in Keys : /\ pointer[k] \in Record \cup {NoRecord}
                              /\ \A v \in VersionIDs : versions[k][v] \in Record \cup {NoRecord}
           /\ \A k \in Keys : versions[k] \in [VersionIDs -> Record \cup {NoRecord}]
           /\ Unversioned \notin VersionIDs /\ NullVersion \in VersionIDs /\ Uuids \subseteq VersionIDs
           /\ clock \in Nat
<1>1. \A p \in Procs : op[p] \in Op /\ pc[p] \in PCs /\ Shape(pc[p], op[p])
  BY DEF TypeInv, TypeOK, OpShape
<1>2. \A k \in Keys : versions[k] \in [VersionIDs -> Record \cup {NoRecord}]
                      /\ pointer[k] \in Record \cup {NoRecord}
  BY DEF TypeInv, TypeOK
<1>3. Unversioned \notin VersionIDs /\ NullVersion \in VersionIDs /\ Uuids \subseteq VersionIDs
  BY IdAssumption DEF VersionIDs, Unversioned, NullVersion
<1>4. QED
  BY <1>1, <1>2, <1>3 DEF TypeInv, TypeOK

\* A key without versions, entry by entry.
LEMMA NoVersionsEach ==
    ASSUME TypeInv, NEW k \in Keys
    PROVE  versions[k] = NoVersions <=> \A v \in VersionIDs : versions[k][v] = NoRecord
<1>1. versions[k] \in [VersionIDs -> Record \cup {NoRecord}]
  BY Facts
<1>2. ASSUME \A v \in VersionIDs : versions[k][v] = NoRecord PROVE versions[k] = NoVersions
  BY <1>1, <1>2 DEF NoVersions
<1>3. QED
  BY <1>2 DEF NoVersions

LEMMA PutMeta ==
    ASSUME TypeInv, NEW k \in Keys, NEW rec \in Record, PutObjectMeta(k, rec)
    PROVE  /\ pointer'[k] = rec
           /\ rec.vid = Unversioned => \A v \in VersionIDs : versions'[k][v] = NoRecord
           /\ rec.vid # Unversioned =>
                \A v \in VersionIDs : versions'[k][v] =
                    IF v = rec.vid THEN rec
                    ELSE IF pointer[k] # NoRecord /\ v = pointer[k].vid
                    THEN [pointer[k] EXCEPT !.latest = FALSE, !.noncurrent = rec.modified]
                    ELSE versions[k][v]
<1>1. pointer'[k] = rec /\ versions'[k] = IF rec.vid = Unversioned THEN NoVersions
                                          ELSE [Archived(k, rec) EXCEPT ![rec.vid] = rec]
  BY DEF PutObjectMeta, TypeInv, TypeOK
<1>2. versions[k] \in [VersionIDs -> Record \cup {NoRecord}]
  BY Facts
<1>3. ASSUME NEW v \in VersionIDs, v # rec.vid
      PROVE  Archived(k, rec)[v] = IF pointer[k] # NoRecord /\ v = pointer[k].vid
                    THEN [pointer[k] EXCEPT !.latest = FALSE, !.noncurrent = rec.modified]
                    ELSE versions[k][v]
  BY <1>2, <1>3, Facts DEF Archived
<1>4. DOMAIN Archived(k, rec) = VersionIDs
  BY <1>2 DEF Archived
<1>5. QED
  BY <1>1, <1>3, <1>4, Facts DEF NoVersions

LEMMA RawMeta ==
    ASSUME TypeInv, NEW k \in Keys, NEW rec, rec.vid = NullVersion, PutObjectMetaRaw(k, rec)
    PROVE  /\ pointer'[k] = rec
           /\ \A v \in VersionIDs : versions'[k][v] = IF v = NullVersion THEN rec ELSE versions[k][v]
  BY Facts DEF PutObjectMetaRaw, TypeInv, TypeOK

\* The outcomes of deleting version v of k: the newest version left takes
\* over, none is left, or v was not current.
TakesOver(k, v, w) ==
    /\ pointer[k] # NoRecord /\ pointer[k].vid = v
    /\ w \in VersionIDs /\ w # v /\ versions[k][w] # NoRecord
    /\ \A x \in VersionIDs \ {v} :
         versions[k][x] # NoRecord => versions[k][x].modified <= versions[k][w].modified
    /\ pointer'[k] = [versions[k][w] EXCEPT !.latest = TRUE]
    /\ \A x \in VersionIDs : versions'[k][x] = IF x = v THEN NoRecord
                                               ELSE IF x = w THEN pointer'[k] ELSE versions[k][x]
LastGoes(k, v) ==
    /\ pointer[k] # NoRecord /\ pointer[k].vid = v
    /\ \A x \in VersionIDs \ {v} : versions[k][x] = NoRecord
    /\ pointer'[k] = NoRecord
    /\ \A x \in VersionIDs : versions'[k][x] = NoRecord
OtherGoes(k, v) ==
    /\ ~(pointer[k] # NoRecord /\ pointer[k].vid = v)
    /\ pointer'[k] = pointer[k]
    /\ \A x \in VersionIDs : versions'[k][x] = IF x = v THEN NoRecord ELSE versions[k][x]

LEMMA DeleteMeta ==
    ASSUME TypeInv, LatestAgrees, NEW k \in Keys, NEW v \in VersionIDs, DeleteVersionMeta(k, v)
    PROVE  (\E w : TakesOver(k, v, w)) \/ LastGoes(k, v) \/ OtherGoes(k, v)
<1>a. versions[k] \in [VersionIDs -> Record \cup {NoRecord}] /\ pointer \in [Keys -> Record \cup {NoRecord}]
      /\ versions \in [Keys -> [VersionIDs -> Record \cup {NoRecord}]]
  BY DEF TypeInv, TypeOK
<1>1. CASE ~(pointer[k] # NoRecord /\ pointer[k].vid = v)
  BY <1>1, <1>a DEF DeleteVersionMeta, OtherGoes
<1>2. ASSUME pointer[k] # NoRecord, pointer[k].vid = v, NEW next \in NextNewest(k, v),
             pointer' = [pointer EXCEPT ![k] = [next EXCEPT !.latest = TRUE]],
             versions' = [versions EXCEPT ![k] =
                [@ EXCEPT ![v] = NoRecord, ![next.vid] = [next EXCEPT !.latest = TRUE]]]
      PROVE  \E w : TakesOver(k, v, w)
  <2>1. PICK w \in VersionIDs \ {v} : next = versions[k][w] /\ next # NoRecord
    BY DEF NextNewest
  <2>2. next.vid = w
    BY <2>1 DEF LatestAgrees
  <2>3. \A x \in VersionIDs \ {v} :
           versions[k][x] # NoRecord => versions[k][x].modified <= next.modified
    BY DEF NextNewest
  <2>4. pointer'[k] = [next EXCEPT !.latest = TRUE]
    BY <1>2, <1>a
  <2>5. versions'[k] = [versions[k] EXCEPT ![v] = NoRecord, ![w] = pointer'[k]]
    BY <1>2, <1>a, <2>2, <2>4
  <2>6. \A x \in VersionIDs : versions'[k][x] = IF x = v THEN NoRecord
                                               ELSE IF x = w THEN pointer'[k] ELSE versions[k][x]
    BY <1>a, <2>1, <2>5
  <2>7. TakesOver(k, v, w)
    BY <1>2, <2>1, <2>3, <2>4, <2>6 DEF TakesOver
  <2>8. QED
    BY <2>7
<1>3. ASSUME pointer[k] # NoRecord, pointer[k].vid = v, NextNewest(k, v) = {}
      PROVE  \A x \in VersionIDs \ {v} : versions[k][x] = NoRecord
  <2>1. PICK left : left = {rec \in {versions[k][w] : w \in VersionIDs \ {v}} : rec # NoRecord}
    OBVIOUS
  <2>2. PICK times : times = {n \in Nat : \E rec \in left : rec.modified = n}
    OBVIOUS
  <2>3. \A rec \in left : rec.modified \in Nat /\ rec.modified <= pointer[k].modified
    BY <1>a, <2>1 DEF LatestAgrees, Record
  <2>4. pointer[k].modified \in Nat
    BY <1>3, <1>a DEF Record
  <2>5. SUFFICES ASSUME left # {} PROVE FALSE
    BY <2>1
  <2>6. times \subseteq Nat /\ times # {} /\ \A n \in times : n <= pointer[k].modified
    BY <2>2, <2>3, <2>5
  <2>7. PICK m \in times : \A n \in times : n <= m
    BY <2>4, <2>6, LargestNat
  <2>8. PICK rec \in left : rec.modified = m
    BY <2>2
  <2>9. \A other \in left : other.modified <= rec.modified
    BY <2>2, <2>3, <2>7, <2>8
  <2>10. rec \in NextNewest(k, v)
    BY <2>1, <2>8, <2>9 DEF NextNewest
  <2>11. QED
    BY <1>3, <2>10
<1>4. CASE pointer[k] # NoRecord /\ pointer[k].vid = v
  <2>1. CASE \E next \in NextNewest(k, v) :
              LET rec == [next EXCEPT !.latest = TRUE]
              IN  /\ pointer' = [pointer EXCEPT ![k] = rec]
                  /\ versions' = [versions EXCEPT ![k] =
                        [@ EXCEPT ![v] = NoRecord, ![next.vid] = rec]]
                  /\ UNCHANGED count
    BY <1>2, <1>4, <2>1
  <2>2. CASE /\ NextNewest(k, v) = {}
             /\ pointer' = [pointer EXCEPT ![k] = NoRecord]
             /\ versions' = [versions EXCEPT ![k][v] = NoRecord]
    <3>1. pointer'[k] = NoRecord /\ \A x \in VersionIDs : versions'[k][x] = NoRecord
      BY <1>3, <1>4, <1>a, <2>2
    <3>2. QED
      BY <1>3, <1>4, <2>2, <3>1 DEF LastGoes
  <2>3. QED
    BY <1>4, <2>1, <2>2 DEF DeleteVersionMeta
<1>5. QED
  BY <1>1, <1>4

-----------------------------------------------------------------------------
(***************************************************************************)
(* What a step does to the locals of its handler                           *)
(***************************************************************************)

\* Kind, key, blob, ETag and scan time stay; the rest becomes what is listed.
Becomes(p, at, vid, mode, copy, mod, gone) ==
    /\ pc'[p] = at
    /\ op'[p].kind = op[p].kind /\ op'[p].key = op[p].key /\ op'[p].blob = op[p].blob
    /\ op'[p].etag = op[p].etag /\ op'[p].now = op[p].now
    /\ op'[p].vid = vid /\ op'[p].mode = mode /\ op'[p].copy = copy
    /\ op'[p].mod = mod /\ op'[p].gone = gone

\* Only the place changes.
Advances(p, at) == Becomes(p, at, op[p].vid, op[p].mode, op[p].copy, op[p].mod, op[p].gone)

LEMMA AdvanceFacts ==
    ASSUME TypeInv, NEW p \in Procs
    PROVE  /\ lockObjectKey(p) => Advances(p, "locked")
           /\ syncParents(p) => \/ pc[p] = "renamed" /\ Advances(p, "synced")
                                \/ pc[p] = "copied" /\ Advances(p, "copySynced")
           /\ PutCommit(p) => Advances(p, "cleanup")
           /\ PromoteSkip(p) => Advances(p, "promoted")
           /\ PromoteRaw(p) => Advances(p, "promoted")
           /\ PromoteRecord(p) => Advances(p, "recorded")
           /\ DeleteCommit(p) => Advances(p, "cleanup")
<1> USE DEF TypeInv, TypeOK, Advances, Becomes, Go
<1>1. lockObjectKey(p) => Advances(p, "locked")
  BY DEF lockObjectKey
<1>2. syncParents(p) => \/ pc[p] = "renamed" /\ Advances(p, "synced")
                        \/ pc[p] = "copied" /\ Advances(p, "copySynced")
  BY DEF syncParents
<1>3. (PutCommit(p) => Advances(p, "cleanup")) /\ (DeleteCommit(p) => Advances(p, "cleanup"))
  BY DEF PutCommit, DeleteCommit
<1>4. (PromoteSkip(p) => Advances(p, "promoted")) /\ (PromoteRaw(p) => Advances(p, "promoted"))
  BY DEF PromoteSkip, PromoteRaw
<1>5. PromoteRecord(p) => Advances(p, "recorded")
  BY DEF PromoteRecord
<1>6. QED
  BY <1>1, <1>2, <1>3, <1>4, <1>5

LEMMA PutJoinMoves ==
    ASSUME TypeInv, NEW p \in Procs, PutJoin(p)
    PROVE  \E v \in VersionIDs \cup {Unversioned} :
              /\ \/ status = "Enabled" /\ v \in Uuids \ spent
                 \/ status = "Suspended" /\ v = NullVersion
                 \/ status = "" /\ v = Unversioned
              /\ spent' = spent \cup (Uuids \cap {v})
              /\ Becomes(p, "prepare", v, op[p].mode, op[p].copy, clock, op[p].gone)
<1>1. PICK v \in VersionIDs \cup {Unversioned} :
         /\ \/ status = "Enabled" /\ v \in Uuids \ spent
            \/ status = "Suspended" /\ v = NullVersion
            \/ status = "" /\ v = Unversioned
         /\ spent' = spent \cup (Uuids \cap {v})
         /\ op' = [op EXCEPT ![p].vid = v, ![p].mod = clock]
  BY DEF PutJoin
<1>2. Becomes(p, "prepare", v, op[p].mode, op[p].copy, clock, op[p].gone)
  <2>1. pc' = [pc EXCEPT ![p] = "prepare"] /\ pc \in [Procs -> PCs] /\ op \in [Procs -> Op]
    BY DEF PutJoin, Go, TypeInv, TypeOK
  <2>2. QED
    BY <1>1, <2>1, ZenonT(60) DEF Op, Becomes
<1>3. QED
  BY <1>1, <1>2

LEMMA PutRenameMoves ==
    ASSUME TypeInv, NEW p \in Procs, PutRename(p)
    PROVE  Becomes(p, "renamed", op[p].vid, op[p].mode, op[p].copy, op[p].mod,
                   Doomed(op[p].key, op[p]))
<1>1. op[p].mode = "" /\ op[p].kind = "put" /\ op[p] \in Op
  BY Facts DEF PutRename, Shape
<1>2. PICK g : g = Doomed(op[p].key, op[p])
  OBVIOUS
<1>3. op' = [op EXCEPT ![p].gone = g]
  BY <1>1, <1>2 DEF PutRename, Doomed
<1>4. QED
  <2>1. pc' = [pc EXCEPT ![p] = "renamed"] /\ pc \in [Procs -> PCs] /\ op \in [Procs -> Op]
    BY DEF PutRename, Go, TypeInv, TypeOK
  <2>2. QED
    BY <1>2, <1>3, <2>1, ZenonT(60) DEF Op, Becomes

LEMMA PromoteCopyMoves ==
    ASSUME TypeInv, NEW p \in Procs, PromoteCopy(p)
    PROVE  \E b \in Blobs \ spent :
              /\ spent' = spent \cup {b}
              /\ data' = [data EXCEPT ![b] = data[op[p].key]]
              /\ unsynced' = unsynced \cup {b}
              /\ Becomes(p, "copied", op[p].vid, op[p].mode, b, op[p].mod, op[p].gone)
<1>1. PICK b \in Blobs \ spent :
              /\ spent' = spent \cup {b}
              /\ data' = [data EXCEPT ![b] = data[op[p].key]]
              /\ unsynced' = unsynced \cup {b}
              /\ op' = [op EXCEPT ![p].copy = b]
  BY DEF PromoteCopy
<1>2. Becomes(p, "copied", op[p].vid, op[p].mode, b, op[p].mod, op[p].gone)
  <2>1. pc' = [pc EXCEPT ![p] = "copied"] /\ pc \in [Procs -> PCs] /\ op \in [Procs -> Op]
    BY DEF PromoteCopy, Go, TypeInv, TypeOK
  <2>2. QED
    BY <1>1, <2>1, ZenonT(60) DEF Op, Becomes
<1>3. QED
  BY <1>1, <1>2

LEMMA PromoteDropMoves ==
    ASSUME TypeInv, NEW p \in Procs, PromoteDrop(p)
    PROVE  Becomes(p, "promoted", op[p].vid, op[p].mode, NoBlob, op[p].mod, op[p].gone)
  BY ZenonT(60) DEF PromoteDrop, Go, TypeInv, TypeOK, Op, Becomes

LEMMA DeleteModeMoves ==
    ASSUME TypeInv, NEW p \in Procs, DeleteMode(p)
    PROVE  \E m \in {"version", "marker", "all"}, v \in VersionIDs \cup {Unversioned} :
              /\ Becomes(p, "prepare", v, m, op[p].copy, op[p].mod, op[p].gone)
              /\ m = "version" => v = op[p].vid /\ v # Unversioned /\ spent' = spent
              /\ m = "marker" => /\ op[p].vid = Unversioned /\ status # "" /\ v \in VersionIDs
                                 /\ v \in Uuids => v \notin spent
                                 /\ spent' = spent \cup (Uuids \cap {v})
              /\ m = "all" => op[p].vid = Unversioned /\ v = Unversioned /\ status = "" /\ spent' = spent
<1>a. op[p] \in Op /\ op[p].vid \in VersionIDs \cup {Unversioned} /\ pc' = [pc EXCEPT ![p] = "prepare"]
  BY Facts DEF DeleteMode, Go, Op
<1>b. NullVersion \notin Uuids /\ Uuids \subseteq VersionIDs /\ NullVersion \in VersionIDs
  BY IdAssumption DEF VersionIDs
<1>1. ASSUME NEW m, op' = [op EXCEPT ![p].mode = m]
      PROVE  Becomes(p, "prepare", op[p].vid, m, op[p].copy, op[p].mod, op[p].gone)
  BY <1>a, <1>1 DEF TypeInv, TypeOK, Op, Becomes
<1>2. ASSUME NEW v, op' = [op EXCEPT ![p].mode = "marker", ![p].vid = v]
      PROVE  Becomes(p, "prepare", v, "marker", op[p].copy, op[p].mod, op[p].gone)
  BY <1>a, <1>2 DEF TypeInv, TypeOK, Op, Becomes
<1>3. \/ op[p].vid # Unversioned /\ op' = [op EXCEPT ![p].mode = "version"] /\ spent' = spent
      \/ /\ op[p].vid = Unversioned /\ status = "Enabled"
         /\ \E u \in Uuids \ spent : /\ spent' = spent \cup {u}
                                     /\ op' = [op EXCEPT ![p].mode = "marker", ![p].vid = u]
      \/ /\ op[p].vid = Unversioned /\ status = "Suspended"
         /\ op' = [op EXCEPT ![p].mode = "marker", ![p].vid = NullVersion] /\ spent' = spent
      \/ /\ op[p].vid = Unversioned /\ status = ""
         /\ op' = [op EXCEPT ![p].mode = "all"] /\ spent' = spent
  BY DEF DeleteMode
<1>4. CASE op[p].vid # Unversioned /\ op' = [op EXCEPT ![p].mode = "version"] /\ spent' = spent
  BY <1>a, <1>1, <1>4
<1>5. CASE /\ op[p].vid = Unversioned /\ status = "Enabled"
           /\ \E u \in Uuids \ spent : /\ spent' = spent \cup {u}
                                       /\ op' = [op EXCEPT ![p].mode = "marker", ![p].vid = u]
  <2>1. PICK u \in Uuids \ spent : /\ spent' = spent \cup {u}
                                   /\ op' = [op EXCEPT ![p].mode = "marker", ![p].vid = u]
    BY <1>5
  <2>2. Becomes(p, "prepare", u, "marker", op[p].copy, op[p].mod, op[p].gone)
    BY <1>2, <2>1
  <2>3. QED
    BY <1>5, <1>b, <2>1, <2>2
<1>6. CASE /\ op[p].vid = Unversioned /\ status = "Suspended"
           /\ op' = [op EXCEPT ![p].mode = "marker", ![p].vid = NullVersion] /\ spent' = spent
  <2>1. Becomes(p, "prepare", NullVersion, "marker", op[p].copy, op[p].mod, op[p].gone)
    BY <1>2, <1>6
  <2>2. spent' = spent \cup (Uuids \cap {NullVersion})
    BY <1>6, <1>b
  <2>3. QED
    BY <1>6, <1>b, <2>1, <2>2
<1>7. CASE op[p].vid = Unversioned /\ status = "" /\ op' = [op EXCEPT ![p].mode = "all"] /\ spent' = spent
  BY <1>a, <1>1, <1>7
<1>8. QED
  BY <1>3, <1>4, <1>5, <1>6, <1>7

LEMMA DeleteCollectMoves ==
    ASSUME TypeInv, NEW p \in Procs, DeleteCollect(p)
    PROVE  \E g : Becomes(p, "ready", op[p].vid, op[p].mode, op[p].copy, clock, g)
<1>1. PICK g : op' = [op EXCEPT ![p].gone = g, ![p].mod = clock]
  BY DEF DeleteCollect
<1>2. Becomes(p, "ready", op[p].vid, op[p].mode, op[p].copy, clock, g)
  <2>1. pc' = [pc EXCEPT ![p] = "ready"] /\ pc \in [Procs -> PCs] /\ op \in [Procs -> Op]
    BY DEF DeleteCollect, Go, TypeInv, TypeOK
  <2>2. QED
    BY <1>1, <2>1, ZenonT(60) DEF Op, Becomes
<1>3. QED
  BY <1>2

LEMMA RemoveDataMoves ==
    ASSUME TypeInv, NEW p \in Procs, removeData(p)
    PROVE  \E path \in op[p].gone :
              /\ Becomes(p, "cleanup", op[p].vid, op[p].mode, op[p].copy, op[p].mod, op[p].gone \ {path})
              /\ \/ data' = [data EXCEPT ![path] = Absent] /\ UNCHANGED disturbed
                 \/ disturbed' = TRUE /\ UNCHANGED data
<1>1. PICK path \in op[p].gone :
              /\ op' = [op EXCEPT ![p].gone = @ \ {path}]
              /\ \/ data' = [data EXCEPT ![path] = Absent] /\ UNCHANGED disturbed
                 \/ disturbed' = TRUE /\ UNCHANGED data
  BY DEF removeData
<1>2. Becomes(p, "cleanup", op[p].vid, op[p].mode, op[p].copy, op[p].mod, op[p].gone \ {path})
  <2>1. pc' = [pc EXCEPT ![p] = "cleanup"] /\ pc \in [Procs -> PCs] /\ op \in [Procs -> Op]
    BY DEF removeData, Go, TypeInv, TypeOK
  <2>2. QED
    BY <1>1, <2>1 DEF Op, Becomes
<1>3. QED
  BY <1>1, <1>2

LEMMA ExpireCheckMoves ==
    ASSUME TypeInv, NEW p \in Procs, ExpireCheck(p)
    PROVE  \E v : /\ Becomes(p, "checked", v, op[p].mode, op[p].copy, op[p].mod, op[p].gone)
                  /\ \/ op[p].kind = "expireCurrent" /\ CurrentExpires(p)
                     \/ op[p].kind = "expireNoncurrent" /\ NoncurrentExpires(p) /\ v = op[p].vid
<1>1. CASE op[p].kind = "expireNoncurrent" /\ NoncurrentExpires(p) /\ op' = op
  BY <1>1 DEF ExpireCheck, Go, TypeInv, TypeOK, Becomes
<1>2. CASE /\ op[p].kind = "expireCurrent" /\ CurrentExpires(p)
           /\ op' = [op EXCEPT ![p].vid = IF pointer[op[p].key].marker THEN @ ELSE Unversioned]
  <2>1. PICK v : op' = [op EXCEPT ![p].vid = v]
    BY <1>2
  <2>2. Becomes(p, "checked", v, op[p].mode, op[p].copy, op[p].mod, op[p].gone)
    BY <2>1, ZenonT(60) DEF ExpireCheck, Go, TypeInv, TypeOK, Op, Becomes
  <2>3. QED
    BY <1>2, <2>2
<1>3. QED
  BY <1>1, <1>2 DEF ExpireCheck

-----------------------------------------------------------------------------
(***************************************************************************)
(* The records of a key tell one story                                     *)
(***************************************************************************)

\* LatestAgrees for one key, entry by entry.
Tells(k) ==
    /\ pointer[k] = NoRecord => \A v \in VersionIDs : versions[k][v] = NoRecord
    /\ pointer[k] # NoRecord =>
         /\ pointer[k].latest
         /\ pointer[k].vid = Unversioned => \A v \in VersionIDs : versions[k][v] = NoRecord
         /\ pointer[k].vid # Unversioned => versions[k][pointer[k].vid] = pointer[k]
    /\ \A v \in VersionIDs : versions[k][v] # NoRecord =>
         /\ versions[k][v].vid = v
         /\ versions[k][v].latest <=> (v = pointer[k].vid)
         /\ versions[k][v].modified <= pointer[k].modified

LEMMA TellsAgrees == TypeInv => (LatestAgrees <=> \A k \in Keys : Tells(k))
<1> SUFFICES ASSUME TypeInv PROVE LatestAgrees <=> \A k \in Keys : Tells(k)
  OBVIOUS
<1>1. \A k \in Keys : versions[k] = NoVersions <=> \A v \in VersionIDs : versions[k][v] = NoRecord
  BY NoVersionsEach
<1>2. QED
  BY <1>1 DEF LatestAgrees, Tells

LEMMA PutTells ==
    ASSUME TypeInv, NEW k \in Keys, Tells(k), NEW rec \in Record, rec.latest, PutObjectMeta(k, rec),
           pointer[k] # NoRecord => pointer[k].modified <= rec.modified
    PROVE  Tells(k)'
<1>1. pointer'[k] = rec /\ rec # NoRecord /\ rec.vid \in VersionIDs \cup {Unversioned}
      /\ rec.modified \in Nat
  BY PutMeta, IdAssumption DEF Record
<1>2. CASE rec.vid = Unversioned
  <2>1. \A v \in VersionIDs : versions'[k][v] = NoRecord
    BY <1>2, PutMeta
  <2>2. QED
    BY <1>1, <1>2, <2>1 DEF Tells
<1>3. CASE rec.vid # Unversioned
  <2>1. \A v \in VersionIDs : versions'[k][v] =
                    IF v = rec.vid THEN rec
                    ELSE IF pointer[k] # NoRecord /\ v = pointer[k].vid
                    THEN [pointer[k] EXCEPT !.latest = FALSE, !.noncurrent = rec.modified]
                    ELSE versions[k][v]
    BY <1>3, PutMeta, ZenonT(90)
  <2>2. versions'[k][rec.vid] = rec
    BY <1>1, <1>3, <2>1
  <2>3. ASSUME NEW v \in VersionIDs, v # rec.vid, versions'[k][v] # NoRecord
        PROVE  versions'[k][v].vid = v /\ ~versions'[k][v].latest /\ versions'[k][v].modified <= rec.modified
    <3>1. CASE pointer[k] # NoRecord /\ v = pointer[k].vid
      <4>1. pointer[k] \in Record
        BY <3>1, Facts
      <4>2. versions'[k][v] = [pointer[k] EXCEPT !.latest = FALSE, !.noncurrent = rec.modified]
        BY <2>1, <2>3, <3>1
      <4>3. QED
        BY <3>1, <4>1, <4>2 DEF Record
    <3>2. CASE ~(pointer[k] # NoRecord /\ v = pointer[k].vid)
      <4>1. versions'[k][v] = versions[k][v] /\ versions[k][v] \in Record /\ pointer[k] \in Record
        BY <2>1, <2>3, <3>2, Facts DEF Tells
      <4>2. /\ versions[k][v].vid = v /\ ~versions[k][v].latest
            /\ versions[k][v].modified <= pointer[k].modified /\ pointer[k].modified <= rec.modified
        BY <2>3, <3>2, <4>1, IdAssumption DEF Tells
      <4>3. versions[k][v].modified \in Nat /\ pointer[k].modified \in Nat
        BY <4>1 DEF Record
      <4>4. QED
        BY <1>1, <4>1, <4>2, <4>3
    <3>3. QED
      BY <3>1, <3>2
  <2>4. QED
    BY <1>1, <1>3, <2>2, <2>3 DEF Tells
<1>4. QED
  BY <1>2, <1>3

\* Two records that describe the same bytes, at the same place.
SameData(r, s) ==
    /\ r # NoRecord <=> s # NoRecord
    /\ r # NoRecord => r.blob = s.blob /\ r.etag = s.etag /\ r.marker = s.marker

\* A versioned write leaves every other version with its data.
LEMMA PutSlots ==
    ASSUME TypeInv, NEW k \in Keys, Tells(k), NEW rec \in Record, rec.vid # Unversioned,
           PutObjectMeta(k, rec)
    PROVE  \A v \in VersionIDs : v # rec.vid => SameData(versions'[k][v], versions[k][v])
<1>1. \A v \in VersionIDs : versions'[k][v] =
                    IF v = rec.vid THEN rec
                    ELSE IF pointer[k] # NoRecord /\ v = pointer[k].vid
                    THEN [pointer[k] EXCEPT !.latest = FALSE, !.noncurrent = rec.modified]
                    ELSE versions[k][v]
  <2>1. rec.vid # Unversioned
    OBVIOUS
  <2>2. QED
    BY <2>1, PutMeta, ZenonT(90)
<1> TAKE v \in VersionIDs
<1> HAVE v # rec.vid
<1>2. CASE pointer[k] # NoRecord /\ v = pointer[k].vid
  <2>1. pointer[k] \in Record /\ rec.modified \in Nat
    BY <1>2, Facts DEF Record
  <2>2. PICK old \in Record : old = [pointer[k] EXCEPT !.latest = FALSE, !.noncurrent = rec.modified]
    BY <2>1 DEF Record
  <2>3. old.blob = pointer[k].blob /\ old.etag = pointer[k].etag /\ old.marker = pointer[k].marker
    BY <2>1, <2>2 DEF Record
  <2>4. versions'[k][v] = old
    BY <1>1, <1>2, <2>2
  <2>5. versions[k][v] = pointer[k]
    BY <1>2, Facts DEF Tells
  <2>6. QED
    BY <1>2, <2>3, <2>4, <2>5, IdAssumption DEF SameData
<1>3. CASE ~(pointer[k] # NoRecord /\ v = pointer[k].vid)
  <2>1. versions'[k][v] = versions[k][v]
    <3>1. PICK old : old = [pointer[k] EXCEPT !.latest = FALSE, !.noncurrent = rec.modified]
      OBVIOUS
    <3>2. versions'[k][v] = IF v = rec.vid THEN rec
                            ELSE IF pointer[k] # NoRecord /\ v = pointer[k].vid THEN old
                            ELSE versions[k][v]
      BY <1>1, <3>1, Zenon
    <3>3. QED
      BY <1>3, <3>2
  <2>2. QED
    BY <2>1 DEF SameData
<1>4. QED
  BY <1>2, <1>3

LEMMA RawTells ==
    ASSUME TypeInv, NEW k \in Keys, Tells(k), pointer[k] # NoRecord, pointer[k].vid = Unversioned,
           NEW rec \in Record, rec.vid = NullVersion, rec.latest, PutObjectMetaRaw(k, rec)
    PROVE  Tells(k)'
<1>1. /\ pointer'[k] = rec /\ rec # NoRecord /\ rec.modified \in Nat
      /\ \A v \in VersionIDs : versions'[k][v] = IF v = NullVersion THEN rec ELSE versions[k][v]
  BY RawMeta, IdAssumption DEF Record
<1>2. \A v \in VersionIDs : versions[k][v] = NoRecord
  BY DEF Tells
<1>3. QED
  BY <1>1, <1>2, Facts DEF Tells

LEMMA DeleteTells ==
    ASSUME TypeInv, LatestAgrees, NEW k \in Keys, NEW v \in VersionIDs, DeleteVersionMeta(k, v)
    PROVE  Tells(k)'
<1>a. Tells(k)
  BY TellsAgrees
<1>1. CASE LastGoes(k, v)
  BY <1>1 DEF LastGoes, Tells
<1>2. CASE OtherGoes(k, v)
  <2>1. pointer'[k] = pointer[k] /\ ~(pointer[k] # NoRecord /\ pointer[k].vid = v)
    BY <1>2 DEF OtherGoes
  <2>2. \A x \in VersionIDs : versions'[k][x] = IF x = v THEN NoRecord ELSE versions[k][x]
    BY <1>2 DEF OtherGoes
  <2>3. pointer[k] # NoRecord => pointer[k].vid \in VersionIDs \cup {Unversioned}
    BY Facts DEF Record
  <2>4. \A x \in VersionIDs : versions[k][x] = NoRecord => versions'[k][x] = NoRecord
    BY <2>2
  <2>5. pointer[k] # NoRecord /\ pointer[k].vid # Unversioned =>
           versions'[k][pointer[k].vid] = versions[k][pointer[k].vid]
    BY <2>1, <2>2, <2>3
  <2>6. \A x \in VersionIDs : versions'[k][x] # NoRecord => versions'[k][x] = versions[k][x]
    BY <2>2
  <2>7. QED
    BY <1>a, <2>1, <2>4, <2>5, <2>6 DEF Tells
<1>3. ASSUME NEW w, TakesOver(k, v, w) PROVE Tells(k)'
  <2>1. versions[k][w] \in Record /\ w \in VersionIDs /\ w # v /\ versions[k][w].vid = w
    BY <1>3, <1>a, Facts DEF TakesOver, Tells
  <2>2. /\ pointer'[k] \in Record /\ pointer'[k] # NoRecord /\ pointer'[k].vid = w
        /\ pointer'[k].latest /\ pointer'[k].modified = versions[k][w].modified
        /\ pointer'[k].modified \in Nat
    <3>1. pointer'[k] = [versions[k][w] EXCEPT !.latest = TRUE]
      BY <1>3 DEF TakesOver
    <3>2. QED
      BY <2>1, <3>1, IdAssumption DEF Record
  <2>3. \A x \in VersionIDs : versions'[k][x] = IF x = v THEN NoRecord
                                               ELSE IF x = w THEN pointer'[k] ELSE versions[k][x]
    BY <1>3 DEF TakesOver
  <2>4. ASSUME NEW x \in VersionIDs, x # v, x # w, versions[k][x] # NoRecord
        PROVE  versions[k][x].vid = x /\ ~versions[k][x].latest
               /\ versions[k][x].modified <= pointer'[k].modified
    BY <1>3, <1>a, <2>2, <2>4 DEF TakesOver, Tells
  <2>5. \A x \in VersionIDs : versions'[k][x] # NoRecord =>
           /\ versions'[k][x].vid = x
           /\ versions'[k][x].latest <=> (x = w)
           /\ versions'[k][x].modified <= pointer'[k].modified
    <3> SUFFICES ASSUME NEW x \in VersionIDs, versions'[k][x] # NoRecord
                 PROVE  /\ versions'[k][x].vid = x
                        /\ versions'[k][x].latest <=> (x = w)
                        /\ versions'[k][x].modified <= pointer'[k].modified
      OBVIOUS
    <3>1. CASE x = w
      BY <2>1, <2>2, <2>3, <3>1
    <3>2. CASE x # w
      BY <2>3, <2>4, <3>2
    <3>3. QED
      BY <3>1, <3>2
  <2>6. versions'[k][w] = pointer'[k] /\ w # Unversioned
    BY <2>1, <2>3, Facts
  <2>7. QED
    BY <2>2, <2>5, <2>6 DEF Tells
<1>4. QED
  BY <1>1, <1>2, <1>3, DeleteMeta

LEMMA AllTells ==
    ASSUME TypeInv, NEW k \in Keys, DeleteAllMeta(k)
    PROVE  /\ Tells(k)' /\ pointer'[k] = NoRecord
           /\ \A v \in VersionIDs : versions'[k][v] = NoRecord
<1>1. pointer'[k] = NoRecord /\ versions'[k] = NoVersions
  BY DEF DeleteAllMeta, TypeInv, TypeOK
<1>2. \A v \in VersionIDs : versions'[k][v] = NoRecord
  BY <1>1 DEF NoVersions
<1>3. QED
  BY <1>1, <1>2 DEF Tells

-----------------------------------------------------------------------------
(***************************************************************************)
(* The steps that write metadata                                           *)
(***************************************************************************)

\* The records a PUT and a delete marker write.
PutRec(o) ==
    [vid |-> o.vid, blob |-> o.blob, etag |-> o.blob, marker |-> FALSE,
     latest |-> TRUE, modified |-> o.mod, noncurrent |-> 0]
MarkRec(o) ==
    [vid |-> o.vid, blob |-> NoBlob, etag |-> Absent, marker |-> TRUE,
     latest |-> TRUE, modified |-> o.mod, noncurrent |-> 0]

LEMMA PutCommitFacts ==
    ASSUME TypeInv, NEW p \in Procs, PutCommit(p)
    PROVE  /\ pc[p] = "synced" /\ op[p].kind = "put" /\ op[p].key \in Keys /\ op[p].blob \in Blobs
           /\ op[p].mode = ""
           /\ PutObjectMeta(op[p].key, PutRec(op[p])) /\ PutRec(op[p]) \in Record
           /\ PutRec(op[p]) # NoRecord
<1>1. pc[p] = "synced" /\ op[p] \in Op /\ Shape(pc[p], op[p])
  BY Facts DEF PutCommit
<1>2. /\ op[p].kind = "put" /\ op[p].key \in Keys /\ op[p].blob \in Blobs /\ op[p].mode = ""
      /\ op[p].mod \in Nat /\ op[p].vid \in VersionIDs \cup {Unversioned}
  BY <1>1 DEF Shape, Op
<1>3. PutRec(op[p]) \in Record
  BY <1>2, NewRecordType DEF PutRec
<1>4. QED
  BY <1>1, <1>2, <1>3, IdAssumption DEF PutCommit, PutRec

LEMMA DeleteCommitFacts ==
    ASSUME TypeInv, NEW p \in Procs, DeleteCommit(p)
    PROVE  /\ pc[p] = "ready" /\ op[p].kind # "put" /\ op[p].key \in Keys
           /\ \/ /\ op[p].mode = "version" /\ op[p].vid \in VersionIDs
                 /\ DeleteVersionMeta(op[p].key, op[p].vid)
              \/ op[p].mode = "all" /\ DeleteAllMeta(op[p].key)
              \/ /\ op[p].mode = "marker" /\ op[p].vid \in VersionIDs
                 /\ PutObjectMeta(op[p].key, MarkRec(op[p]))
                 /\ MarkRec(op[p]) \in Record /\ MarkRec(op[p]) # NoRecord
<1>1. pc[p] = "ready" /\ op[p] \in Op /\ Shape(pc[p], op[p])
  BY Facts DEF DeleteCommit
<1>2. /\ op[p].kind # "put" /\ op[p].key \in Keys /\ op[p].mod \in Nat
      /\ op[p].mode \in {"version", "marker"} => op[p].vid \in VersionIDs
  BY <1>1 DEF Shape, Op
<1>3. op[p].mode = "marker" => MarkRec(op[p]) \in Record /\ MarkRec(op[p]) # NoRecord
  <2>1. SUFFICES ASSUME op[p].mode = "marker" PROVE MarkRec(op[p]) \in Record
    BY IdAssumption
  <2>2. QED
    BY <1>2, <2>1 DEF MarkRec, Record, Paths
<1>4. QED
  BY <1>1, <1>2, <1>3 DEF DeleteCommit, MarkRec

\* A promotion records the unversioned object as version "null": same bytes,
\* same time, in the blob it has or in its copy.
Raises(p, rec) ==
    LET cur == pointer[op[p].key]
    IN  /\ cur \in Record /\ cur # NoRecord /\ cur.vid = Unversioned /\ ~cur.marker
        /\ rec \in Record /\ rec # NoRecord /\ rec.vid = NullVersion
        /\ rec.latest /\ ~rec.marker
        /\ rec.etag = cur.etag /\ rec.modified = cur.modified
        /\ rec.blob \in Blobs
        /\ \/ pc[p] = "prepare" /\ pc'[p] = "promoted" /\ Promotes(p) /\ rec.blob = cur.blob
           \/ pc[p] = "copySynced" /\ pc'[p] = "recorded" /\ rec.blob = op[p].copy /\ cur.blob = NoBlob
        /\ op[p].key \in Keys
        /\ PutObjectMetaRaw(op[p].key, rec)

LEMMA PromoteFacts ==
    ASSUME Control, NEW p \in Procs, PromoteRaw(p) \/ PromoteRecord(p)
    PROVE  \E rec : Raises(p, rec)
<1>a. TypeInv /\ op[p] \in Op /\ Shape(pc[p], op[p])
  BY Facts DEF Control
<1>b. \A r \in Record : r # NoRecord
  BY IdAssumption
<1>1. CASE PromoteRaw(p)
  <2>1. /\ pc[p] = "prepare" /\ pointer[op[p].key] # NoRecord /\ pointer[op[p].key].vid = Unversioned
        /\ ~pointer[op[p].key].marker /\ pointer[op[p].key].blob # NoBlob /\ op[p].key \in Keys
        /\ Promotes(p)
    BY <1>1, <1>a DEF PromoteRaw, Promotes, Shape
  <2>2. pointer[op[p].key] \in Record /\ pointer[op[p].key].blob \in Blobs
    BY <1>a, <2>1, Facts DEF Record
  <2>3. PICK rec : rec = [pointer[op[p].key] EXCEPT !.vid = NullVersion, !.latest = TRUE]
    OBVIOUS
  <2>4. /\ rec \in Record /\ rec.vid = NullVersion /\ rec.latest /\ ~rec.marker
        /\ rec.etag = pointer[op[p].key].etag /\ rec.modified = pointer[op[p].key].modified
        /\ rec.blob = pointer[op[p].key].blob
    BY <2>1, <2>2, <2>3 DEF Record, VersionIDs
  <2>5. PutObjectMetaRaw(op[p].key, rec) /\ pc'[p] = "promoted"
    BY <1>1, <1>a, <2>3 DEF PromoteRaw, Go, TypeInv, TypeOK
  <2>6. QED
    BY <1>b, <2>1, <2>2, <2>4, <2>5 DEF Raises
<1>2. CASE PromoteRecord(p)
  <2>1. pc[p] = "copySynced" /\ op[p].key \in Keys /\ op[p].copy \in Blobs
    BY <1>2, <1>a DEF PromoteRecord, Shape
  <2>2. /\ pointer[op[p].key] # NoRecord /\ pointer[op[p].key].vid = Unversioned
        /\ ~pointer[op[p].key].marker /\ pointer[op[p].key].blob = NoBlob
    BY <2>1 DEF Control, Promoting
  <2>3. pointer[op[p].key] \in Record
    BY <1>a, <2>1, <2>2, Facts
  <2>4. PICK rec : rec = [pointer[op[p].key] EXCEPT !.vid = NullVersion, !.latest = TRUE, !.blob = op[p].copy]
    OBVIOUS
  <2>5. /\ rec \in Record /\ rec.vid = NullVersion /\ rec.latest /\ ~rec.marker
        /\ rec.etag = pointer[op[p].key].etag /\ rec.modified = pointer[op[p].key].modified
        /\ rec.blob = op[p].copy
    BY <2>1, <2>2, <2>3, <2>4 DEF Record, VersionIDs
  <2>6. PutObjectMetaRaw(op[p].key, rec) /\ pc'[p] = "recorded"
    BY <1>2, <1>a, <2>4 DEF PromoteRecord, Go, TypeInv, TypeOK
  <2>7. QED
    BY <1>b, <2>1, <2>2, <2>3, <2>5, <2>6 DEF Raises
<1>3. QED
  BY <1>1, <1>2

\* What any step of a handler leaves alone.
LEMMA Frame ==
    ASSUME Control, NEW p \in Procs, Handler(p)
    PROVE  /\ clock' = clock /\ status' = status
           /\ \A q \in Procs \ {p} : pc'[q] = pc[q] /\ op'[q] = op[q]
           /\ \A k \in Keys : k # op[p].key => pointer'[k] = pointer[k] /\ versions'[k] = versions[k]
           /\ \A q \in Procs \ {p} : pc[q] \in Holding =>
                /\ op[q].key \in Keys
                /\ pointer'[op[q].key] = pointer[op[q].key] /\ versions'[op[q].key] = versions[op[q].key]
           /\ \A q \in Procs \ {p} : q \in committers' <=> q \in committers
           /\ \/ UNCHANGED <<pointer, versions>>
              \/ PutCommit(p) \/ PromoteRaw(p) \/ PromoteRecord(p) \/ DeleteCommit(p)
<1>a. TypeInv /\ LockInv
  BY DEF Control
<1>1. clock' = clock /\ status' = status
  BY DEF Handler, Begin, Step, Fail, PutBegin, DeleteBegin, GetBegin, ScanCurrent,
         ScanNoncurrent, lockObjectKey, PutJoin, PutRename, syncParents, PutCommit, PromoteSkip,
         PromoteRaw, PromoteCopy, PromoteRecord, PromoteDrop, DeleteMode, DeleteCollect,
         DeleteMissing, DeleteCommit, removeData, Finish, ExpireCheck, ExpireSkip, GetOpen
<1>2. \A q \in Procs \ {p} : pc'[q] = pc[q] /\ op'[q] = op[q]
  BY <1>a, HandlerStep
<1>3. \A k \in Keys : k # op[p].key => pointer'[k] = pointer[k] /\ versions'[k] = versions[k]
  BY <1>a, MetadataFrame
<1>4. ASSUME NEW q \in Procs \ {p}, pc[q] \in Holding
      PROVE  /\ op[q].key \in Keys
             /\ pointer'[op[q].key] = pointer[op[q].key] /\ versions'[op[q].key] = versions[op[q].key]
  <2>1. op[q].key \in Keys /\ keyLock[op[q].key] = q
    BY <1>a, <1>4 DEF TypeInv, OpShape, Shape, LockInv, Holding
  <2>2. pc[p] \in Holding => op[p].key # op[q].key
    BY <1>a, <1>4, <2>1, SMTT(30) DEF LockInv
  <2>3. QED
    BY <1>a, <2>1, <2>2, MetadataFrame DEF Holding, PCs
<1>5. \A q \in Procs \ {p} : q \in committers' <=> q \in committers
  BY ZenonT(60) DEF Handler, Begin, Step, Fail, Return, locks, PutBegin, DeleteBegin, GetBegin, ScanCurrent,
         ScanNoncurrent, lockObjectKey, PutJoin, PutRename, syncParents, PutCommit, PromoteSkip,
         PromoteRaw, PromoteCopy, PromoteRecord, PromoteDrop, DeleteMode, DeleteCollect,
         DeleteMissing, DeleteCommit, removeData, Finish, ExpireCheck, ExpireSkip, GetOpen
<1>6. \/ UNCHANGED <<pointer, versions>>
      \/ PutCommit(p) \/ PromoteRaw(p) \/ PromoteRecord(p) \/ DeleteCommit(p)
  BY DEF Handler, Begin, Step, Fail, PutBegin, DeleteBegin, GetBegin, ScanCurrent,
         ScanNoncurrent, lockObjectKey, PutJoin, PutRename, syncParents, PromoteSkip,
         PromoteCopy, PromoteDrop, DeleteMode, DeleteCollect, DeleteMissing, removeData,
         Finish, ExpireCheck, ExpireSkip, GetOpen, meta
<1>7. QED
  BY <1>1, <1>2, <1>3, <1>4, <1>5, <1>6

LEMMA TellsFrame ==
    ASSUME NEW k \in Keys, Tells(k), pointer'[k] = pointer[k], versions'[k] = versions[k]
    PROVE  Tells(k)'
  BY DEF Tells

LEMMA StoryNext ==
    ASSUME Control, MetaInv, NEW p \in Procs, Handler(p)
    PROVE  (\A k \in Keys : Tells(k)') /\ CurrentInv' /\ StatusInv'
<1>a. TypeInv /\ LatestAgrees /\ \A k \in Keys : Tells(k)
  BY TellsAgrees DEF Control, MetaInv
<1>b. /\ clock' = clock /\ status' = status /\ clock \in Nat
      /\ \A k \in Keys : k # op[p].key => pointer'[k] = pointer[k] /\ versions'[k] = versions[k]
      /\ \/ UNCHANGED <<pointer, versions>>
         \/ PutCommit(p) \/ PromoteRaw(p) \/ PromoteRecord(p) \/ DeleteCommit(p)
  BY <1>a, Frame, Facts
<1>c. Knows(p) /\ CurrentInv /\ StatusInv
  BY DEF MetaInv
\* The story of the key the step works on is enough.
<1> DEFINE Fine(k) == /\ pointer'[k] # NoRecord => /\ pointer'[k].modified <= clock
                                                   /\ pointer'[k].vid = Unversioned => ~pointer'[k].marker
                      /\ status = "" => \A u \in Uuids : versions'[k][u] = NoRecord
<1>d. ASSUME NEW k \in Keys, k # op[p].key PROVE Tells(k)' /\ Fine(k)
  <2>1. pointer'[k] = pointer[k] /\ versions'[k] = versions[k]
    BY <1>b, <1>d
  <2>2. Tells(k)'
    BY <1>a, <2>1, TellsFrame
  <2>3. Fine(k)
    BY <1>c, <2>1 DEF CurrentInv, StatusInv
  <2>4. QED
    BY <2>2, <2>3
<1>e. ASSUME \A k \in Keys : k = op[p].key => Tells(k)' /\ Fine(k)
      PROVE  (\A k \in Keys : Tells(k)') /\ CurrentInv' /\ StatusInv'
  <2>1. \A k \in Keys : Tells(k)' /\ Fine(k)
    BY <1>d, <1>e
  <2>2. QED
    BY <1>b, <2>1 DEF CurrentInv, StatusInv
<1>1. CASE UNCHANGED <<pointer, versions>>
  <2>1. \A k \in Keys : Tells(k)'
    BY <1>1, <1>a, TellsFrame
  <2>2. QED
    BY <1>1, <1>b, <1>c, <2>1 DEF CurrentInv, StatusInv
<1>2. CASE PutCommit(p)
  <2>1. /\ pc[p] = "synced" /\ op[p].kind = "put" /\ op[p].key \in Keys
        /\ PutObjectMeta(op[p].key, PutRec(op[p])) /\ PutRec(op[p]) \in Record
        /\ PutRec(op[p]) # NoRecord
    BY <1>2, <1>a, PutCommitFacts
  <2>b. PICK k \in Keys : k = op[p].key
    BY <2>1
  <2>2. PICK rec \in Record : rec = PutRec(op[p])
    BY <2>1
  <2>3. rec.latest /\ ~rec.marker /\ rec.vid = op[p].vid /\ rec.modified = op[p].mod
    BY <2>2 DEF PutRec
  <2>4. op[p].mod <= clock /\ (pointer[op[p].key] # NoRecord => pointer[op[p].key].modified <= op[p].mod)
    BY <1>c, <2>1 DEF Knows, Dated, Committing
  <2>5. Tells(k)'
    BY <1>a, <2>1, <2>2, <2>3, <2>4, <2>b, PutTells
  <2>6. status = "" => rec.vid = Unversioned
    <3>1. p \in committers
      BY <2>1 DEF MetaInv, CommitInv, Committing
    <3>2. QED
      BY <2>3, <3>1 DEF MetaInv, PublishesUnderCurrentStatus
  <2>7. /\ pointer'[k] = rec
        /\ rec.vid = Unversioned => \A v \in VersionIDs : versions'[k][v] = NoRecord
    <3>1. PutObjectMeta(k, rec)
      BY <2>1, <2>2, <2>b
    <3>2. QED
      BY <1>a, <3>1, PutMeta
  <2>8. Fine(k)
    BY <1>a, <2>3, <2>4, <2>6, <2>7, Facts
  <2>9. QED
    BY <1>e, <2>b, <2>5, <2>8
<1>3. CASE PromoteRaw(p) \/ PromoteRecord(p)
  <2>1. PICK rec : Raises(p, rec)
    BY <1>3, PromoteFacts
  <2>b. PICK k \in Keys : k = op[p].key
    BY <2>1 DEF Raises
  <2>2. /\ PutObjectMetaRaw(k, rec) /\ rec \in Record /\ rec.vid = NullVersion /\ rec.latest
        /\ pointer[k] # NoRecord /\ pointer[k].vid = Unversioned
        /\ rec.modified = pointer[k].modified
    BY <2>1, <2>b DEF Raises
  <2>3. Tells(k)'
    BY <1>a, <2>2, RawTells
  <2>4. /\ pointer'[k] = rec
        /\ \A v \in VersionIDs : versions'[k][v] = IF v = NullVersion THEN rec ELSE versions[k][v]
    BY <1>a, <2>2, RawMeta
  <2>5. rec.modified <= clock /\ rec.vid # Unversioned
    BY <1>a, <1>c, <2>2, Facts DEF CurrentInv
  <2>6. \A u \in Uuids : versions'[k][u] = versions[k][u]
    BY <1>a, <2>4, IdAssumption, Facts
  <2>7. Fine(k)
    BY <1>c, <2>4, <2>5, <2>6 DEF StatusInv
  <2>8. QED
    BY <1>e, <2>b, <2>3, <2>7
<1>4. CASE DeleteCommit(p)
  <2>a. pc[p] = "ready" /\ op[p].key \in Keys
    BY <1>4, <1>a, DeleteCommitFacts
  <2>b. PICK k \in Keys : k = op[p].key
    BY <2>a
  <2>1. CASE op[p].mode = "all" /\ DeleteAllMeta(k)
    <3>1. Tells(k)' /\ pointer'[k] = NoRecord /\ \A v \in VersionIDs : versions'[k][v] = NoRecord
      BY <1>a, <2>1, AllTells
    <3>2. Fine(k)
      BY <1>a, <3>1, Facts
    <3>3. QED
      BY <1>e, <2>b, <3>1, <3>2
  <2>2. CASE /\ op[p].mode = "marker" /\ op[p].vid \in VersionIDs
             /\ PutObjectMeta(k, MarkRec(op[p]))
             /\ MarkRec(op[p]) \in Record /\ MarkRec(op[p]) # NoRecord
    <3>1. PICK rec \in Record : rec = MarkRec(op[p])
      BY <2>2
    <3>2. rec.latest /\ rec.vid = op[p].vid /\ rec.modified = op[p].mod /\ rec.vid # Unversioned
      BY <1>a, <2>2, <3>1, Facts DEF MarkRec
    <3>3. op[p].mod <= clock /\ (pointer[k] # NoRecord => pointer[k].modified <= op[p].mod) /\ status # ""
      BY <1>c, <2>2, <2>a, <2>b DEF Knows, Dated
    <3>4. Tells(k)'
      BY <1>a, <2>2, <3>1, <3>2, <3>3, PutTells
    <3>7. pointer'[k] = rec
      BY <1>a, <2>2, <3>1, PutMeta
    <3>5. Fine(k)
      BY <3>2, <3>3, <3>7
    <3>6. QED
      BY <1>e, <2>b, <3>4, <3>5
  <2>3. CASE op[p].mode = "version" /\ op[p].vid \in VersionIDs /\ DeleteVersionMeta(k, op[p].vid)
    <3>1. Tells(k)'
      BY <1>a, <2>3, DeleteTells
    <3>2. CASE LastGoes(k, op[p].vid)
      <4>1. Fine(k)
        BY <1>a, <3>2, Facts DEF LastGoes
      <4>2. QED
        BY <1>e, <2>b, <3>1, <4>1
    <3>3. CASE OtherGoes(k, op[p].vid)
      <4>1. pointer'[k] = pointer[k] /\ \A x \in VersionIDs : versions[k][x] = NoRecord => versions'[k][x] = NoRecord
        BY <3>3 DEF OtherGoes
      <4>2. Fine(k)
        BY <1>a, <1>c, <4>1, Facts DEF CurrentInv, StatusInv
      <4>3. QED
        BY <1>e, <2>b, <3>1, <4>2
    <3>4. ASSUME NEW w, TakesOver(k, op[p].vid, w) PROVE Fine(k)
      <4>1. versions[k][w] \in Record /\ w \in VersionIDs /\ pointer[k] \in Record /\ pointer[k] # NoRecord
        BY <1>a, <3>4, Facts DEF TakesOver
      <4>2. pointer'[k] = [versions[k][w] EXCEPT !.latest = TRUE]
        BY <3>4 DEF TakesOver
      <4>3. pointer'[k].modified = versions[k][w].modified /\ pointer'[k].vid = w
        BY <1>a, <3>4, <4>1, <4>2 DEF Record, Tells, TakesOver
      <4>4. /\ versions[k][w].modified <= pointer[k].modified /\ pointer[k].modified <= clock
            /\ versions[k][w].modified \in Nat /\ pointer[k].modified \in Nat
        BY <1>a, <1>c, <3>4, <4>1 DEF Record, Tells, TakesOver, CurrentInv
      <4>5. pointer'[k].modified <= clock /\ pointer'[k].vid # Unversioned
        BY <1>a, <1>b, <4>1, <4>3, <4>4, Facts
      <4>6. ASSUME status = "", NEW u \in Uuids PROVE versions'[k][u] = NoRecord
        <5>1. versions[k][u] = NoRecord /\ u \in VersionIDs
          BY <1>a, <1>c, <4>6, Facts DEF StatusInv
        <5>2. QED
          BY <3>4, <5>1 DEF TakesOver
      <4>7. QED
        BY <4>5, <4>6
    <3>5. QED
      BY <1>a, <1>e, <2>3, <2>b, <3>1, <3>2, <3>3, <3>4, DeleteMeta
  <2>4. QED
    BY <1>4, <1>a, <2>b, <2>1, <2>2, <2>3, DeleteCommitFacts
<1>5. QED
  BY <1>b, <1>1, <1>2, <1>3, <1>4

\* Bystanders keep what they know: their keys are locked.
LEMMA KnowsOthers ==
    ASSUME Control, MetaInv, NEW p \in Procs, Handler(p), NEW q \in Procs \ {p}
    PROVE  Knows(q)'
<1>1. /\ clock' = clock /\ status' = status /\ pc'[q] = pc[q] /\ op'[q] = op[q]
      /\ pc[q] \in Holding => /\ pointer'[op[q].key] = pointer[op[q].key]
                              /\ versions'[op[q].key] = versions[op[q].key]
  BY Frame
<1>2. Knows(q)
  BY DEF MetaInv
<1>3. pc[q] \in Promoted \/ Dated(pc[q], op[q]) \/ pc[q] = "ready" => pc[q] \in Holding
  BY DEF Promoted, Dated, Committing, Holding, PCs
<1>4. CASE pc[q] \in Holding
  BY <1>1, <1>2, <1>4 DEF Knows, Dated, Versioned
<1>5. CASE pc[q] \notin Holding
  BY <1>1, <1>2, <1>3, <1>5 DEF Knows, Dated, Versioned
<1>6. QED
  BY <1>4, <1>5

\* Where the locals of a handler alone imply what it has to know.
LEMMA KnowsNothing ==
    ASSUME NEW p \in Procs,
           op'[p].mode = "", ~Dated(pc'[p], op'[p]),
           op'[p].kind = "put" => pc'[p] \notin Promoted
    PROVE  Knows(p)'
  BY DEF Knows, Dated, Versioned

\* A step that leaves the metadata alone: what p knows follows from its locals.
LEMMA KnowsAdvance ==
    ASSUME Control, MetaInv, NEW p \in Procs, Handler(p), NEW to, Advances(p, to),
           pointer'[op[p].key] = pointer[op[p].key], versions'[op[p].key] = versions[op[p].key],
           pc[p] \in Holding \/ op[p].mode = "",
           to = "ready" => pc[p] = "ready",
           Dated(to, op[p]) => Dated(pc[p], op[p]),
           to \in Promoted /\ Versioned(op[p]) /\ pointer[op[p].key] # NoRecord =>
               pointer[op[p].key].vid # Unversioned
    PROVE  Knows(p)'
<1>1. /\ pc'[p] = to /\ op'[p].kind = op[p].kind /\ op'[p].key = op[p].key /\ op'[p].vid = op[p].vid
      /\ op'[p].mode = op[p].mode /\ op'[p].mod = op[p].mod
  BY DEF Advances, Becomes
<1>2. clock' = clock /\ status' = status /\ Knows(p)
  BY Frame DEF MetaInv
<1>3. (Dated(pc[p], op[p])' <=> Dated(to, op[p])) /\ (Versioned(op[p])' <=> Versioned(op[p]))
  BY <1>1 DEF Dated, Versioned
<1>4. op[p].mode = "all" => \A u \in Uuids : versions[op[p].key][u] = NoRecord
  BY <1>2 DEF Knows
<1>5. QED
  BY <1>1, <1>2, <1>3, <1>4 DEF Knows

\* The steps that end a request, and those that begin one.
Ends(p) == Fail(p) \/ DeleteMissing(p) \/ Finish(p) \/ ExpireSkip(p) \/ GetOpen(p)

LEMMA EndFacts ==
    ASSUME TypeInv, NEW p \in Procs, Ends(p)
    PROVE  /\ pc'[p] = "idle" /\ op'[p] = Idle
           /\ Idle.kind = "none" /\ Idle.mode = "" /\ Idle.vid = Unversioned /\ Idle.gone = {}
           /\ p \notin committers'
           /\ UNCHANGED <<pointer, versions, count, spent>>
<1>1. Return(p) /\ UNCHANGED <<pointer, versions, count, spent>>
  BY DEF Ends, Fail, DeleteMissing, Finish, ExpireSkip, GetOpen, meta
<1>2. QED
  BY <1>1 DEF Return, Go, Idle, TypeInv, TypeOK

BeginsPut(p, k, b) ==
    /\ pc'[p] = "written" /\ b \in Blobs \ spent /\ spent' = spent \cup {b}
    /\ op'[p] = [Idle EXCEPT !.kind = "put", !.key = k, !.blob = b]
BeginsDelete(p, k, v) ==
    /\ pc'[p] = "waiting" /\ spent' = spent
    /\ op'[p] = [Idle EXCEPT !.kind = "delete", !.key = k, !.vid = v]
BeginsGet(p, k, v, rec) ==
    /\ pc'[p] = "opening" /\ spent' = spent
    /\ rec = GetObjectMeta(k, v) /\ rec # NoRecord /\ ~rec.marker
    /\ op'[p] = [Idle EXCEPT !.kind = "get", !.key = k, !.blob = dataPath(k, rec), !.etag = rec.etag]
BeginsCurrent(p, k) ==
    /\ pc'[p] = "waiting" /\ spent' = spent
    /\ pointer[k] # NoRecord /\ clock - pointer[k].modified > Cutoff
    /\ op'[p] = [Idle EXCEPT !.kind = "expireCurrent", !.key = k,
                             !.vid = pointer[k].vid, !.mod = pointer[k].modified]
BeginsNoncurrent(p, k, v) ==
    /\ pc'[p] = "waiting" /\ spent' = spent
    /\ op'[p] = [Idle EXCEPT !.kind = "expireNoncurrent", !.key = k, !.vid = v, !.now = clock]

BeginsAny(p, k) ==
    \/ \E b \in Blobs : BeginsPut(p, k, b)
    \/ \E v \in VersionIDs \cup {Unversioned} : BeginsDelete(p, k, v)
    \/ \E v \in VersionIDs \cup {Unversioned} : \E rec : BeginsGet(p, k, v, rec)
    \/ BeginsCurrent(p, k)
    \/ \E v \in VersionIDs : BeginsNoncurrent(p, k, v)

LEMMA BeginFacts ==
    ASSUME TypeInv, NEW p \in Procs, Begin(p)
    PROVE  /\ pc[p] = "idle" /\ UNCHANGED <<pointer, versions, count, data, unsynced, disturbed, committers>>
           /\ \E k \in Keys : BeginsAny(p, k)
<1>a. pc \in [Procs -> PCs] /\ op \in [Procs -> Op]
  BY SMTT(30) DEF TypeInv, TypeOK
<1>1. pc[p] = "idle" /\ UNCHANGED <<pointer, versions, count, data, unsynced, disturbed, committers>>
  BY DEF Begin, PutBegin, DeleteBegin, GetBegin, ScanCurrent, ScanNoncurrent, meta, disk, locks
<1>2. PICK k \in Keys : \/ PutBegin(p, k)
                        \/ \E v \in VersionIDs \cup {Unversioned} : DeleteBegin(p, k, v)
                        \/ \E v \in VersionIDs \cup {Unversioned} : GetBegin(p, k, v)
                        \/ ScanCurrent(p, k)
                        \/ ScanNoncurrent(p, k)
  BY DEF Begin
<1>3. CASE PutBegin(p, k)
  <2>1. PICK b \in Blobs \ spent :
            /\ spent' = spent \cup {b}
            /\ op' = [op EXCEPT ![p] = [Idle EXCEPT !.kind = "put", !.key = k, !.blob = b]]
    BY <1>3 DEF PutBegin
  <2>2. BeginsPut(p, k, b)
    BY <1>3, <1>a, <2>1 DEF PutBegin, Go, BeginsPut
  <2>3. QED
    BY <1>1, <2>2 DEF BeginsAny
<1>4. ASSUME NEW v \in VersionIDs \cup {Unversioned}, DeleteBegin(p, k, v)
      PROVE  BeginsDelete(p, k, v)
  BY <1>4, <1>a DEF DeleteBegin, Go, BeginsDelete
<1>5. ASSUME NEW v \in VersionIDs \cup {Unversioned}, GetBegin(p, k, v)
      PROVE  BeginsGet(p, k, v, GetObjectMeta(k, v))
  BY <1>5, <1>a DEF GetBegin, Go, BeginsGet
<1>6. CASE ScanCurrent(p, k)
  <2>1. BeginsCurrent(p, k)
    BY <1>6, <1>a DEF ScanCurrent, Go, BeginsCurrent
  <2>2. QED
    BY <1>1, <2>1 DEF BeginsAny
<1>7. CASE ScanNoncurrent(p, k)
  <2>1. PICK v \in VersionIDs :
            op' = [op EXCEPT ![p] = [Idle EXCEPT !.kind = "expireNoncurrent", !.key = k,
                                       !.vid = v, !.now = clock]]
    BY <1>7 DEF ScanNoncurrent
  <2>2. BeginsNoncurrent(p, k, v)
    BY <1>7, <1>a, <2>1 DEF ScanNoncurrent, Go, BeginsNoncurrent
  <2>3. QED
    BY <1>1, <2>2 DEF BeginsAny
<1>8. QED
  BY <1>1, <1>2, <1>3, <1>4, <1>5, <1>6, <1>7 DEF BeginsAny

LEMMA BeginLocals ==
    ASSUME TypeInv, NEW p \in Procs, Begin(p)
    PROVE  /\ pc'[p] \in {"written", "waiting", "opening"}
           /\ op'[p].mode = "" /\ op'[p].gone = {} /\ op'[p].copy = NoBlob
           /\ op'[p].kind = "put" <=> pc'[p] = "written"
<1> DEFINE Goal == /\ pc'[p] \in {"written", "waiting", "opening"}
                   /\ op'[p].mode = "" /\ op'[p].gone = {} /\ op'[p].copy = NoBlob
                   /\ op'[p].kind = "put" <=> pc'[p] = "written"
<1>1. ASSUME NEW k, NEW b, BeginsPut(p, k, b) PROVE Goal
  BY <1>1 DEF Idle, BeginsPut
<1>2. ASSUME NEW k, NEW v, BeginsDelete(p, k, v) PROVE Goal
  BY <1>2 DEF Idle, BeginsDelete
<1>3. ASSUME NEW k, NEW v, NEW rec, BeginsGet(p, k, v, rec) PROVE Goal
  BY <1>3 DEF Idle, BeginsGet
<1>4. ASSUME NEW k, BeginsCurrent(p, k) PROVE Goal
  BY <1>4 DEF Idle, BeginsCurrent
<1>5. ASSUME NEW k, NEW v, BeginsNoncurrent(p, k, v) PROVE Goal
  BY <1>5 DEF Idle, BeginsNoncurrent
<1> HIDE DEF Goal
<1>6. Goal
  BY <1>1, <1>2, <1>3, <1>4, <1>5, BeginFacts DEF BeginsAny
<1>7. QED
  BY <1>6 DEF Goal

LEMMA KnowsSelf ==
    ASSUME Control, MetaInv, NEW p \in Procs, Handler(p)
    PROVE  Knows(p)'
<1>a. TypeInv /\ op[p] \in Op /\ Shape(pc[p], op[p]) /\ clock \in Nat
  BY Facts DEF Control
<1>b. Knows(p) /\ clock' = clock /\ status' = status /\ CurrentInv /\ StatusInv
  BY Frame DEF MetaInv
<1>1. CASE Begin(p)
  <2>1. op'[p].mode = "" /\ pc'[p] \in {"written", "waiting", "opening"}
    BY <1>1, <1>a, BeginLocals
  <2>2. QED
    BY <2>1, KnowsNothing DEF Dated, Committing, Promoted
<1>2. CASE Ends(p)
  BY <1>2, <1>a, EndFacts, KnowsNothing DEF Dated
<1>3. CASE lockObjectKey(p)
  <2>1. /\ pc'[p] = "locked" /\ op'[p] = op[p] /\ op[p].mode = ""
    BY <1>3, <1>a DEF lockObjectKey, Go, TypeInv, TypeOK, Shape
  <2>2. QED
    BY <2>1, KnowsNothing DEF Dated, Committing, Promoted
<1>4. CASE PutJoin(p)
  <2>1. PICK v : Becomes(p, "prepare", v, op[p].mode, op[p].copy, clock, op[p].gone)
    BY <1>4, <1>a, PutJoinMoves
  <2>2. op[p].kind = "put" /\ op[p].mode = "" /\ op[p].key \in Keys /\ UNCHANGED pointer
    BY <1>4, <1>a DEF PutJoin, Shape, meta
  <2>3. pointer[op[p].key] # NoRecord => pointer[op[p].key].modified <= clock
    BY <1>b, <2>2 DEF CurrentInv
  <2>4. QED
    <3>1. /\ op'[p].kind = "put" /\ op'[p].key = op[p].key /\ op'[p].mode = "" /\ op'[p].mod = clock
          /\ pc'[p] = "prepare" /\ pc'[p] \notin Promoted /\ pointer' = pointer
      BY <2>1, <2>2 DEF Becomes, Promoted
    <3>a. clock \in Nat /\ clock' = clock
      BY <1>a, <1>b
    <3>b. op'[p].mod = clock /\ op'[p].key = op[p].key /\ pointer' = pointer
      BY <3>1
    <3>2. op'[p].mod <= clock' /\ (pointer'[op'[p].key] # NoRecord => pointer'[op'[p].key].modified <= op'[p].mod)
      BY <2>3, <3>a, <3>b
    <3>3. QED
      BY <3>1, <3>2 DEF Knows
<1>5. CASE PutRename(p)
  <2>1. Becomes(p, "renamed", op[p].vid, op[p].mode, op[p].copy, op[p].mod, Doomed(op[p].key, op[p]))
    BY <1>5, <1>a, PutRenameMoves
  <2>2. op[p].kind = "put" /\ op[p].mode = "" /\ pc[p] = "promoted" /\ UNCHANGED pointer
    BY <1>5, <1>a DEF PutRename, Shape, meta
  <2>3. /\ Dated(pc[p], op[p])
        /\ op[p].mod <= clock /\ (pointer[op[p].key] # NoRecord => pointer[op[p].key].modified <= op[p].mod)
        /\ op[p].vid # Unversioned /\ pointer[op[p].key] # NoRecord => pointer[op[p].key].vid # Unversioned
    BY <1>b, <2>2 DEF Knows, Dated, Committing, Promoted, Versioned
  <2>4. QED
    BY <1>b, <2>1, <2>2, <2>3 DEF Knows, Becomes, Versioned
<1>6. CASE syncParents(p)
  <2>1. \/ pc[p] = "renamed" /\ Advances(p, "synced")
        \/ pc[p] = "copied" /\ Advances(p, "copySynced")
    BY <1>6, <1>a, AdvanceFacts
  <2>2. UNCHANGED <<pointer, versions>> /\ pc[p] \in Holding
    BY <1>6, <2>1 DEF syncParents, meta, Holding, PCs
  <2>3. CASE pc[p] = "renamed" /\ Advances(p, "synced")
    BY <1>b, <2>2, <2>3, KnowsAdvance DEF Knows, Dated, Committing, Promoted
  <2>4. CASE pc[p] = "copied" /\ Advances(p, "copySynced")
    BY <2>2, <2>4, KnowsAdvance DEF Dated, Committing, Promoted
  <2>5. QED
    BY <2>1, <2>3, <2>4
<1>7. CASE PutCommit(p)
  <2>1. Advances(p, "cleanup") /\ op[p].kind = "put" /\ op[p].mode = ""
    BY <1>7, <1>a, AdvanceFacts, PutCommitFacts
  <2>2. QED
    BY <2>1, KnowsNothing DEF Advances, Becomes, Dated, Committing, Promoted
<1>8. CASE PromoteSkip(p)
  <2>1. /\ Advances(p, "promoted") /\ pc[p] = "prepare" /\ ~Promotes(p)
        /\ UNCHANGED <<pointer, versions>> /\ pc[p] \in Holding /\ op[p].key \in Keys
    BY <1>8, <1>a, AdvanceFacts DEF PromoteSkip, meta, Holding, PCs, Shape
  <2>2. Versioned(op[p]) /\ pointer[op[p].key] # NoRecord => pointer[op[p].key].vid # Unversioned
    BY <1>b, <2>1 DEF Promotes, Versioned, CurrentInv
  <2>3. QED
    BY <2>1, <2>2, KnowsAdvance DEF Dated, Committing
<1>9. CASE PromoteRaw(p) \/ PromoteRecord(p)
  <2>1. PICK rec : Raises(p, rec)
    BY <1>9, PromoteFacts
  <2>2. \E to \in {"promoted", "recorded"} : Advances(p, to)
    BY <1>9, <1>a, AdvanceFacts
  <2>3. /\ pointer'[op[p].key] = rec /\ rec.vid = NullVersion /\ rec.modified = pointer[op[p].key].modified
        /\ pointer[op[p].key] # NoRecord
        /\ pc[p] \in {"prepare", "copySynced"} /\ op[p].key \in Keys
        /\ \A u \in Uuids : versions'[op[p].key][u] = versions[op[p].key][u]
    BY <1>a, <2>1, RawMeta, Facts, IdAssumption DEF Raises
  <2>4. /\ op'[p].kind = op[p].kind /\ op'[p].key = op[p].key /\ op'[p].vid = op[p].vid
        /\ op'[p].mode = op[p].mode /\ op'[p].mod = op[p].mod /\ pc'[p] \in {"promoted", "recorded"}
    BY <2>2 DEF Advances, Becomes
  <2>5. Dated(pc'[p], op'[p]) => Dated(pc[p], op[p])
    BY <2>3, <2>4 DEF Dated, Committing
  <2>6. pc[p] \in Holding /\ NullVersion # Unversioned
    BY <2>3 DEF Holding, PCs, NullVersion, Unversioned
  <2>7. op[p].mode = "all" => \A u \in Uuids : versions[op[p].key][u] = NoRecord
    BY <1>b, <2>6 DEF Knows
  <2>8. Dated(pc'[p], op'[p]) => op[p].mod <= clock /\ rec.modified <= op[p].mod
    BY <1>b, <2>3, <2>5 DEF Knows
  <2>9. op[p].mode = "marker" => status # ""
    BY <1>b DEF Knows
  <2>10. QED
    BY <1>b, <2>3, <2>4, <2>6, <2>7, <2>8, <2>9 DEF Knows
<1>10. CASE PromoteCopy(p)
  <2>1. PICK b : Becomes(p, "copied", op[p].vid, op[p].mode, b, op[p].mod, op[p].gone)
    BY <1>10, <1>a, PromoteCopyMoves
  <2>2. pc[p] = "prepare" /\ UNCHANGED <<pointer, versions>>
    BY <1>10 DEF PromoteCopy, meta
  <2>3. QED
    BY <1>b, <2>1, <2>2 DEF Knows, Becomes, Dated, Committing, Promoted, Holding, PCs
<1>11. CASE PromoteDrop(p)
  <2>1. Becomes(p, "promoted", op[p].vid, op[p].mode, NoBlob, op[p].mod, op[p].gone)
    BY <1>11, <1>a, PromoteDropMoves
  <2>2. pc[p] = "recorded" /\ UNCHANGED <<pointer, versions>>
    BY <1>11 DEF PromoteDrop, meta
  <2>3. QED
    BY <1>b, <2>1, <2>2 DEF Knows, Becomes, Dated, Versioned, Committing, Promoted, Holding, PCs
<1>12. CASE DeleteMode(p)
  <2>1. PICK m \in {"version", "marker", "all"}, v \in VersionIDs \cup {Unversioned} :
              /\ Becomes(p, "prepare", v, m, op[p].copy, op[p].mod, op[p].gone)
              /\ m = "marker" => status # ""
              /\ m = "all" => status = ""
    BY <1>12, <1>a, DeleteModeMoves
  <2>2. op[p].kind # "put" /\ UNCHANGED <<pointer, versions>> /\ op[p].key \in Keys
    BY <1>12, <1>a DEF DeleteMode, Shape, meta
  <2>3. m = "all" => \A u \in Uuids : versions[op[p].key][u] = NoRecord
    BY <1>b, <2>1, <2>2 DEF StatusInv
  <2>4. QED
    BY <1>b, <2>1, <2>2, <2>3 DEF Knows, Becomes, Dated, Promoted
<1>13. CASE DeleteCollect(p)
  <2>1. PICK g : Becomes(p, "ready", op[p].vid, op[p].mode, op[p].copy, clock, g)
    BY <1>13, <1>a, DeleteCollectMoves
  <2>2. /\ pc[p] = "promoted" /\ UNCHANGED <<pointer, versions>> /\ op[p].key \in Keys
        /\ op[p].mode = "all" => pointer[op[p].key] # NoRecord
    BY <1>13, <1>a DEF DeleteCollect, Shape, meta
  <2>3. pointer[op[p].key] # NoRecord => pointer[op[p].key].modified <= clock
    BY <1>b, <2>2 DEF CurrentInv
  <2>4. QED
    <3>1. /\ op'[p].kind = op[p].kind /\ op'[p].key = op[p].key /\ op'[p].mode = op[p].mode
          /\ op'[p].vid = op[p].vid /\ op'[p].mod = clock /\ pc'[p] = "ready"
          /\ pointer' = pointer /\ versions' = versions
      BY <2>1, <2>2 DEF Becomes
    <3>2. pc[p] \in Holding /\ pc[p] \in Promoted
      BY <2>2 DEF Holding, PCs, Promoted
    <3>3. Versioned(op'[p]) => Versioned(op[p])
      BY <3>1 DEF Versioned
    <3>4. op'[p].mod <= clock' /\ (pointer'[op'[p].key] # NoRecord => pointer'[op'[p].key].modified <= op'[p].mod)
      BY <1>a, <1>b, <2>3, <3>1
    <3>5. /\ op[p].mode = "all" => \A u \in Uuids : versions[op[p].key][u] = NoRecord
          /\ Versioned(op[p]) /\ pointer[op[p].key] # NoRecord => pointer[op[p].key].vid # Unversioned
          /\ op[p].mode = "marker" => status # ""
      BY <1>b, <3>2 DEF Knows
    <3>6. QED
      BY <1>b, <2>2, <3>1, <3>3, <3>4, <3>5 DEF Knows
<1>14. CASE DeleteCommit(p)
  <2>1. /\ Advances(p, "cleanup") /\ op[p].kind # "put" /\ op[p].key \in Keys
        /\ op[p].mode = "all" => \A v \in VersionIDs : versions'[op[p].key][v] = NoRecord
    BY <1>14, <1>a, AdvanceFacts, DeleteCommitFacts, AllTells
  <2>2. op[p].mode = "all" => \A u \in Uuids : versions'[op[p].key][u] = NoRecord
    BY <1>a, <2>1, Facts
  <2>3. QED
    BY <1>b, <2>1, <2>2 DEF Knows, Advances, Becomes, Dated, Promoted
<1>15. CASE removeData(p)
  <2>1. PICK path : Becomes(p, "cleanup", op[p].vid, op[p].mode, op[p].copy, op[p].mod, op[p].gone \ {path})
    BY <1>15, <1>a, RemoveDataMoves
  <2>2. pc[p] = "cleanup" /\ UNCHANGED <<pointer, versions>>
    BY <1>15 DEF removeData, meta
  <2>3. QED
    BY <1>b, <2>1, <2>2 DEF Knows, Becomes, Dated, Committing, Promoted
<1>16. CASE ExpireCheck(p)
  <2>1. PICK v : Becomes(p, "checked", v, op[p].mode, op[p].copy, op[p].mod, op[p].gone)
    BY <1>16, <1>a, ExpireCheckMoves
  <2>2. op[p].mode = ""
    BY <1>16, <1>a DEF ExpireCheck, Shape
  <2>3. QED
    BY <2>1, <2>2, KnowsNothing DEF Becomes, Dated, Committing, Promoted
<1>17. QED
  BY <1>1, <1>2, <1>3, <1>4, <1>5, <1>6, <1>7, <1>8, <1>9, <1>10, <1>11, <1>12, <1>13,
     <1>14, <1>15, <1>16 DEF Handler, Step, Ends

\* A PUT keeps the bucket lock and its version ID from PutJoin to its end.
LEMMA CommitSteps ==
    ASSUME TypeInv, NEW p \in Procs, Step(p), ~Ends(p), ~PutJoin(p)
    PROVE  /\ committers' = committers /\ op'[p].kind = op[p].kind
           /\ op[p].kind = "put" => /\ pc[p] \in Committing <=> pc'[p] \in Committing
                                    /\ op'[p].vid = op[p].vid
<1>a. op[p] \in Op /\ Shape(pc[p], op[p])
  BY Facts
<1>1. CASE lockObjectKey(p)
  <2>1. Advances(p, "locked")
    BY <1>1, AdvanceFacts
  <2>2. QED
    BY <1>1, <2>1 DEF lockObjectKey, Advances, Becomes, Committing
<1>2. CASE PutRename(p)
  <2>1. Becomes(p, "renamed", op[p].vid, op[p].mode, op[p].copy, op[p].mod, Doomed(op[p].key, op[p]))
    BY <1>2, PutRenameMoves
  <2>2. pc[p] = "promoted" /\ committers' = committers
    BY <1>2 DEF PutRename, locks
  <2>3. QED
    BY <2>1, <2>2 DEF Becomes, Committing
<1>3. CASE syncParents(p)
  <2>1. \/ pc[p] = "renamed" /\ Advances(p, "synced")
        \/ pc[p] = "copied" /\ Advances(p, "copySynced")
    BY <1>3, AdvanceFacts
  <2>2. QED
    BY <1>3, <2>1 DEF syncParents, locks, Advances, Becomes, Committing
<1>4. CASE PutCommit(p)
  <2>1. Advances(p, "cleanup")
    BY <1>4, AdvanceFacts
  <2>2. QED
    BY <1>4, <2>1 DEF PutCommit, locks, Advances, Becomes, Committing
<1>5. CASE PromoteSkip(p) \/ PromoteRaw(p)
  <2>1. Advances(p, "promoted")
    BY <1>5, AdvanceFacts
  <2>2. pc[p] = "prepare" /\ committers' = committers
    BY <1>5 DEF PromoteSkip, PromoteRaw, locks
  <2>3. QED
    BY <2>1, <2>2 DEF Advances, Becomes, Committing
<1>6. CASE PromoteCopy(p)
  <2>1. PICK b : Becomes(p, "copied", op[p].vid, op[p].mode, b, op[p].mod, op[p].gone)
    BY <1>6, PromoteCopyMoves
  <2>2. pc[p] = "prepare" /\ committers' = committers
    BY <1>6 DEF PromoteCopy, locks
  <2>3. QED
    BY <2>1, <2>2 DEF Becomes, Committing
<1>7. CASE PromoteRecord(p)
  <2>1. Advances(p, "recorded")
    BY <1>7, AdvanceFacts
  <2>2. QED
    BY <1>7, <2>1 DEF PromoteRecord, locks, Advances, Becomes, Committing
<1>8. CASE PromoteDrop(p)
  <2>1. Becomes(p, "promoted", op[p].vid, op[p].mode, NoBlob, op[p].mod, op[p].gone)
    BY <1>8, PromoteDropMoves
  <2>2. pc[p] = "recorded" /\ committers' = committers
    BY <1>8 DEF PromoteDrop, locks
  <2>3. QED
    BY <2>1, <2>2 DEF Becomes, Committing
<1>9. CASE DeleteMode(p)
  <2>1. PICK m, v : Becomes(p, "prepare", v, m, op[p].copy, op[p].mod, op[p].gone)
    BY <1>9, DeleteModeMoves
  <2>2. op[p].kind # "put" /\ committers' = committers
    BY <1>9, <1>a DEF DeleteMode, Shape, locks
  <2>3. QED
    BY <2>1, <2>2 DEF Becomes
<1>10. CASE DeleteCollect(p)
  <2>1. PICK g : Becomes(p, "ready", op[p].vid, op[p].mode, op[p].copy, clock, g)
    BY <1>10, DeleteCollectMoves
  <2>2. op[p].kind # "put" /\ committers' = committers
    BY <1>10 DEF DeleteCollect, locks
  <2>3. QED
    BY <2>1, <2>2 DEF Becomes
<1>11. CASE DeleteCommit(p)
  <2>1. Advances(p, "cleanup") /\ op[p].kind # "put" /\ committers' = committers
    BY <1>11, AdvanceFacts, DeleteCommitFacts DEF DeleteCommit, locks
  <2>2. QED
    BY <2>1 DEF Advances, Becomes
<1>12. CASE removeData(p)
  <2>1. PICK path : Becomes(p, "cleanup", op[p].vid, op[p].mode, op[p].copy, op[p].mod, op[p].gone \ {path})
    BY <1>12, RemoveDataMoves
  <2>2. pc[p] = "cleanup" /\ committers' = committers
    BY <1>12 DEF removeData, locks
  <2>3. QED
    BY <2>1, <2>2 DEF Becomes, Committing
<1>13. CASE ExpireCheck(p)
  <2>1. PICK v : Becomes(p, "checked", v, op[p].mode, op[p].copy, op[p].mod, op[p].gone)
    BY <1>13, ExpireCheckMoves
  <2>2. op[p].kind # "put" /\ committers' = committers
    BY <1>13 DEF ExpireCheck, locks
  <2>3. QED
    BY <2>1, <2>2 DEF Becomes
<1>14. QED
  BY <1>1, <1>2, <1>3, <1>4, <1>5, <1>6, <1>7, <1>8, <1>9, <1>10, <1>11, <1>12, <1>13 DEF Step, Ends

LEMMA CommitNext ==
    ASSUME Control, MetaInv, NEW p \in Procs, Handler(p)
    PROVE  CommitInv' /\ PublishesUnderCurrentStatus'
<1>a. TypeInv /\ CommitInv /\ PublishesUnderCurrentStatus /\ committers \subseteq Procs
      /\ op[p] \in Op /\ Shape(pc[p], op[p])
  BY Facts DEF Control, MetaInv, TypeInv, TypeOK
<1>b. /\ status' = status
      /\ \A q \in Procs \ {p} : pc'[q] = pc[q] /\ op'[q] = op[q] /\ (q \in committers' <=> q \in committers)
  BY Frame
<1> DEFINE Fits(v) == v \in (CASE status = "Enabled" -> Uuids
                               [] status = "Suspended" -> {NullVersion}
                               [] status = "" -> {Unversioned})
<1> HIDE DEF Fits
<1>c. ASSUME p \in committers' <=> (op'[p].kind = "put" /\ pc'[p] \in Committing),
             p \in committers' => Fits(op'[p].vid),
             committers' \subseteq Procs
      PROVE  CommitInv' /\ PublishesUnderCurrentStatus'
  <2>1. CommitInv'
    BY <1>a, <1>b, <1>c DEF CommitInv
  <2>2. \A q \in committers' : Fits(op'[q].vid)
    BY <1>a, <1>b, <1>c DEF PublishesUnderCurrentStatus, Fits
  <2>3. QED
    BY <1>b, <2>1, <2>2 DEF PublishesUnderCurrentStatus, Fits
<1>d. p \in committers => Fits(op[p].vid)
  BY <1>a DEF PublishesUnderCurrentStatus, Fits
<1>1. CASE Begin(p)
  <2>1. committers' = committers /\ pc[p] = "idle" /\ pc'[p] \in {"written", "waiting", "opening"}
    BY <1>1, <1>a, BeginFacts, BeginLocals
  <2>2. p \notin committers /\ pc'[p] \notin Committing
    BY <1>a, <2>1 DEF CommitInv, Committing
  <2>3. QED
    BY <1>a, <1>c, <2>1, <2>2
<1>2. CASE Ends(p)
  <2>1. committers' \subseteq Procs
    BY <1>2, <1>a DEF Ends, Fail, DeleteMissing, Finish, ExpireSkip, GetOpen, Return
  <2>2. QED
    BY <1>2, <1>a, <1>c, <2>1, EndFacts
<1>3. CASE PutJoin(p)
  <2>1. PICK v \in VersionIDs \cup {Unversioned} :
              /\ \/ status = "Enabled" /\ v \in Uuids \ spent
                 \/ status = "Suspended" /\ v = NullVersion
                 \/ status = "" /\ v = Unversioned
              /\ Becomes(p, "prepare", v, op[p].mode, op[p].copy, clock, op[p].gone)
    BY <1>3, <1>a, PutJoinMoves
  <2>2. committers' = committers \cup {p} /\ op[p].kind = "put"
    BY <1>3 DEF PutJoin
  <2>3. Fits(v)
    BY <2>1 DEF Fits
  <2>4. QED
    BY <1>a, <1>c, <2>1, <2>2, <2>3 DEF Becomes, Committing
<1>4. CASE Step(p) /\ ~Ends(p) /\ ~PutJoin(p)
  <2>1. /\ committers' = committers /\ op'[p].kind = op[p].kind
        /\ op[p].kind = "put" => /\ pc[p] \in Committing <=> pc'[p] \in Committing
                                 /\ op'[p].vid = op[p].vid
    BY <1>4, <1>a, CommitSteps
  <2>2. p \in committers <=> (op[p].kind = "put" /\ pc[p] \in Committing)
    BY <1>a DEF CommitInv
  <2>3. QED
    BY <1>a, <1>c, <1>d, <2>1, <2>2
<1>5. QED
  BY <1>1, <1>2, <1>3, <1>4 DEF Handler, Ends

\* The steps that are no handler's.
World ==
    \/ \E s \in {"Enabled", "Suspended", "Disabled"} : SetBucketVersioning(s)
    \/ CountObjectMetas
    \/ Tick
    \/ Crash

\* They leave the records alone, and either every request or none survives.
LEMMA WorldFacts ==
    ASSUME TypeInv, World \/ UNCHANGED vars
    PROVE  /\ UNCHANGED <<pointer, versions, spent>>
           /\ clock \in Nat /\ clock' \in Nat /\ clock <= clock'
           /\ status' = status \/ (status' \in {"Enabled", "Suspended"} /\ committers = {})
           /\ \/ UNCHANGED <<pc, op, committers, data, unsynced, disturbed>>
              \/ /\ \A p \in Procs : pc'[p] = "idle" /\ op'[p] = Idle
                 /\ committers' = {} /\ disturbed' = TRUE
                 /\ \A path \in Paths : data'[path] = data[path] \/ (data'[path] = Absent /\ path \in unsynced)
                 /\ unsynced' = {}
<1>a. clock \in Nat
  BY DEF TypeInv, TypeOK
<1>1. CASE \E s \in {"Enabled", "Suspended", "Disabled"} : SetBucketVersioning(s)
  BY <1>1, <1>a DEF SetBucketVersioning, meta, disk, locks
<1>2. CASE CountObjectMetas
  BY <1>2, <1>a DEF CountObjectMetas, disk, locks
<1>3. CASE Tick
  BY <1>3, <1>a DEF Tick, meta, disk, locks
<1>4. CASE Crash
  <2>1. /\ UNCHANGED <<pointer, versions, spent, status, clock>> /\ unsynced' = {} /\ committers' = {}
        /\ disturbed' = TRUE
    BY <1>4 DEF Crash, meta
  <2>2. \A p \in Procs : pc'[p] = "idle" /\ op'[p] = Idle
    BY <1>4 DEF Crash
  <2>3. \A path \in Paths : data'[path] = data[path] \/ (data'[path] = Absent /\ path \in unsynced)
    BY <1>4 DEF Crash
  <2>4. clock' \in Nat /\ clock <= clock'
    BY <1>a, <2>1
  <2>5. QED
    BY <1>a, <2>1, <2>2, <2>3, <2>4
<1>5. CASE UNCHANGED vars
  BY <1>5, <1>a DEF vars, meta, disk, locks
<1>6. QED
  BY <1>1, <1>2, <1>3, <1>4, <1>5 DEF World

LEMMA IdleKnows ==
    /\ Idle.mode = "" /\ Idle.kind = "none" /\ Idle.gone = {}
    /\ ~Dated("idle", Idle) /\ "idle" \notin Promoted /\ "idle" \notin Holding
  BY DEF Idle, Dated, Committing, Promoted, Holding

LEMMA MetaInit == Init => MetaInv
<1> SUFFICES ASSUME Init PROVE MetaInv
  OBVIOUS
<1>a. TypeInv
  BY TypeInit
<1>b. /\ \A p \in Procs : pc[p] = "idle" /\ op[p] = Idle
      /\ committers = {} /\ clock = 4
  BY DEF Init
<1>1. CommitInv /\ PublishesUnderCurrentStatus
  BY <1>b DEF CommitInv, PublishesUnderCurrentStatus, Committing
<1>2. \A p \in Procs : Knows(p)
  BY <1>b, IdleKnows DEF Knows
<1> DEFINE Good == /\ \A k \in Keys : Tells(k)
                   /\ CurrentInv /\ StatusInv
<1>3. CASE EmptyStore
  <2>1. /\ \A k \in Keys : pointer[k] = NoRecord /\ \A v \in VersionIDs : versions[k][v] = NoRecord
        /\ \A u \in Uuids : u \in VersionIDs
    BY <1>3, <1>a, Facts DEF EmptyStore, NoVersions
  <2>2. Good
    BY <2>1 DEF Tells, CurrentInv, StatusInv
  <2>3. QED
    BY <1>a, <1>1, <1>2, <2>2, TellsAgrees DEF MetaInv
<1>4. ASSUME NEW S \in SUBSET Keys, LegacyStore(S) PROVE MetaInv
  <2>1. /\ \A k \in Keys : /\ pointer[k] = IF k \in S THEN LegacyObject(k) ELSE NoRecord
                           /\ \A v \in VersionIDs : versions[k][v] = NoRecord
        /\ \A u \in Uuids : u \in VersionIDs
    BY <1>4, <1>a, Facts DEF LegacyStore, NoVersions
  <2>2. \A k \in S : /\ LegacyObject(k).vid = Unversioned /\ ~LegacyObject(k).marker
                     /\ LegacyObject(k).latest /\ LegacyObject(k).modified = 1
    BY DEF LegacyObject
  <2>b. \A k \in Keys : Tells(k)
    BY <2>1, <2>2 DEF Tells
  <2>c. StatusInv
    BY <2>1 DEF StatusInv
  <2>d. ASSUME NEW k \in Keys, pointer[k] # NoRecord
        PROVE  pointer[k].modified <= clock /\ ~pointer[k].marker
    <3>1. k \in S /\ pointer[k] = LegacyObject(k)
      BY <2>1, <2>d
    <3>2. pointer[k].modified = 1 /\ ~pointer[k].marker
      BY <2>2, <3>1
    <3>3. QED
      BY <1>b, <3>2
  <2>3. Good
    BY <2>b, <2>c, <2>d DEF CurrentInv
  <2>4. QED
    BY <1>a, <1>1, <1>2, <2>3, TellsAgrees DEF MetaInv
<1>5. ASSUME NEW k \in Keys, NEW u1 \in Uuids, NEW u2 \in Uuids,
             NEW b1 \in Blobs, NEW b2 \in Blobs, NEW since \in {0, 2},
             OldHistory(k, u1, u2, b1, b2, since)
      PROVE  MetaInv
  <2>1. PICK r1 : r1 = OldVersion(u1, b1, FALSE, 1, since)
    OBVIOUS
  <2>2. PICK r2 : r2 = OldVersion(u2, b2, TRUE, 2, 0)
    OBVIOUS
  <2>3. /\ r1.vid = u1 /\ ~r1.latest /\ r1.modified = 1
        /\ r2.vid = u2 /\ r2.latest /\ r2.modified = 2
        /\ r1 \in Record /\ r2 \in Record
    BY <2>1, <2>2 DEF OldVersion, Record, Paths, VersionIDs
  <2>4. /\ u1 # u2 /\ status = "Enabled" /\ u1 \in VersionIDs /\ u2 \in VersionIDs
        /\ u2 # Unversioned /\ r1 # NoRecord /\ r2 # NoRecord
    BY <1>5, <1>a, <2>3, Facts, IdAssumption DEF OldHistory
  <2>5. \A j \in Keys : /\ pointer[j] = IF j = k THEN r2 ELSE NoRecord
                        /\ \A v \in VersionIDs : versions[j][v] = IF j = k /\ v = u1 THEN r1
                                                                  ELSE IF j = k /\ v = u2 THEN r2
                                                                  ELSE NoRecord
    BY <1>5, <2>1, <2>2 DEF OldHistory
  <2>6. \A j \in Keys : Tells(j)
    BY <2>3, <2>4, <2>5 DEF Tells
  <2>7. CurrentInv /\ StatusInv
    BY <1>b, <2>3, <2>4, <2>5 DEF CurrentInv, StatusInv
  <2>8. QED
    BY <1>a, <1>1, <1>2, <2>6, <2>7, TellsAgrees DEF MetaInv
<1>6. QED
  BY <1>3, <1>4, <1>5 DEF Init

LEMMA MetaNext == Control /\ MetaInv /\ [Next]_vars => MetaInv'
<1> SUFFICES ASSUME Control, MetaInv, [Next]_vars PROVE MetaInv'
  OBVIOUS
<1>a. TypeInv /\ TypeInv'
  BY TypeNext DEF Control
<1>1. ASSUME NEW p \in Procs, Handler(p) PROVE MetaInv'
  <2>1. LatestAgrees'
    <3>1. (TypeInv => (LatestAgrees <=> \A k \in Keys : Tells(k)))'
      BY TellsAgrees, PTL
    <3>2. QED
      BY <1>1, <1>a, <3>1, StoryNext
  <2>2. \A q \in Procs : Knows(q)'
    BY <1>1, KnowsSelf, KnowsOthers
  <2>3. QED
    BY <1>1, <2>1, <2>2, StoryNext, CommitNext DEF MetaInv
<1>2. CASE World \/ UNCHANGED vars
  <2>1. /\ UNCHANGED <<pointer, versions>>
        /\ clock \in Nat /\ clock' \in Nat /\ clock <= clock'
        /\ status' = status \/ (status' \in {"Enabled", "Suspended"} /\ committers = {})
        /\ \/ UNCHANGED <<pc, op, committers>>
           \/ committers' = {} /\ \A p \in Procs : pc'[p] = "idle" /\ op'[p] = Idle
    BY <1>2, <1>a, WorldFacts
  <2>2. LatestAgrees'
    BY <2>1 DEF MetaInv, LatestAgrees
  <2>3. CurrentInv'
    <3> SUFFICES ASSUME NEW k \in Keys, pointer[k] # NoRecord
                 PROVE  pointer[k].modified <= clock' /\ (pointer[k].vid = Unversioned => ~pointer[k].marker)
      BY <2>1 DEF CurrentInv
    <3>1. pointer[k].modified \in Nat
      BY <1>a, Facts DEF Record
    <3>2. QED
      BY <2>1, <3>1 DEF MetaInv, CurrentInv
  <2>4. StatusInv'
    BY <2>1 DEF MetaInv, StatusInv
  <2>5. CommitInv'
    BY <2>1 DEF MetaInv, CommitInv, Committing
  <2>6. PublishesUnderCurrentStatus'
    <3>1. CASE committers' = {}
      BY <3>1 DEF PublishesUnderCurrentStatus
    <3>2. CASE status' = status /\ UNCHANGED <<op, committers>>
      BY <3>2 DEF MetaInv, PublishesUnderCurrentStatus
    <3>3. QED
      BY <2>1, <3>1, <3>2
  <2>7. ASSUME NEW p \in Procs PROVE Knows(p)'
    <3>1. CASE pc'[p] = "idle" /\ op'[p] = Idle
      BY <3>1, IdleKnows, KnowsNothing
    <3>2. CASE UNCHANGED <<pc, op>>
      <4>1. Knows(p)
        BY DEF MetaInv
      <4>2. Dated(pc[p], op[p]) => op[p].mod <= clock'
        <5>1. op[p].mod \in Nat
          BY <1>a, Facts DEF Op
        <5>2. Dated(pc[p], op[p]) => op[p].mod <= clock
          BY <4>1 DEF Knows
        <5>3. clock \in Nat /\ clock' \in Nat /\ clock <= clock'
          BY <2>1
        <5>4. QED
          BY <5>1, <5>2, <5>3
      <4>3. op[p].mode = "marker" => status' # ""
        BY <2>1, <4>1 DEF Knows
      <4>4. QED
        BY <2>1, <3>2, <4>1, <4>2, <4>3 DEF Knows
    <3>3. QED
      BY <2>1, <3>1, <3>2
  <2>8. QED
    BY <2>2, <2>3, <2>4, <2>5, <2>6, <2>7 DEF MetaInv
<1>3. QED
  BY <1>1, <1>2 DEF Next, World, Handler

LEMMA MetaHolds == Spec => [](Control /\ MetaInv)
<1>1. Init => MetaInv
  BY MetaInit
<1>2. Control /\ MetaInv /\ [Next]_vars => MetaInv'
  BY MetaNext
<1>3. QED
  BY <1>1, <1>2, ControlHolds, PTL DEF Spec

\* The records of a key tell one story in every reachable state: PutObjectMeta,
\* both forms of DeleteObjectMeta and promoteLegacyNullVersion keep the
\* current record and the version records in agreement, whoever else runs.
THEOREM StoriesAgree == Spec => []LatestAgrees
<1>1. MetaInv => LatestAgrees
  BY DEF MetaInv
<1>2. QED
  BY <1>1, MetaHolds, PTL

\* SetBucketVersioning cannot slip between a PUT's reading of the status and
\* its commit.
THEOREM PublishesAsRead == Spec => []PublishesUnderCurrentStatus
<1>1. MetaInv => PublishesUnderCurrentStatus
  BY DEF MetaInv
<1>2. QED
  BY <1>1, MetaHolds, PTL

LEMMA SurviveStep ==
    ASSUME Control, MetaInv, NEW p \in Procs, Handler(p), NEW k \in Keys, NEW u \in Uuids,
           versions[k][u] # NoRecord, versions'[k][u] = NoRecord
    PROVE  pc[p] = "ready" /\ op[p].mode = "version" /\ op[p].key = k /\ op[p].vid = u
<1>a. TypeInv /\ LatestAgrees /\ u \in VersionIDs /\ u # NullVersion /\ Knows(p)
  BY Facts, IdAssumption DEF Control, MetaInv
<1>b. op[p].key = k
  BY Frame
<1>c. PutCommit(p) \/ PromoteRaw(p) \/ PromoteRecord(p) \/ DeleteCommit(p)
  BY Frame
\* A new record takes the place of at most one version, which it archives.
<1>d. ASSUME NEW rec \in Record, rec.vid # Unversioned, PutObjectMeta(k, rec) PROVE FALSE
  <2>1. CASE u = rec.vid
    BY <1>a, <1>d, <2>1, PutMeta, IdAssumption
  <2>2. CASE u # rec.vid
    BY <1>a, <1>d, <2>2, TellsAgrees, PutSlots DEF SameData
  <2>3. QED
    BY <2>1, <2>2
<1>1. CASE PutCommit(p)
  <2>1. /\ pc[p] = "synced" /\ op[p].kind = "put" /\ PutObjectMeta(k, PutRec(op[p]))
        /\ PutRec(op[p]) \in Record
    BY <1>1, <1>a, <1>b, PutCommitFacts
  <2>2. PutRec(op[p]).vid = op[p].vid
    BY DEF PutRec
  <2>3. op[p].vid = Unversioned
    BY <1>d, <2>1, <2>2
  <2>4. p \in committers /\ status \in Statuses
    BY <1>a, <2>1 DEF MetaInv, CommitInv, Committing, TypeInv, TypeOK
  <2>5. status = ""
    BY <2>3, <2>4, IdAssumption DEF MetaInv, PublishesUnderCurrentStatus, Statuses, Unversioned, NullVersion
  <2>6. QED
    BY <2>5 DEF MetaInv, StatusInv
<1>2. CASE PromoteRaw(p) \/ PromoteRecord(p)
  <2>1. PICK rec : Raises(p, rec)
    BY <1>2, PromoteFacts
  <2>2. QED
    BY <1>a, <1>b, <2>1, RawMeta DEF Raises
<1>3. CASE DeleteCommit(p)
  <2>1. CASE op[p].mode = "all"
    BY <1>3, <1>a, <1>b, <2>1, DeleteCommitFacts DEF Knows, Holding, PCs
  <2>2. CASE op[p].mode = "marker"
    <3>1. /\ PutObjectMeta(k, MarkRec(op[p])) /\ MarkRec(op[p]) \in Record
          /\ op[p].vid \in VersionIDs
      BY <1>3, <1>a, <1>b, <2>2, DeleteCommitFacts
    <3>2. MarkRec(op[p]).vid # Unversioned
      BY <1>a, <3>1, Facts DEF MarkRec
    <3>3. QED
      BY <1>d, <3>1, <3>2
  <2>3. CASE op[p].mode = "version"
    <3>1. pc[p] = "ready" /\ op[p].vid \in VersionIDs /\ DeleteVersionMeta(k, op[p].vid)
      BY <1>3, <1>a, <1>b, <2>3, DeleteCommitFacts
    <3>2. ASSUME u # op[p].vid PROVE FALSE
      <4>1. CASE LastGoes(k, op[p].vid)
        BY <1>a, <3>2, <4>1 DEF LastGoes
      <4>2. CASE OtherGoes(k, op[p].vid)
        BY <1>a, <3>2, <4>2 DEF OtherGoes
      <4>3. ASSUME NEW w, TakesOver(k, op[p].vid, w) PROVE FALSE
        <5>1. versions[k][w] \in Record
          BY <1>a, <4>3, Facts DEF TakesOver
        <5>2. pointer'[k] \in Record
          <6>1. pointer'[k] = [versions[k][w] EXCEPT !.latest = TRUE]
            BY <4>3 DEF TakesOver
          <6>2. QED
            BY <5>1, <6>1 DEF Record
        <5>3. QED
          BY <1>a, <3>2, <4>3, <5>2, IdAssumption DEF TakesOver
      <4>4. QED
        BY <1>a, <3>1, <4>1, <4>2, <4>3, DeleteMeta
    <3>3. QED
      BY <1>b, <2>3, <3>1, <3>2
  <2>4. QED
    BY <1>3, <1>a, <2>1, <2>2, <2>3, DeleteCommitFacts
<1>4. QED
  BY <1>c, <1>1, <1>2, <1>3

\* A version with an ID of its own disappears only at the hands of a DELETE,
\* or an expiry, that names it: no PUT, delete marker, promotion, change of
\* versioning, failure or crash erases history.
THEOREM HistorySurvives == Spec => VersionsSurvive
<1> DEFINE Spares == \A k \in Keys, u \in Uuids :
                       versions[k][u] # NoRecord /\ versions'[k][u] = NoRecord =>
                         \E p \in Procs : /\ pc[p] = "ready" /\ op[p].mode = "version"
                                          /\ op[p].key = k /\ op[p].vid = u
<1>1. ASSUME Control, MetaInv, [Next]_vars PROVE [Spares]_vars
  <2>1. ASSUME NEW k \in Keys, NEW u \in Uuids,
               versions[k][u] # NoRecord, versions'[k][u] = NoRecord
        PROVE  \E p \in Procs : /\ pc[p] = "ready" /\ op[p].mode = "version"
                                /\ op[p].key = k /\ op[p].vid = u
    <3>1. versions' # versions
      BY <2>1
    <3>2. TypeInv
      BY <1>1 DEF Control
    <3>3. ~World
      BY <3>1, <3>2, WorldFacts
    <3>4. vars' # vars
      BY <3>1 DEF vars, meta
    <3>5. PICK p \in Procs : Handler(p)
      BY <1>1, <3>3, <3>4 DEF Next, World, Handler
    <3>6. pc[p] = "ready" /\ op[p].mode = "version" /\ op[p].key = k /\ op[p].vid = u
      BY <1>1, <2>1, <3>5, SurviveStep
    <3>7. QED
      BY <3>6
  <2>2. QED
    BY <2>1
<1>2. QED
  BY <1>1, MetaHolds, PTL DEF Spec, VersionsSurvive

-----------------------------------------------------------------------------
(***************************************************************************)
(* The object count                                                        *)
(***************************************************************************)
Present == {k \in Keys : pointer[k] # NoRecord}

LEMMA PresentFacts ==
    /\ IsFiniteSet(Present) /\ Cardinality(Present) \in Nat
    /\ CountMatchesScan <=> (count # NoCount => count = Cardinality(Present))
<1>1. IsFiniteSet(Present)
  BY BoundAssumption, FS_Subset, SMTT(30) DEF Present
<1>2. QED
  BY <1>1, FS_CardinalityType DEF CountMatchesScan, scanObjectCount, Present

\* The three ways a transaction treats the count.
CountKept == Present' = Present /\ count' = count
CountUp(k) == k \notin Present /\ Present' = Present \cup {k} /\ adjustObjectCount(1)
CountDown(k) == k \in Present /\ Present' = Present \ {k} /\ adjustObjectCount(-1)

LEMMA CountSteps ==
    ASSUME Control, NEW p \in Procs, Handler(p)
    PROVE  CountKept \/ \E k \in Keys : CountUp(k) \/ CountDown(k)
<1>a. TypeInv /\ pointer \in [Keys -> Record \cup {NoRecord}]
  BY DEF Control, TypeInv, TypeOK
<1>b. \A r \in Record : r # NoRecord
  BY IdAssumption
<1>1. CASE UNCHANGED <<pointer, count>>
  BY <1>1 DEF CountKept, Present
<1>2. ASSUME NEW k \in Keys, NEW rec \in Record, PutObjectMeta(k, rec)
      PROVE  CountKept \/ CountUp(k)
  <2>1. pointer' = [pointer EXCEPT ![k] = rec]
    BY <1>2 DEF PutObjectMeta
  <2>2. Present' = Present \cup {k}
    BY <1>a, <1>b, <2>1 DEF Present
  <2>3. CASE pointer[k] = NoRecord
    BY <1>2, <2>2, <2>3 DEF PutObjectMeta, CountUp, Present
  <2>4. CASE pointer[k] # NoRecord
    BY <1>2, <2>2, <2>4 DEF PutObjectMeta, CountKept, Present
  <2>5. QED
    BY <2>3, <2>4
<1>3. ASSUME NEW k \in Keys, pointer[k] # NoRecord, pointer' = [pointer EXCEPT ![k] = NoRecord],
             adjustObjectCount(-1)
      PROVE  CountDown(k)
  BY <1>3, <1>a DEF CountDown, Present
<1>4. ASSUME NEW k \in Keys, pointer[k] # NoRecord, NEW rec \in Record,
             pointer' = [pointer EXCEPT ![k] = rec], count' = count
      PROVE  CountKept
  BY <1>4, <1>a, <1>b DEF CountKept, Present
<1>5. CASE PutCommit(p)
  BY <1>5, <1>a, <1>2, PutCommitFacts
<1>6. CASE PromoteRaw(p) \/ PromoteRecord(p)
  <2>1. PICK rec : Raises(p, rec)
    BY <1>6, PromoteFacts
  <2>2. QED
    BY <1>4, <2>1 DEF Raises, PutObjectMetaRaw
<1>7. CASE DeleteCommit(p)
  <2>1. op[p].key \in Keys
    BY <1>7, <1>a, DeleteCommitFacts
  <2>2. CASE op[p].mode = "all" /\ DeleteAllMeta(op[p].key)
    <3>1. CASE pointer[op[p].key] # NoRecord
      BY <1>3, <2>1, <2>2, <3>1 DEF DeleteAllMeta
    <3>2. CASE pointer[op[p].key] = NoRecord
      <4>1. pointer' = pointer /\ count' = count
        BY <1>a, <2>1, <2>2, <3>2 DEF DeleteAllMeta
      <4>2. QED
        BY <4>1 DEF CountKept, Present
    <3>3. QED
      BY <3>1, <3>2
  <2>3. CASE op[p].mode = "marker" /\ PutObjectMeta(op[p].key, MarkRec(op[p])) /\ MarkRec(op[p]) \in Record
    BY <1>2, <2>1, <2>3
  <2>4. CASE op[p].mode = "version" /\ op[p].vid \in VersionIDs /\ DeleteVersionMeta(op[p].key, op[p].vid)
    <3>1. PICK k \in Keys, v \in VersionIDs : k = op[p].key /\ v = op[p].vid /\ DeleteVersionMeta(k, v)
      BY <2>1, <2>4
    <3>2. CASE ~(pointer[k] # NoRecord /\ pointer[k].vid = v)
      BY <3>1, <3>2 DEF DeleteVersionMeta, CountKept, Present
    <3>3. ASSUME pointer[k] # NoRecord, NEW next \in NextNewest(k, v),
                 pointer' = [pointer EXCEPT ![k] = [next EXCEPT !.latest = TRUE]], count' = count
          PROVE  CountKept
      <4>1. next \in Record
        BY <1>a, Facts DEF NextNewest
      <4>2. PICK rec : rec = [next EXCEPT !.latest = TRUE]
        OBVIOUS
      <4>3. rec \in Record
        BY <4>1, <4>2 DEF Record
      <4>4. QED
        BY <1>4, <3>3, <4>2, <4>3
    <3>4. CASE pointer[k] # NoRecord /\ pointer[k].vid = v
      <4>1. \/ \E next \in NextNewest(k, v) :
                 /\ pointer' = [pointer EXCEPT ![k] = [next EXCEPT !.latest = TRUE]]
                 /\ count' = count
            \/ /\ pointer' = [pointer EXCEPT ![k] = NoRecord]
               /\ adjustObjectCount(-1)
        BY <3>1, <3>4 DEF DeleteVersionMeta
      <4>2. QED
        BY <1>3, <3>3, <3>4, <4>1
    <3>5. QED
      BY <3>2, <3>4
  <2>5. QED
    BY <1>7, <1>a, <2>2, <2>3, <2>4, DeleteCommitFacts
<1>8. QED
  BY <1>1, <1>5, <1>6, <1>7
     DEF Handler, Begin, Step, Fail, PutBegin, DeleteBegin, GetBegin, ScanCurrent,
         ScanNoncurrent, lockObjectKey, PutJoin, PutRename, syncParents, PromoteSkip,
         PromoteCopy, PromoteDrop, DeleteMode, DeleteCollect, DeleteMissing, removeData,
         Finish, ExpireCheck, ExpireSkip, GetOpen, meta

\* The stored count is what a scan would find, for any number of keys and
\* whatever transactions run: each adjusts it exactly when a key appears or
\* disappears, and CountObjectMetas fills it in only from a scan.
THEOREM CountIsRight == Spec => []CountMatchesScan
<1>1. Init => CountMatchesScan
  <2> SUFFICES ASSUME Init, count # NoCount PROVE count = Cardinality(Present)
    BY PresentFacts
  <2>l. \A S : LegacyStore(S) => count = NoCount
    BY DEF LegacyStore
  <2>h. \A k, u1, u2, b1, b2, since : OldHistory(k, u1, u2, b1, b2, since) => count = NoCount
    BY DEF OldHistory
  <2>1. EmptyStore
    BY <2>l, <2>h, Zenon DEF Init
  <2>2. Present = {}
    BY <2>1 DEF EmptyStore, Present
  <2>3. QED
    BY <2>1, <2>2, FS_EmptySet DEF EmptyStore
<1>2. ASSUME Control, CountMatchesScan, [Next]_vars PROVE CountMatchesScan'
  <2>a. (CountMatchesScan <=> (count # NoCount => count = Cardinality(Present)))'
    BY PresentFacts, PTL
  <2>b. count # NoCount => count = Cardinality(Present)
    BY <1>2, PresentFacts
  <2>c. count \in Nat \cup {NoCount} /\ Cardinality(Present) \in Nat /\ IsFiniteSet(Present)
    BY <1>2, PresentFacts DEF Control, TypeInv, TypeOK
  <2>1. CASE CountKept
    BY <2>1, <2>a, <2>b DEF CountKept
  <2>2. ASSUME NEW k \in Keys, CountUp(k) PROVE CountMatchesScan'
    <3>1. Cardinality(Present') = Cardinality(Present) + 1
      BY <2>2, <2>c, FS_AddElement DEF CountUp
    <3>2. count' = IF count = NoCount \/ count + 1 < 0 THEN NoCount ELSE count + 1
      BY <2>2 DEF CountUp, adjustObjectCount
    <3>3. QED
      BY <2>a, <2>b, <2>c, <3>1, <3>2
  <2>3. ASSUME NEW k \in Keys, CountDown(k) PROVE CountMatchesScan'
    <3>1. Cardinality(Present') = Cardinality(Present) - 1
      BY <2>3, <2>c, FS_RemoveElement DEF CountDown
    <3>2. count' = IF count = NoCount \/ count + (-1) < 0 THEN NoCount ELSE count + (-1)
      BY <2>3 DEF CountDown, adjustObjectCount
    <3>3. QED
      BY <2>a, <2>b, <2>c, <3>1, <3>2
  <2>4. ASSUME NEW p \in Procs, Handler(p) PROVE CountMatchesScan'
    BY <1>2, <2>1, <2>2, <2>3, <2>4, CountSteps
  <2>5. CASE CountObjectMetas
    BY <2>5 DEF CountObjectMetas, CountMatchesScan, scanObjectCount
  <2>6. CASE (\E s \in {"Enabled", "Suspended", "Disabled"} : SetBucketVersioning(s)) \/ Tick \/ Crash
             \/ UNCHANGED vars
    BY <1>2, <2>6 DEF SetBucketVersioning, Tick, Crash, vars, meta, CountMatchesScan, scanObjectCount
  <2>7. QED
    BY <1>2, <2>4, <2>5, <2>6 DEF Next, Handler
<1>3. QED
  BY <1>1, <1>2, ControlHolds, PTL DEF Spec

-----------------------------------------------------------------------------
(***************************************************************************)
(* The lifecycle sweep                                                     *)
(***************************************************************************)
LEMMA SinceNat ==
    ASSUME TypeInv, NEW k \in Keys, NEW rec \in Record
    PROVE  NoncurrentSince(k, rec) \in Nat
<1>1. PICK later : later = {r.modified : r \in {s \in GetObjectVersions(k) : s.modified > rec.modified}}
  OBVIOUS
<1>2. later \subseteq Nat /\ rec.noncurrent \in Nat
  BY <1>1, VersionsType DEF TypeInv, Record
<1>3. NoncurrentSince(k, rec) = IF rec.noncurrent # 0 \/ later = {} THEN rec.noncurrent
                                ELSE CHOOSE t \in later : \A s \in later : t <= s
  BY <1>1 DEF NoncurrentSince
<1>4. CASE later # {}
  <2>1. \E t \in later : \A s \in later : t <= s
    BY <1>2, <1>4, SmallestNat
  <2>2. (CHOOSE t \in later : \A s \in later : t <= s) \in later
    BY <2>1
  <2>3. QED
    BY <1>2, <1>3, <2>2
<1>5. QED
  BY <1>2, <1>3, <1>4

\* When a version became noncurrent depends on nothing but its key's records.
LEMMA SinceFrame ==
    ASSUME NEW k \in Keys, NEW rec, pointer'[k] = pointer[k], versions'[k] = versions[k]
    PROVE  NoncurrentSince(k, rec)' = NoncurrentSince(k, rec)
<1>1. GetObjectVersions(k)' = GetObjectVersions(k)
  BY DEF GetObjectVersions
<1>2. QED
  BY <1>1 DEF NoncurrentSince

LEMMA AgedFrame ==
    ASSUME NEW p \in Procs, NEW k \in Keys, op[p].key = k, op'[p].key = k,
           op'[p].vid = op[p].vid, op'[p].now = op[p].now,
           pointer'[k] = pointer[k], versions'[k] = versions[k], Aged(k, op[p])
    PROVE  Aged(k, op[p])'
<1>1. PICK rec : rec = versions[k][op[p].vid]
  OBVIOUS
<1>2. rec = versions'[k][op'[p].vid]
  BY <1>1
<1>3. NoncurrentSince(k, rec)' = NoncurrentSince(k, rec)
  BY SinceFrame
<1>4. NoncurrentSince(k, versions[k][op[p].vid])' = NoncurrentSince(k, rec)
  BY <1>2, <1>3
<1>5. QED
  BY <1>1, <1>2, <1>4 DEF Aged

LEMMA SweepOthers ==
    ASSUME Control, SweepInv, NEW p \in Procs, Handler(p), NEW q \in Procs \ {p}
    PROVE  Sweeps(q)'
<1>1. /\ clock' = clock /\ pc'[q] = pc[q] /\ op'[q] = op[q]
      /\ pc[q] \in Holding =>
            /\ op[q].key \in Keys
            /\ pointer'[op[q].key] = pointer[op[q].key] /\ versions'[op[q].key] = versions[op[q].key]
  BY Frame
<1>2. Sweeps(q)
  BY DEF SweepInv
<1>3. ASSUME pc[q] \in Holding, Aged(op[q].key, op[q])
      PROVE  Aged(op[q].key, op[q])'
  <2>1. PICK k \in Keys : k = op[q].key
    BY <1>1, <1>3
  <2>2. Aged(k, op[q])'
    BY <1>1, <1>3, <2>1, AgedFrame
  <2>3. k = op'[q].key
    BY <1>1, <2>1
  <2>4. QED
    BY <2>2, <2>3
<1>4. QED
  BY <1>1, <1>2, <1>3 DEF Sweeps

\* Whatever changes no record of the key and not what the sweep looks for.
LEMMA SweepGoesOn ==
    ASSUME Control, MetaInv, SweepInv, NEW p \in Procs, Handler(p),
           op'[p].kind = op[p].kind, op'[p].key = op[p].key,
           pc[p] \in Holding, pc'[p] \in Holding, pc'[p] # "locked",
           op[p].kind = "expireCurrent" =>
               \/ pc'[p] = "cleanup"
               \/ /\ pointer'[op[p].key] # NoRecord
                  /\ clock - pointer'[op[p].key].modified > Cutoff,
           op[p].kind = "expireNoncurrent" =>
               /\ op'[p].vid = op[p].vid /\ op'[p].now = op[p].now
               /\ op'[p].mode \in {"", "version"}
               /\ \/ pc'[p] = "cleanup"
                  \/ /\ pc'[p] \in {"checked", "prepare", "promoted", "ready"}
                     /\ Aged(op[p].key, op[p])
                     /\ pointer'[op[p].key] = pointer[op[p].key]
                     /\ versions'[op[p].key] = versions[op[p].key]
    PROVE  Sweeps(p)'
<1>1. clock' = clock
  BY Frame
<1>2. Sweeps(p)
  BY DEF SweepInv
<1>3. PICK k \in Keys : k = op[p].key /\ k = op'[p].key
  BY Facts DEF Control, Shape, Holding
<1>4. pc'[p] \notin {"waiting", "locked"}
  BY DEF Holding
<1>5. CASE op[p].kind = "expireCurrent"
  <2>1. pc'[p] \in Holding \ {"locked", "cleanup"} =>
           pointer'[k] # NoRecord /\ clock' - pointer'[k].modified > Cutoff
    BY <1>1, <1>3, <1>5
  <2>2. QED
    BY <1>3, <1>4, <1>5, <2>1 DEF Sweeps
<1>6. CASE op[p].kind = "expireNoncurrent"
  <2>1. op'[p].vid \in VersionIDs /\ op'[p].now <= clock' /\ op'[p].mode \in {"", "version"}
    BY <1>1, <1>2, <1>6 DEF Sweeps
  <2>2. ASSUME pc'[p] # "cleanup" PROVE Aged(k, op[p])'
    BY <1>3, <1>6, <2>2, AgedFrame
  <2>3. QED
    BY <1>3, <1>6, <2>1, <2>2 DEF Sweeps
<1>7. QED
  BY <1>5, <1>6 DEF Sweeps

LEMMA SweepSelf ==
    ASSUME Control, MetaInv, SweepInv, NEW p \in Procs, Handler(p)
    PROVE  Sweeps(p)'
<1>a. TypeInv /\ op[p] \in Op /\ Shape(pc[p], op[p]) /\ clock \in Nat /\ clock' = clock
  BY Facts, Frame DEF Control
<1>b. Sweeps(p) /\ LatestAgrees
  BY DEF SweepInv, MetaInv
<1>c. ASSUME op'[p].kind \notin {"expireCurrent", "expireNoncurrent"} PROVE Sweeps(p)'
  BY <1>c DEF Sweeps
<1>d. ASSUME op[p].kind = "expireNoncurrent", pc[p] \in Holding \ {"locked", "cleanup"}, op[p].key \in Keys
      PROVE  /\ pc[p] \in {"checked", "prepare", "promoted", "ready"} /\ Aged(op[p].key, op[p])
             /\ op[p].mode \in {"", "version"} /\ op[p].vid \in VersionIDs
             /\ ~(pointer[op[p].key] # NoRecord /\ pointer[op[p].key].vid = Unversioned)
  <2>1. /\ pc[p] \in {"checked", "prepare", "promoted", "ready"} /\ Aged(op[p].key, op[p])
        /\ op[p].mode \in {"", "version"} /\ op[p].vid \in VersionIDs
    BY <1>b, <1>d DEF Sweeps
  <2>2. Tells(op[p].key) /\ versions[op[p].key][op[p].vid] # NoRecord
    BY <1>a, <1>b, <1>d, <2>1, TellsAgrees DEF Aged
  <2>3. QED
    BY <2>1, <2>2 DEF Tells
<1>e. ASSUME op[p].kind = "expireCurrent", pc[p] \in Holding \ {"locked", "cleanup"}
      PROVE  pointer[op[p].key] # NoRecord /\ clock - pointer[op[p].key].modified > Cutoff
  BY <1>b, <1>e DEF Sweeps
<1>1. CASE Begin(p)
  <2>1. PICK k \in Keys : BeginsAny(p, k)
    BY <1>1, <1>a, BeginFacts
  <2>2. ASSUME NEW b, BeginsPut(p, k, b) PROVE Sweeps(p)'
    BY <1>c, <2>2 DEF BeginsPut, Idle
  <2>3. ASSUME NEW v, BeginsDelete(p, k, v) PROVE Sweeps(p)'
    BY <1>c, <2>3 DEF BeginsDelete, Idle
  <2>4. ASSUME NEW v, NEW rec, BeginsGet(p, k, v, rec) PROVE Sweeps(p)'
    BY <1>c, <2>4 DEF BeginsGet, Idle
  <2>5. CASE BeginsCurrent(p, k)
    <3>1. /\ pc'[p] = "waiting" /\ op'[p].kind = "expireCurrent" /\ op'[p].mod = pointer[k].modified
          /\ clock - pointer[k].modified > Cutoff
      BY <2>5 DEF BeginsCurrent, Idle
    <3>2. QED
      BY <1>a, <3>1 DEF Sweeps, Holding
  <2>6. ASSUME NEW v \in VersionIDs, BeginsNoncurrent(p, k, v) PROVE Sweeps(p)'
    <3>1. /\ pc'[p] = "waiting" /\ op'[p].kind = "expireNoncurrent" /\ op'[p].now = clock
          /\ op'[p].vid = v /\ op'[p].mode = ""
      BY <2>6 DEF BeginsNoncurrent, Idle
    <3>2. op'[p].now <= clock'
      <4>1. clock \in Nat /\ clock' = clock
        BY <1>a
      <4>2. op'[p].now = clock
        BY <3>1
      <4>3. QED
        BY <4>1, <4>2
    <3>3. QED
      BY <3>1, <3>2 DEF Sweeps, Holding
  <2>7. QED
    BY <2>1, <2>2, <2>3, <2>4, <2>5, <2>6 DEF BeginsAny
<1>2. CASE Ends(p)
  BY <1>2, <1>a, <1>c, EndFacts
<1>3. CASE lockObjectKey(p)
  <2>1. pc[p] \in {"written", "waiting"} /\ Advances(p, "locked")
    BY <1>3, <1>a, AdvanceFacts DEF lockObjectKey
  <2>2. CASE pc[p] = "waiting"
    BY <1>a, <1>b, <2>1, <2>2 DEF Sweeps, Advances, Becomes, Holding
  <2>3. CASE pc[p] = "written"
    BY <1>a, <1>c, <2>1, <2>3 DEF Shape, Advances, Becomes
  <2>4. QED
    BY <2>1, <2>2, <2>3
<1>4. CASE PutJoin(p)
  BY <1>4, <1>a, <1>c, PutJoinMoves DEF PutJoin, Becomes
<1>5. CASE PutRename(p)
  BY <1>5, <1>a, <1>c, PutRenameMoves DEF PutRename, Becomes
<1>6. CASE PutCommit(p)
  BY <1>6, <1>a, <1>c, AdvanceFacts, PutCommitFacts DEF Advances, Becomes
<1>7. CASE syncParents(p)
  <2>1. CASE pc[p] = "renamed" /\ Advances(p, "synced")
    BY <1>a, <1>c, <2>1 DEF Shape, Advances, Becomes
  <2>2. CASE pc[p] = "copied" /\ Advances(p, "copySynced")
    <3>1. /\ op'[p].kind = op[p].kind /\ op'[p].key = op[p].key /\ pc'[p] = "copySynced"
          /\ pc[p] \in Holding \ {"locked", "cleanup"} /\ pc'[p] \in Holding /\ op[p].key \in Keys
          /\ UNCHANGED <<pointer, versions>>
      BY <1>7, <1>a, <2>2 DEF Advances, Becomes, Holding, PCs, Shape, syncParents, meta
    <3>2. op[p].kind # "expireNoncurrent"
      BY <1>d, <2>2, <3>1
    <3>3. QED
      BY <1>e, <3>1, <3>2, SweepGoesOn
  <2>3. QED
    BY <1>7, <1>a, <2>1, <2>2, AdvanceFacts
<1>8. CASE PromoteSkip(p)
  <2>1. /\ op'[p].kind = op[p].kind /\ op'[p].key = op[p].key /\ pc'[p] = "promoted"
        /\ op'[p].vid = op[p].vid /\ op'[p].now = op[p].now /\ op'[p].mode = op[p].mode
        /\ pc[p] \in Holding \ {"locked", "cleanup"} /\ pc'[p] \in Holding /\ op[p].key \in Keys
        /\ UNCHANGED <<pointer, versions>>
    BY <1>8, <1>a, AdvanceFacts DEF Advances, Becomes, Holding, PCs, Shape, PromoteSkip, meta
  <2>2. QED
    BY <1>d, <1>e, <2>1, SweepGoesOn
<1>9. CASE PromoteRaw(p) \/ PromoteRecord(p)
  <2>1. PICK rec : Raises(p, rec)
    BY <1>9, PromoteFacts
  <2>2. /\ op'[p].kind = op[p].kind /\ op'[p].key = op[p].key /\ pc'[p] \in {"promoted", "recorded"}
        /\ pc[p] \in Holding \ {"locked", "cleanup"} /\ pc'[p] \in Holding /\ op[p].key \in Keys
    BY <1>9, <1>a, <2>1, AdvanceFacts DEF Advances, Becomes, Holding, PCs, Raises
  <2>3. op[p].kind # "expireNoncurrent"
    BY <1>d, <2>1, <2>2 DEF Raises
  <2>4. pointer'[op[p].key] = rec /\ rec # NoRecord /\ rec.modified = pointer[op[p].key].modified
    BY <1>a, <2>1, RawMeta DEF Raises
  <2>5. QED
    BY <1>e, <2>2, <2>3, <2>4, SweepGoesOn
<1>10. CASE PromoteCopy(p)
  <2>1. /\ op'[p].kind = op[p].kind /\ op'[p].key = op[p].key /\ pc'[p] = "copied"
    BY <1>10, <1>a, PromoteCopyMoves DEF Becomes
  <2>2. /\ pc[p] \in Holding \ {"locked", "cleanup"} /\ pc'[p] \in Holding /\ op[p].key \in Keys
        /\ UNCHANGED <<pointer, versions>> /\ Promotes(p)
    BY <1>10, <1>a, <2>1 DEF Holding, PCs, Shape, PromoteCopy, meta
  <2>3. op[p].kind # "expireNoncurrent"
    BY <1>d, <2>2 DEF Promotes
  <2>4. QED
    BY <1>e, <2>1, <2>2, <2>3, SweepGoesOn
<1>11. CASE PromoteDrop(p)
  <2>1. /\ op'[p].kind = op[p].kind /\ op'[p].key = op[p].key /\ pc'[p] = "promoted"
    BY <1>11, <1>a, PromoteDropMoves DEF Becomes
  <2>2. /\ pc[p] \in Holding \ {"locked", "cleanup"} /\ pc'[p] \in Holding /\ op[p].key \in Keys
        /\ UNCHANGED <<pointer, versions>> /\ pc[p] = "recorded"
    BY <1>11, <1>a, <2>1 DEF Holding, PCs, Shape, PromoteDrop, meta
  <2>3. op[p].kind # "expireNoncurrent"
    BY <1>d, <2>2
  <2>4. QED
    BY <1>e, <2>1, <2>2, <2>3, SweepGoesOn
<1>12. CASE DeleteMode(p)
  <2>1. PICK m, v : /\ Becomes(p, "prepare", v, m, op[p].copy, op[p].mod, op[p].gone)
                    /\ m \in {"version", "marker", "all"}
                    /\ m = "version" => v = op[p].vid
                    /\ m # "version" => op[p].vid = Unversioned
    BY <1>12, <1>a, DeleteModeMoves
  <2>2. op'[p].kind = op[p].kind /\ op'[p].key = op[p].key /\ pc'[p] = "prepare"
        /\ op'[p].vid = v /\ op'[p].now = op[p].now /\ op'[p].mode = m
    BY <2>1 DEF Becomes
  <2>3. /\ pc[p] \in Holding /\ pc'[p] \in Holding /\ op[p].key \in Keys
        /\ op[p].kind # "delete" => pc[p] = "checked"
        /\ UNCHANGED <<pointer, versions>>
    BY <1>12, <1>a, <2>2 DEF Holding, PCs, Shape, DeleteMode, meta
  <2>4. CASE op[p].kind = "expireNoncurrent"
    <3>1. op[p].vid # Unversioned /\ Aged(op[p].key, op[p])
      BY <1>a, <1>d, <2>3, <2>4, Facts DEF Holding
    <3>2. QED
      BY <2>1, <2>2, <2>3, <2>4, <3>1, SweepGoesOn
  <2>5. CASE op[p].kind = "expireCurrent"
    BY <1>e, <2>2, <2>3, <2>5, SweepGoesOn
  <2>6. QED
    BY <1>c, <2>2, <2>4, <2>5
<1>13. CASE DeleteCollect(p)
  <2>1. /\ op'[p].kind = op[p].kind /\ op'[p].key = op[p].key /\ pc'[p] = "ready"
        /\ op'[p].vid = op[p].vid /\ op'[p].now = op[p].now /\ op'[p].mode = op[p].mode
    BY <1>13, <1>a, DeleteCollectMoves DEF Becomes
  <2>2. /\ pc[p] \in Holding \ {"locked", "cleanup"} /\ pc'[p] \in Holding /\ op[p].key \in Keys
        /\ UNCHANGED <<pointer, versions>>
    BY <1>13, <1>a, <2>1 DEF Holding, PCs, Shape, DeleteCollect, meta
  <2>3. QED
    BY <1>d, <1>e, <2>1, <2>2, SweepGoesOn
<1>14. CASE DeleteCommit(p) \/ removeData(p)
  <2>1. /\ op'[p].kind = op[p].kind /\ op'[p].key = op[p].key /\ pc'[p] = "cleanup"
        /\ op'[p].vid = op[p].vid /\ op'[p].now = op[p].now /\ op'[p].mode = op[p].mode
    BY <1>14, <1>a, AdvanceFacts, RemoveDataMoves DEF Advances, Becomes
  <2>2. pc[p] \in Holding /\ pc'[p] \in Holding
    BY <1>14, <2>1 DEF Holding, PCs, DeleteCommit, removeData
  <2>3. op[p].kind = "expireNoncurrent" => op[p].mode \in {"", "version"}
    BY <1>b DEF Sweeps
  <2>4. QED
    BY <2>1, <2>2, <2>3, SweepGoesOn
<1>15. CASE ExpireCheck(p)
  <2>1. PICK v : /\ Becomes(p, "checked", v, op[p].mode, op[p].copy, op[p].mod, op[p].gone)
                 /\ \/ op[p].kind = "expireCurrent" /\ CurrentExpires(p)
                    \/ op[p].kind = "expireNoncurrent" /\ NoncurrentExpires(p) /\ v = op[p].vid
    BY <1>15, <1>a, ExpireCheckMoves
  <2>2. op'[p].kind = op[p].kind /\ op'[p].key = op[p].key /\ pc'[p] = "checked"
        /\ op'[p].vid = v /\ op'[p].now = op[p].now /\ op'[p].mode = op[p].mode
    BY <2>1 DEF Becomes
  <2>3. /\ pc[p] = "locked" /\ pc[p] \in Holding /\ pc'[p] \in Holding /\ op[p].key \in Keys
        /\ UNCHANGED <<pointer, versions>>
    BY <1>15, <1>a, <2>2 DEF Holding, PCs, Shape, ExpireCheck, meta
  <2>4. CASE op[p].kind = "expireCurrent"
    <3>1. pointer[op[p].key] # NoRecord /\ pointer[op[p].key].modified = op[p].mod
      BY <2>1, <2>4 DEF CurrentExpires
    <3>2. clock - op[p].mod > Cutoff
      BY <1>b, <2>3, <2>4 DEF Sweeps
    <3>3. QED
      BY <2>2, <2>3, <2>4, <3>1, <3>2, SweepGoesOn
  <2>5. CASE op[p].kind = "expireNoncurrent"
    <3>1. PICK k \in Keys : k = op[p].key
      BY <2>3
    <3>2. PICK rec : rec = GetObjectMeta(k, op[p].vid)
      OBVIOUS
    <3>3. /\ rec # NoRecord /\ ~rec.latest /\ op[p].now - NoncurrentSince(k, rec) > Cutoff
      BY <2>1, <2>5, <3>1, <3>2 DEF NoncurrentExpires
    <3>4. op[p].vid \in VersionIDs /\ op[p].mode \in {"", "version"}
      BY <1>b, <2>5 DEF Sweeps
    <3>5. rec # pointer[k]
      <4>1. Tells(k)
        BY <1>a, <1>b, TellsAgrees
      <4>2. QED
        BY <3>3, <4>1 DEF Tells
    <3>6. rec = versions[k][op[p].vid]
      BY <1>a, <3>2, <3>3, <3>4, <3>5, Facts DEF GetObjectMeta
    <3>7. Aged(k, op[p])
      BY <3>3, <3>6 DEF Aged
    <3>8. QED
      BY <2>1, <2>2, <2>3, <2>5, <3>1, <3>4, <3>7, SweepGoesOn
  <2>6. QED
    BY <2>1, <2>4, <2>5
<1>16. QED
  BY <1>1, <1>2, <1>3, <1>4, <1>5, <1>6, <1>7, <1>8, <1>9, <1>10, <1>11, <1>12, <1>13, <1>14, <1>15
     DEF Handler, Step, Ends

LEMMA SweepHolds == Spec => []SweepInv
<1>1. Init => SweepInv
  <2> SUFFICES ASSUME Init, NEW p \in Procs PROVE Sweeps(p)
    BY DEF SweepInv
  <2>1. op[p].kind = "none"
    BY DEF Init, Idle
  <2>2. QED
    BY <2>1 DEF Sweeps
<1>2. Control /\ MetaInv /\ SweepInv /\ [Next]_vars => SweepInv'
  <2> SUFFICES ASSUME Control, MetaInv, SweepInv, [Next]_vars PROVE SweepInv'
    OBVIOUS
  <2>a. TypeInv
    BY DEF Control
  <2>1. ASSUME NEW p \in Procs, Handler(p) PROVE SweepInv'
    BY <2>1, SweepSelf, SweepOthers DEF SweepInv
  <2>2. CASE World \/ UNCHANGED vars
    <3> SUFFICES ASSUME NEW p \in Procs PROVE Sweeps(p)'
      BY DEF SweepInv
    <3>1. /\ UNCHANGED <<pointer, versions>>
          /\ clock \in Nat /\ clock' \in Nat /\ clock <= clock'
          /\ UNCHANGED <<pc, op>> \/ op'[p] = Idle
      BY <2>2, <2>a, WorldFacts
    <3>2. CASE op'[p] = Idle
      <4>1. op'[p].kind = "none"
        BY <3>2, IdleKnows
      <4>2. QED
        BY <4>1 DEF Sweeps
    <3>3. CASE UNCHANGED <<pc, op>>
      <4>1. Sweeps(p) /\ op[p] \in Op /\ (pc[p] \in Holding => op[p].key \in Keys)
        BY <2>a, Facts DEF SweepInv, Shape, Holding
      <4>a. op[p].mod \in Nat /\ op[p].now \in Nat /\ Cutoff \in Nat
        BY <4>1, BoundAssumption DEF Op
      <4>2. CASE op[p].kind = "expireCurrent"
        <5>1. pc[p] \in {"waiting", "locked"} => clock' - op[p].mod > Cutoff
          <6>1. pc[p] \in {"waiting", "locked"} => clock - op[p].mod > Cutoff
            BY <4>1, <4>2 DEF Sweeps
          <6>2. QED
            BY <3>1, <4>a, <6>1
        <5>2. ASSUME pc[p] \in Holding \ {"locked", "cleanup"}
              PROVE  pointer[op[p].key] # NoRecord /\ clock' - pointer[op[p].key].modified > Cutoff
          <6>1. /\ pointer[op[p].key] # NoRecord /\ clock - pointer[op[p].key].modified > Cutoff
                /\ op[p].key \in Keys
            BY <4>1, <4>2, <5>2 DEF Sweeps
          <6>2. pointer[op[p].key].modified \in Nat
            BY <2>a, <6>1, Facts DEF Record
          <6>3. QED
            BY <3>1, <4>a, <6>1, <6>2
        <5>3. QED
          BY <3>1, <3>3, <4>2, <5>1, <5>2 DEF Sweeps
      <4>3. CASE op[p].kind = "expireNoncurrent"
        <5>1. op[p].now <= clock'
          <6>1. op[p].now <= clock
            BY <4>1, <4>3 DEF Sweeps
          <6>2. QED
            BY <3>1, <4>a, <6>1
        <5>2. ASSUME pc[p] \in Holding \ {"locked", "cleanup"} PROVE Aged(op[p].key, op[p])'
          <6>1. PICK k \in Keys : k = op[p].key /\ k = op'[p].key
            BY <3>3, <4>1, <5>2
          <6>2. Aged(k, op[p])
            BY <4>1, <4>3, <5>2, <6>1 DEF Sweeps
          <6>3. Aged(k, op[p])'
            BY <3>1, <3>3, <6>1, <6>2, AgedFrame
          <6>4. QED
            BY <6>1, <6>3
        <5>3. QED
          BY <3>3, <4>1, <4>3, <5>1, <5>2 DEF Sweeps
      <4>4. QED
        BY <3>3, <4>2, <4>3 DEF Sweeps
    <3>4. QED
      BY <3>1, <3>2, <3>3
  <2>3. QED
    BY <2>1, <2>2 DEF Next, World, Handler
<1>3. QED
  BY <1>1, <1>2, MetaHolds, PTL DEF Spec

\* expireCurrentVersion never removes or hides a replacement written after the
\* scan: whatever was overwritten, deleted or promoted between the scan and
\* the commit, what goes is old enough when it goes.
THEOREM SparesReplacement == Spec => []ExpirySparesReplacement
<1>1. SweepInv => ExpirySparesReplacement
  <2> SUFFICES ASSUME SweepInv, NEW p \in Procs, pc[p] = "ready", op[p].kind = "expireCurrent"
               PROVE  pointer[op[p].key] # NoRecord /\ clock - pointer[op[p].key].modified > Cutoff
    BY DEF ExpirySparesReplacement
  <2>1. Sweeps(p) /\ pc[p] \in Holding \ {"locked", "cleanup"}
    BY DEF SweepInv, Holding, PCs
  <2>2. QED
    BY <2>1 DEF Sweeps
<1>2. QED
  BY <1>1, SweepHolds, PTL

\* expireNoncurrentVersion never removes a version that a delete of a newer
\* one made current again, nor one that has not been noncurrent long enough.
THEOREM SparesCurrentAgain == Spec => []ExpirySparesCurrentAgain
<1>1. Control /\ MetaInv /\ SweepInv => ExpirySparesCurrentAgain
  <2> SUFFICES ASSUME Control, MetaInv, SweepInv, NEW p \in Procs,
                      pc[p] = "ready", op[p].kind = "expireNoncurrent",
                      NEW k, k = op[p].key, NEW target, target = GetObjectMeta(k, op[p].vid)
               PROVE  /\ ~target.latest /\ pointer[k].vid # op[p].vid
                      /\ clock - NoncurrentSince(k, target) > Cutoff
    BY DEF ExpirySparesCurrentAgain
  <2>1. Sweeps(p) /\ pc[p] \in Holding \ {"locked", "cleanup"}
    BY DEF SweepInv, Holding, PCs
  <2>2. op[p].vid \in VersionIDs /\ op[p].now <= clock /\ Aged(k, op[p])
    BY <2>1 DEF Sweeps
  <2>3. TypeInv /\ k \in Keys /\ op[p].now \in Nat /\ clock \in Nat /\ Cutoff \in Nat
    BY <2>1, Facts, BoundAssumption DEF Control, Op, Shape, Holding
  <2>4. target = versions[k][op[p].vid]
    BY <2>2, <2>3, Facts DEF GetObjectMeta, Aged
  <2>5. target \in Record /\ ~target.latest
    BY <2>2, <2>3, <2>4, Facts DEF Aged
  <2>6. pointer[k].vid # op[p].vid
    <3>1. Tells(k)
      BY <2>3, TellsAgrees DEF MetaInv
    <3>2. QED
      BY <2>2, <3>1 DEF Tells, Aged
  <2>7. NoncurrentSince(k, target) \in Nat
    BY <2>3, <2>5, SinceNat
  <2>8. op[p].now - NoncurrentSince(k, target) > Cutoff
    BY <2>2, <2>4 DEF Aged
  <2>9. QED
    BY <2>2, <2>3, <2>5, <2>6, <2>7, <2>8
<1>2. QED
  BY <1>1, MetaHolds, SweepHolds, PTL

-----------------------------------------------------------------------------
(***************************************************************************)
(* The slots of a key: its records, by version                             *)
(***************************************************************************)
LEMMA SlotFacts ==
    ASSUME TypeInv, NEW k \in Keys
    PROVE  /\ \A s \in Slots : Rec(k, s) \in Record \cup {NoRecord}
           /\ \A v \in VersionIDs : v \in Slots /\ Rec(k, v) = versions[k][v]
           /\ Unversioned \in Slots
           /\ NoRecord \notin Record
BY Facts, IdAssumption DEF Slots, Rec

\* A record of version s is one the key's readers and writers find.
LEMMA SlotOf ==
    ASSUME TypeInv, NEW k \in Keys, Tells(k)
    PROVE  /\ pointer[k] # NoRecord => pointer[k].vid \in Slots /\ Rec(k, pointer[k].vid) = pointer[k]
           /\ \A rec : rec \in GetObjectVersions(k) <=> \E s \in Slots : rec = Rec(k, s) /\ rec # NoRecord
           /\ \A s \in Slots : Rec(k, s) # NoRecord => Rec(k, s).vid = s
<1>1. ASSUME pointer[k] # NoRecord
      PROVE  pointer[k].vid \in Slots /\ Rec(k, pointer[k].vid) = pointer[k]
  <2>1. pointer[k] \in Record
    BY <1>1, Facts
  <2>2. pointer[k].vid \in Slots
    BY <2>1 DEF Record, Slots
  <2>3. QED
    BY <1>1, <2>2 DEF Rec, Tells
<1>2. ASSUME NEW rec, rec \in GetObjectVersions(k)
      PROVE  \E s \in Slots : rec = Rec(k, s) /\ rec # NoRecord
  <2>1. rec # NoRecord /\ (rec = pointer[k] \/ \E v \in VersionIDs : rec = versions[k][v])
    BY <1>2 DEF GetObjectVersions
  <2>2. QED
    BY <1>1, <2>1, SlotFacts
<1>3. ASSUME NEW s \in Slots, Rec(k, s) # NoRecord
      PROVE  Rec(k, s) \in GetObjectVersions(k) /\ Rec(k, s).vid = s
  <2>1. CASE s \in VersionIDs
    BY <1>3, <2>1, SlotFacts DEF Tells, GetObjectVersions
  <2>2. CASE s = Unversioned
    BY <1>3, <2>2 DEF Rec, GetObjectVersions
  <2>3. QED
    BY <2>1, <2>2 DEF Slots
<1>4. QED
  BY <1>1, <1>2, <1>3

LEMMA RefersFacts ==
    ASSUME TypeInv, NEW k \in Keys, NEW s \in Slots, NEW path, Refers(k, s, path)
    PROVE  /\ path \in Paths /\ Rec(k, s) \in Record
           /\ path \in Blobs <=> Rec(k, s).blob # NoBlob
           /\ path \in Keys <=> path = k
<1>1. Rec(k, s) \in Record /\ path = dataPath(k, Rec(k, s))
  BY SlotFacts DEF Refers
<1>2. Rec(k, s).blob \in Blobs \cup {NoBlob} /\ NoBlob \notin Blobs /\ Keys \cap Blobs = {}
  BY <1>1, IdAssumption DEF Record, Paths
<1>3. QED
  BY <1>1, <1>2 DEF dataPath, Paths

\* The versions a write or delete removes.
Goes(o) ==
    IF o.mode = "all" \/ (o.kind = "put" /\ o.vid = Unversioned) THEN Slots
    ELSE IF o.vid \in Uuids /\ o.mode # "version" THEN {}
    ELSE {o.vid}

LEMMA StoredSlot ==
    ASSUME TypeInv, NEW k \in Keys, Tells(k), NEW s \in Slots
    PROVE  storedRecord(k, s) = IF Rec(k, s) # NoRecord /\ ~Rec(k, s).marker THEN Rec(k, s) ELSE NoRecord
<1>1. CASE s = Unversioned
  BY <1>1 DEF storedRecord, GetObjectMeta, Rec
<1>2. CASE s \in VersionIDs
  <2>1. s # Unversioned /\ Rec(k, s) = versions[k][s]
    BY <1>2, Facts, SlotFacts
  <2>2. CASE versions[k][s] # NoRecord
    <3>1. GetObjectMeta(k, s) = versions[k][s] /\ versions[k][s].vid = s
      BY <1>2, <2>1, <2>2 DEF GetObjectMeta, Tells
    <3>2. QED
      BY <2>1, <2>2, <3>1 DEF storedRecord
  <2>3. CASE versions[k][s] = NoRecord
    <3>1. GetObjectMeta(k, s) = NoRecord \/ GetObjectMeta(k, s).vid = Unversioned
      BY <2>1, <2>3 DEF GetObjectMeta
    <3>2. QED
      BY <2>1, <2>3, <3>1 DEF storedRecord
  <2>4. QED
    BY <2>2, <2>3
<1>3. QED
  BY <1>1, <1>2 DEF Slots

LEMMA DataOfSlots ==
    ASSUME TypeInv, NEW k \in Keys, Tells(k)
    PROVE  /\ \A s \in Slots : \A path : path \in DataOf(k, {storedRecord(k, s)}) <=> Refers(k, s, path)
           /\ \A path : path \in DataOf(k, GetObjectVersions(k)) <=> \E s \in Slots : Refers(k, s, path)
<1>1. ASSUME NEW s \in Slots, NEW path
      PROVE  path \in DataOf(k, {storedRecord(k, s)}) <=> Refers(k, s, path)
  BY StoredSlot DEF DataOf, Refers
<1>2. ASSUME NEW path
      PROVE  path \in DataOf(k, GetObjectVersions(k)) <=> \E s \in Slots : Refers(k, s, path)
  <2>1. path \in DataOf(k, GetObjectVersions(k)) <=>
          \E rec \in GetObjectVersions(k) : rec # NoRecord /\ ~rec.marker /\ path = dataPath(k, rec)
    BY DEF DataOf
  <2>2. ASSUME NEW rec \in GetObjectVersions(k), ~rec.marker, path = dataPath(k, rec)
        PROVE  \E s \in Slots : Refers(k, s, path)
    BY <2>2, SlotOf DEF Refers
  <2>3. ASSUME NEW s \in Slots, Refers(k, s, path)
        PROVE  \E rec \in GetObjectVersions(k) : rec # NoRecord /\ ~rec.marker /\ path = dataPath(k, rec)
    BY <2>3, SlotOf DEF Refers
  <2>4. QED
    BY <2>1, <2>2, <2>3
<1>3. QED
  BY <1>1, <1>2

LEMMA DoomedSlots ==
    ASSUME TypeInv, NEW k \in Keys, Tells(k), NEW o \in Op
    PROVE  \A path : path \in Doomed(k, o) <=> \E s \in Goes(o) : Refers(k, s, path)
<1> TAKE path
<1>1. o.vid \in Slots
  BY DEF Op, Slots
<1>2. \A A, B : path \in DataOf(k, A \cup B) <=> path \in DataOf(k, A) \/ path \in DataOf(k, B)
  BY DEF DataOf
<1>3. path \notin DataOf(k, {})
  BY DEF DataOf
<1>4. path \in DataOf(k, {storedRecord(k, o.vid)}) <=> Refers(k, o.vid, path)
  BY <1>1, DataOfSlots
<1>5. path \in DataOf(k, GetObjectVersions(k)) <=> \E s \in Slots : Refers(k, s, path)
  BY DataOfSlots
<1>6. path \in Doomed(k, o) <=>
        \/ ~(o.vid \in Uuids /\ o.mode # "version") /\ Refers(k, o.vid, path)
        \/ (o.mode = "all" \/ (o.kind = "put" /\ o.vid = Unversioned))
           /\ \E s \in Slots : Refers(k, s, path)
  BY <1>2, <1>3, <1>4, <1>5 DEF Doomed
<1>7. QED
  BY <1>1, <1>6 DEF Goes

LEMMA SameRefers ==
    ASSUME NEW k, NEW s, SameData(Rec(k, s)', Rec(k, s))
    PROVE  \A path : /\ Refers(k, s, path)' <=> Refers(k, s, path)
                     /\ Refers(k, s, path) => Rec(k, s)'.etag = Rec(k, s).etag
BY DEF SameData, Refers, dataPath

LEMMA FrameRefers ==
    ASSUME NEW k, pointer'[k] = pointer[k], versions'[k] = versions[k]
    PROVE  \A s : /\ Rec(k, s)' = Rec(k, s)
                  /\ \A path : Refers(k, s, path)' <=> Refers(k, s, path)
<1>1. \A s : Rec(k, s)' = Rec(k, s)
  BY DEF Rec
<1>2. QED
  BY <1>1 DEF Refers

LEMMA DeleteSlots ==
    ASSUME TypeInv, LatestAgrees, NEW k \in Keys, NEW v \in VersionIDs, DeleteVersionMeta(k, v)
    PROVE  /\ Rec(k, v)' = NoRecord
           /\ \A s \in Slots : s # v => SameData(Rec(k, s)', Rec(k, s))
<1>a. Unversioned \notin VersionIDs /\ v # Unversioned
  BY Facts
<1>1. ASSUME NEW w, TakesOver(k, v, w)
      PROVE  /\ Rec(k, v)' = NoRecord
             /\ \A s \in Slots : s # v => SameData(Rec(k, s)', Rec(k, s))
  <2>1. versions[k][w] \in Record /\ versions[k][w] # NoRecord /\ w \in VersionIDs /\ w # v
    BY <1>1, Facts DEF TakesOver
  <2>2. PICK rec \in Record : rec = [versions[k][w] EXCEPT !.latest = TRUE]
    BY <2>1 DEF Record
  <2>3. rec.blob = versions[k][w].blob /\ rec.etag = versions[k][w].etag
        /\ rec.marker = versions[k][w].marker /\ rec.vid = versions[k][w].vid
    BY <2>1, <2>2 DEF Record
  <2>4. versions[k][w].vid = w
    BY <2>1 DEF LatestAgrees
  <2>5. pointer'[k] = rec /\ rec # NoRecord
    BY <1>1, <2>2, IdAssumption DEF TakesOver
  <2>6. \A x \in VersionIDs : versions'[k][x] = IF x = v THEN NoRecord
                                               ELSE IF x = w THEN rec ELSE versions[k][x]
    BY <1>1, <2>5 DEF TakesOver
  <2>7. Rec(k, v)' = NoRecord
    BY <1>a, <2>6 DEF Rec
  <2>8. ASSUME NEW x \in VersionIDs, x # v PROVE SameData(Rec(k, x)', Rec(k, x))
    <3>1. Rec(k, x)' = versions'[k][x] /\ Rec(k, x) = versions[k][x]
      BY <1>a DEF Rec
    <3>2. QED
      BY <2>1, <2>3, <2>5, <2>6, <2>8, <3>1 DEF SameData
  <2>9. SameData(Rec(k, Unversioned)', Rec(k, Unversioned))
    <3>1. Rec(k, Unversioned)' = NoRecord
      BY <1>a, <2>1, <2>3, <2>4, <2>5 DEF Rec
    <3>2. Rec(k, Unversioned) = NoRecord
      BY <1>1, <1>a DEF Rec, TakesOver
    <3>3. QED
      BY <3>1, <3>2 DEF SameData
  <2>10. QED
    BY <2>7, <2>8, <2>9 DEF Slots
<1>2. CASE LastGoes(k, v)
  <2>1. \A s \in Slots : Rec(k, s)' = NoRecord
    BY <1>2 DEF Rec, LastGoes, Slots
  <2>2. \A s \in Slots : s # v => Rec(k, s) = NoRecord
    BY <1>2, <1>a DEF Rec, LastGoes, Slots
  <2>3. v \in Slots
    BY DEF Slots
  <2>4. QED
    BY <2>1, <2>2, <2>3 DEF SameData
<1>3. CASE OtherGoes(k, v)
  <2>1. Rec(k, v)' = NoRecord
    BY <1>3, <1>a DEF Rec, OtherGoes
  <2>2. \A s \in Slots : s # v => Rec(k, s)' = Rec(k, s)
    BY <1>3, <1>a DEF Rec, OtherGoes, Slots
  <2>3. QED
    BY <2>1, <2>2 DEF SameData
<1>4. QED
  BY <1>1, <1>2, <1>3, DeleteMeta

\* A versioned write, seen from the slots of its key.
LEMMA AddSlots ==
    ASSUME TypeInv, NEW k \in Keys, Tells(k), NEW rec \in Record, rec.vid \in VersionIDs,
           PutObjectMeta(k, rec), pointer[k] # NoRecord => pointer[k].vid # Unversioned
    PROVE  /\ Rec(k, rec.vid)' = rec
           /\ \A s \in Slots : s # rec.vid => SameData(Rec(k, s)', Rec(k, s))
<1>a. Unversioned \notin VersionIDs /\ rec.vid # Unversioned
  BY Facts
<1>1. pointer'[k] = rec
  BY PutMeta
<1>2. versions'[k][rec.vid] = rec
  BY <1>a, PutMeta
<1>3. Rec(k, rec.vid)' = rec
  BY <1>2, <1>a DEF Rec
<1>4. ASSUME NEW v \in VersionIDs, v # rec.vid PROVE SameData(Rec(k, v)', Rec(k, v))
  <2>1. SameData(versions'[k][v], versions[k][v])
    BY <1>a, <1>4, PutSlots
  <2>2. Rec(k, v)' = versions'[k][v] /\ Rec(k, v) = versions[k][v]
    BY <1>a DEF Rec
  <2>3. QED
    BY <2>1, <2>2
<1>5. SameData(Rec(k, Unversioned)', Rec(k, Unversioned))
  <2>1. Rec(k, Unversioned)' = NoRecord
    BY <1>1, <1>a DEF Rec
  <2>2. Rec(k, Unversioned) = NoRecord
    BY DEF Rec
  <2>3. QED
    BY <2>1, <2>2 DEF SameData
<1>6. QED
  BY <1>3, <1>4, <1>5 DEF Slots

\* An unversioned write leaves nothing but itself.
LEMMA ReplaceSlots ==
    ASSUME TypeInv, NEW k \in Keys, NEW rec \in Record, rec.vid = Unversioned, PutObjectMeta(k, rec)
    PROVE  \A s \in Slots : Rec(k, s)' = IF s = Unversioned THEN rec ELSE NoRecord
<1>1. pointer'[k] = rec /\ rec # NoRecord /\ \A v \in VersionIDs : versions'[k][v] = NoRecord
  BY PutMeta, IdAssumption
<1>2. QED
  BY <1>1 DEF Rec, Slots

\* Promotion moves the unversioned object to version "null".
LEMMA RaiseSlots ==
    ASSUME TypeInv, NEW k \in Keys, Tells(k), pointer[k] # NoRecord, pointer[k].vid = Unversioned,
           NEW rec \in Record, rec.vid = NullVersion, PutObjectMetaRaw(k, rec)
    PROVE  \A s \in Slots : /\ Rec(k, s)' = IF s = NullVersion THEN rec ELSE NoRecord
                            /\ Rec(k, s) = IF s = Unversioned THEN pointer[k] ELSE NoRecord
<1>1. /\ pointer'[k] = rec
      /\ \A v \in VersionIDs : versions'[k][v] = IF v = NullVersion THEN rec ELSE versions[k][v]
  BY RawMeta
<1>2. \A v \in VersionIDs : versions[k][v] = NoRecord
  BY DEF Tells
<1>3. Unversioned # NullVersion /\ Unversioned \notin VersionIDs
  BY Facts
<1>4. QED
  BY <1>1, <1>2, <1>3 DEF Rec, Slots

-----------------------------------------------------------------------------
(***************************************************************************)
(* The rules every step of a handler obeys: who may write a file, take it  *)
(* and give it up, and where the references of a record come from.  Any    *)
(* step that obeys them keeps the invariants about records and files.      *)
(***************************************************************************)
\* A reference that was there before, and one to data p has just written.
Kept(k, s, path) == \E t \in Slots : Refers(k, t, path) /\ Rec(k, s)'.etag = Rec(k, t).etag
Published(p, k, s, path) ==
    /\ k = op[p].key /\ path \in Blobs
    /\ Owns(p, path) /\ ~Owns(p, path)'
    /\ data'[path] = Rec(k, s)'.etag /\ data'[path] # Absent /\ path \notin unsynced'

Refers1(p) ==
    \A k \in Keys, s \in Slots, path \in Paths : Refers(k, s, path)' =>
        /\ Kept(k, s, path) \/ Published(p, k, s, path)
        /\ path \in Keys => s = Unversioned
Refers2(p) ==
    \A k \in Keys, s \in Slots, path \in Paths : Refers(k, s, path) =>
        (\E t \in Slots : Refers(k, t, path)') \/ Owns(p, path)'
Refers3 ==
    \A k \in Keys, s, t \in Slots, path \in Paths :
        Refers(k, s, path)' /\ Refers(k, t, path)' => s = t
Moves(p) ==
    /\ Refers1(p) /\ Refers2(p) /\ Refers3
    /\ \A k \in Keys, u \in Uuids : versions'[k][u] # NoRecord => versions[k][u] # NoRecord \/ u \in spent

\* p already had the path, allocated it, or replaced or deleted what was there.
Frees(p, path) ==
    /\ \E k \in Keys, s \in Slots : Refers(k, s, path) /\ \A t \in Slots : ~Refers(k, t, path)'
    /\ path \in Keys => path = op'[p].key
Takes(p) ==
    \A path \in Paths : Owns(p, path)' =>
        \/ Owns(p, path) /\ op'[p].key = op[p].key
        \/ path \in Blobs \ spent /\ path \in spent'
        \/ Frees(p, path)

Drops(p) ==
    \A path \in Paths : Owns(p, path) /\ ~Owns(p, path)' =>
        data'[path] = Absent \/ disturbed' \/ \E k \in Keys, s \in Slots : Refers(k, s, path)'

Writes(p) ==
    \A path \in Paths : data'[path] # data[path] =>
        /\ Owns(p, path) \/ (path \in Blobs \ spent /\ Owns(p, path)')
        /\ data'[path] = Absent \/ path \in Blobs
        /\ data'[path] = Absent \/ path \notin spent
             \/ (op[p].kind = "put" /\ pc[p] \in Unpublished /\ path = op[p].blob)

Grows(p) ==
    /\ spent \subseteq spent' /\ (disturbed => disturbed')
    /\ \A path \in Paths : path \in unsynced' => path \in unsynced \/ Owns(p, path)'

Proper(p) == Moves(p) /\ Takes(p) /\ Drops(p) /\ Writes(p) /\ Grows(p)

LEMMA OwnsFrame ==
    ASSUME Control, NEW p \in Procs, Handler(p), NEW q \in Procs \ {p}
    PROVE  \A path : Owns(q, path)' <=> Owns(q, path)
<1>1. pc'[q] = pc[q] /\ op'[q] = op[q]
  BY Frame
<1>2. QED
  BY <1>1 DEF Owns

LEMMA BlobPath == \A path \in Paths : path \in Blobs \/ path \in Keys
BY DEF Paths

LEMMA OwnNext ==
    ASSUME Control, DataInv, NEW p \in Procs, Handler(p), Proper(p)
    PROVE  OwnInv'
<1>a. OwnInv /\ BackedInv /\ spent \subseteq spent' /\ TypeInv
  BY DEF DataInv, Proper, Grows, Control
<1>1. ASSUME NEW path \in Paths, Owns(p, path)'
      PROVE  /\ path \in Blobs => path \in spent'
             /\ path \in Keys => path = op'[p].key
             /\ \A q \in Procs \ {p} : ~Owns(q, path)
  <2>1. CASE Owns(p, path) /\ op'[p].key = op[p].key
    BY <1>a, <2>1 DEF OwnInv
  <2>2. CASE path \in Blobs \ spent /\ path \in spent'
    BY <1>a, <2>2, IdAssumption DEF OwnInv
  <2>3. CASE Frees(p, path)
    <3>1. PICK k \in Keys, s \in Slots : Refers(k, s, path)
      BY <2>3 DEF Frees
    <3>2. QED
      BY <1>a, <2>3, <3>1 DEF BackedInv, Frees
  <2>4. QED
    BY <1>1, <2>1, <2>2, <2>3 DEF Proper, Takes
<1>2. ASSUME NEW q \in Procs \ {p}, NEW path \in Paths, Owns(q, path)'
      PROVE  /\ path \in Blobs => path \in spent'
             /\ path \in Keys => path = op'[q].key
             /\ Owns(q, path)
  <2>1. Owns(q, path) /\ op'[q] = op[q]
    BY <1>2, OwnsFrame, Frame
  <2>2. QED
    BY <1>a, <2>1 DEF OwnInv
<1>3. ASSUME NEW q \in Procs, NEW r \in Procs, NEW path \in Paths, Owns(q, path)', Owns(r, path)'
      PROVE  q = r
  BY <1>a, <1>1, <1>2, <1>3 DEF OwnInv
<1>4. ASSUME NEW q \in Procs, NEW path \in Paths, Owns(q, path)'
      PROVE  /\ path \in Blobs => path \in spent'
             /\ path \in Keys => path = op'[q].key
  BY <1>1, <1>2, <1>4
<1>5. QED
  BY <1>3, <1>4 DEF OwnInv

\* A file a record refers to is not written and not taken.
LEMMA KeptData ==
    ASSUME Control, DataInv, NEW p \in Procs, Handler(p), Proper(p),
           NEW k \in Keys, NEW s \in Slots, NEW path \in Paths, Refers(k, s, path)
    PROVE  /\ data'[path] = data[path]
           /\ (\E t \in Slots : Refers(k, t, path)') =>
                 path \notin unsynced' /\ \A q \in Procs : ~Owns(q, path)'
<1>a. /\ path \in Blobs => path \in spent
      /\ path \notin unsynced /\ \A q \in Procs : ~Owns(q, path)
  BY DEF DataInv, BackedInv
<1>1. data'[path] = data[path]
  BY <1>a DEF Proper, Writes
<1>2. ASSUME NEW t \in Slots, Refers(k, t, path)' PROVE ~Owns(p, path)'
  <2>1. ASSUME NEW j \in Keys, NEW u \in Slots, Refers(j, u, path) PROVE j = k
    BY <2>1 DEF DataInv, UniqueInv
  <2>2. ~Frees(p, path)
    BY <1>2, <2>1 DEF Frees
  <2>3. QED
    BY <1>a, <2>2 DEF Proper, Takes
<1>3. QED
  BY <1>a, <1>1, <1>2, OwnsFrame DEF Proper, Grows

LEMMA BackedNext ==
    ASSUME Control, DataInv, NEW p \in Procs, Handler(p), Proper(p)
    PROVE  BackedInv'
<1>a. spent \subseteq spent' /\ OwnInv
  BY DEF Proper, Grows, DataInv
<1>1. ASSUME NEW k \in Keys, NEW s \in Slots, NEW path \in Paths, Refers(k, s, path)'
      PROVE  /\ data'[path] = Rec(k, s)'.etag /\ Rec(k, s)'.etag # Absent
             /\ path \in Blobs => path \in spent'
             /\ path \notin unsynced'
             /\ \A q \in Procs : ~Owns(q, path)'
  <2>1. ASSUME NEW t \in Slots, Refers(k, t, path), Rec(k, s)'.etag = Rec(k, t).etag
        PROVE  /\ data'[path] = Rec(k, s)'.etag /\ Rec(k, s)'.etag # Absent
               /\ path \in Blobs => path \in spent'
               /\ path \notin unsynced'
               /\ \A q \in Procs : ~Owns(q, path)'
    <3>1. data[path] = Rec(k, t).etag /\ Rec(k, t).etag # Absent /\ (path \in Blobs => path \in spent)
      BY <2>1 DEF DataInv, BackedInv
    <3>2. QED
      BY <1>1, <1>a, <2>1, <3>1, KeptData
  <2>2. CASE Published(p, k, s, path)
    <3>1. \A q \in Procs \ {p} : ~Owns(q, path)'
      BY <1>a, <2>2, OwnsFrame DEF Published, OwnInv
    <3>2. path \in spent
      BY <1>a, <2>2 DEF Published, OwnInv
    <3>3. QED
      BY <1>a, <2>2, <3>1, <3>2 DEF Published
  <2>3. Kept(k, s, path) \/ Published(p, k, s, path)
    BY <1>1 DEF Proper, Moves, Refers1
  <2>4. QED
    BY <2>1, <2>2, <2>3 DEF Kept
<1>2. \A k \in Keys, s \in Slots, path \in Paths : Refers(k, s, path)' => (path \in Keys => s = Unversioned)
  BY DEF Proper, Moves, Refers1
<1>3. QED
  BY <1>1, <1>2 DEF BackedInv

LEMMA UniqueNext ==
    ASSUME Control, DataInv, NEW p \in Procs, Handler(p), Proper(p)
    PROVE  UniqueInv'
<1> SUFFICES ASSUME NEW j \in Keys, NEW k \in Keys, NEW s \in Slots, NEW t \in Slots,
                    NEW path \in Paths, Refers(k, s, path)', Refers(j, t, path)'
             PROVE  k = j /\ s = t
  BY DEF UniqueInv
<1>1. Kept(k, s, path) \/ Published(p, k, s, path)
  BY DEF Proper, Moves, Refers1
<1>2. Kept(j, t, path) \/ Published(p, j, t, path)
  BY DEF Proper, Moves, Refers1
<1>3. ASSUME NEW i \in Keys, NEW u \in Slots, Refers(i, u, path) PROVE ~Owns(p, path)
  BY <1>3 DEF DataInv, BackedInv
<1>4. ASSUME Kept(k, s, path) /\ Kept(j, t, path) PROVE k = j
  BY <1>4 DEF Kept, DataInv, UniqueInv
<1>5. ASSUME Published(p, k, s, path) /\ Published(p, j, t, path) PROVE k = j
  BY <1>5 DEF Published
<1>6. k = j
  BY <1>1, <1>2, <1>3, <1>4, <1>5 DEF Kept, Published
<1>7. QED
  BY <1>6 DEF Proper, Moves, Refers3

LEMMA KeptNext ==
    ASSUME Control, DataInv, NEW p \in Procs, Handler(p), Proper(p)
    PROVE  KeptInv'
<1> SUFFICES ASSUME ~disturbed', NEW path \in Paths, data'[path] # Absent
             PROVE  \/ \E k \in Keys, s \in Slots : Refers(k, s, path)'
                    \/ \E q \in Procs : Owns(q, path)'
  BY DEF KeptInv
<1>1. CASE Owns(p, path)
  BY <1>1 DEF Proper, Drops
<1>2. CASE data'[path] # data[path]
  BY <1>1, <1>2 DEF Proper, Writes
<1>3. CASE data'[path] = data[path] /\ ~Owns(p, path)
  <2>1. \/ \E k \in Keys, s \in Slots : Refers(k, s, path)
        \/ \E q \in Procs : Owns(q, path)
    BY <1>3 DEF DataInv, KeptInv, Proper, Grows
  <2>2. CASE \E k \in Keys, s \in Slots : Refers(k, s, path)
    BY <2>2 DEF Proper, Moves, Refers2
  <2>3. ASSUME NEW q \in Procs, Owns(q, path) PROVE Owns(q, path)'
    BY <1>3, <2>3, OwnsFrame
  <2>4. QED
    BY <2>1, <2>2, <2>3
<1>4. QED
  BY <1>1, <1>2, <1>3

LEMMA FileNext ==
    ASSUME Control, DataInv, NEW p \in Procs, Handler(p), Proper(p)
    PROVE  FileInv'
<1>a. FileInv /\ OwnInv /\ spent \subseteq spent' /\ OwnInv'
  BY OwnNext DEF DataInv, Proper, Grows
<1>1. ASSUME NEW b \in Blobs \ spent' PROVE data'[b] = Absent
  <2>1. b \in Paths /\ b \notin spent /\ data[b] = Absent
    BY <1>a, <1>1 DEF Paths, FileInv
  <2>2. ~Owns(p, b) /\ ~Owns(p, b)'
    BY <1>a, <1>1, <2>1 DEF OwnInv
  <2>3. QED
    BY <2>1, <2>2 DEF Proper, Writes
<1>2. ASSUME NEW k \in Keys PROVE data'[k] \in {k, Absent}
  <2>1. k \in Paths /\ k \notin Blobs /\ data[k] \in {k, Absent}
    BY <1>a, IdAssumption DEF Paths, FileInv
  <2>2. QED
    BY <2>1 DEF Proper, Writes
<1>3. ASSUME NEW k \in Keys, NEW u \in Uuids, versions'[k][u] # NoRecord PROVE u \in spent'
  BY <1>3, <1>a DEF Proper, Moves, FileInv
<1>4. QED
  BY <1>1, <1>2, <1>3 DEF FileInv

\* What no step of a request under way changes of its locals.
LEMMA StepLocals ==
    ASSUME TypeInv, NEW p \in Procs, Step(p), ~Ends(p)
    PROVE  /\ op'[p].kind = op[p].kind /\ op'[p].key = op[p].key /\ op'[p].blob = op[p].blob
           /\ op'[p].etag = op[p].etag /\ op[p].key \in Keys
           /\ pc[p] \notin {"idle", "opening"} /\ pc'[p] \notin {"idle", "opening"}
           /\ pc[p] = "cleanup" => pc'[p] = "cleanup"
           /\ pc[p] = "waiting" => op[p].kind # "put"
<1>a. op[p] \in Op /\ Shape(pc[p], op[p])
  BY Facts
<1>1. \E at, v, m, c, t, g : Becomes(p, at, v, m, c, t, g) /\ at \notin {"idle", "opening"}
  <2>1. CASE lockObjectKey(p)
    BY <2>1, AdvanceFacts DEF Advances
  <2>2. CASE syncParents(p) \/ PutCommit(p) \/ PromoteSkip(p) \/ PromoteRaw(p) \/ PromoteRecord(p)
             \/ DeleteCommit(p)
    BY <2>2, AdvanceFacts DEF Advances
  <2>3. CASE PutJoin(p)
    <3>1. PICK v : Becomes(p, "prepare", v, op[p].mode, op[p].copy, clock, op[p].gone)
      BY <2>3, PutJoinMoves
    <3>2. QED
      BY <3>1
  <2>4. CASE PutRename(p)
    BY <2>4, PutRenameMoves
  <2>5. CASE PromoteCopy(p)
    BY <2>5, PromoteCopyMoves
  <2>6. CASE PromoteDrop(p)
    BY <2>6, PromoteDropMoves
  <2>7. CASE DeleteMode(p)
    <3>1. PICK m, v : Becomes(p, "prepare", v, m, op[p].copy, op[p].mod, op[p].gone)
      BY <2>7, DeleteModeMoves
    <3>2. QED
      BY <3>1
  <2>8. CASE DeleteCollect(p)
    BY <2>8, DeleteCollectMoves
  <2>9. CASE removeData(p)
    <3>1. PICK path : Becomes(p, "cleanup", op[p].vid, op[p].mode, op[p].copy, op[p].mod, op[p].gone \ {path})
      BY <2>9, RemoveDataMoves
    <3>2. QED
      BY <3>1
  <2>10. CASE ExpireCheck(p)
    BY <2>10, ExpireCheckMoves
  <2>11. QED
    BY <2>1, <2>2, <2>3, <2>4, <2>5, <2>6, <2>7, <2>8, <2>9, <2>10 DEF Step, Ends
<1>2. /\ op'[p].kind = op[p].kind /\ op'[p].key = op[p].key /\ op'[p].blob = op[p].blob
      /\ op'[p].etag = op[p].etag /\ pc'[p] \notin {"idle", "opening"}
  BY <1>1 DEF Becomes
<1>3. pc[p] \notin {"idle", "opening"} /\ (pc[p] = "cleanup" => removeData(p))
  BY <1>a DEF Step, Ends, lockObjectKey, PutJoin, PutRename, syncParents, PutCommit, PromoteSkip,
     PromoteRaw, PromoteCopy, PromoteRecord, PromoteDrop, DeleteMode, DeleteCollect, DeleteCommit,
     removeData, ExpireCheck
<1>4. removeData(p) => pc'[p] = "cleanup"
  BY RemoveDataMoves DEF Becomes
<1>5. QED
  BY <1>a, <1>2, <1>3, <1>4 DEF Shape

\* A PUT keeps the blob it was given, which nobody had before.
LEMMA PutBlob ==
    ASSUME TypeInv, NEW p \in Procs, Handler(p), op'[p].kind = "put", pc'[p] \in Unpublished
    PROVE  \/ op[p].kind = "put" /\ pc[p] \in Unpublished /\ op'[p].blob = op[p].blob
           \/ op'[p].blob \in Blobs \ spent
<1>1. CASE Begin(p)
  <2>1. PICK k \in Keys : BeginsAny(p, k)
    BY <1>1, BeginFacts
  <2>2. pc'[p] = "written"
    BY <1>1, BeginLocals
  <2>3. PICK b \in Blobs : BeginsPut(p, k, b)
    BY <2>1, <2>2 DEF BeginsAny, BeginsDelete, BeginsGet, BeginsCurrent, BeginsNoncurrent
  <2>4. op'[p].blob = b /\ b \in Blobs \ spent
    BY <2>3 DEF BeginsPut, Idle
  <2>5. QED
    BY <2>4
<1>2. CASE Ends(p)
  BY <1>2, EndFacts DEF Unpublished
<1>3. CASE Step(p) /\ ~Ends(p)
  <2>1. /\ op'[p].kind = op[p].kind /\ op'[p].blob = op[p].blob
        /\ pc[p] \notin {"idle", "opening"} /\ (pc[p] = "cleanup" => pc'[p] = "cleanup")
        /\ pc[p] = "waiting" => op[p].kind # "put"
    BY <1>3, StepLocals
  <2>2. pc[p] \in PCs /\ Shape(pc[p], op[p])
    BY Facts
  <2>3. pc[p] \in Unpublished
    BY <2>1, <2>2 DEF PCs, Unpublished, Shape
  <2>4. QED
    BY <2>1, <2>3
<1>4. QED
  BY <1>1, <1>2, <1>3 DEF Handler, Ends

LEMMA ReadNext ==
    ASSUME Control, MetaInv, DataInv, NEW p \in Procs, Handler(p), Proper(p)
    PROVE  ReadInv'
<1>a. ReadInv /\ TypeInv /\ spent \subseteq spent' /\ OwnInv /\ BackedInv /\ FileInv /\ LatestAgrees
  BY DEF DataInv, Proper, Grows, Control, MetaInv
<1>1. ASSUME NEW path \in Blobs, path \in spent,
             \A r \in Procs : op[r].kind = "put" /\ pc[r] \in Unpublished => op[r].blob # path
      PROVE  /\ data'[path] \in {data[path], Absent} /\ path \in spent'
             /\ \A r \in Procs : op'[r].kind = "put" /\ pc'[r] \in Unpublished => op'[r].blob # path
  <2>1. path \in Paths
    BY DEF Paths
  <2>2. data'[path] \in {data[path], Absent}
    BY <1>1, <2>1 DEF Proper, Writes
  <2>3. ASSUME NEW r \in Procs, op'[r].kind = "put", pc'[r] \in Unpublished PROVE op'[r].blob # path
    <3>1. CASE r = p
      BY <1>1, <1>a, <2>3, <3>1, PutBlob
    <3>2. CASE r # p
      BY <1>1, <2>3, <3>2, Frame
    <3>3. QED
      BY <3>1, <3>2
  <2>4. QED
    BY <1>1, <1>a, <2>2, <2>3
<1>2. ASSUME NEW path \in Keys PROVE data'[path] \in {data[path], Absent} /\ path \in Paths /\ path \notin Blobs
  <2>1. path \in Paths /\ path \notin Blobs
    BY IdAssumption DEF Paths
  <2>2. QED
    BY <2>1 DEF Proper, Writes
<1>3. ASSUME NEW q \in Procs \ {p}, pc'[q] = "opening"
      PROVE  /\ data'[op'[q].blob] \in {op'[q].etag, Absent}
             /\ op'[q].blob \in Keys => op'[q].etag = op'[q].blob
             /\ op'[q].blob \in Blobs =>
                  /\ op'[q].blob \in spent'
                  /\ \A r \in Procs : op'[r].kind = "put" /\ pc'[r] \in Unpublished => op'[r].blob # op'[q].blob
  <2>1. pc[q] = "opening" /\ op'[q] = op[q]
    BY <1>3, Frame
  <2>2. PICK path \in Paths : path = op[q].blob
    BY <1>a, <2>1, Facts DEF Shape
  <2>3. /\ data[path] \in {op[q].etag, Absent} /\ (path \in Keys => op[q].etag = path)
        /\ path \in Blobs =>
             /\ path \in spent
             /\ \A r \in Procs : op[r].kind = "put" /\ pc[r] \in Unpublished => op[r].blob # path
    BY <1>a, <2>1, <2>2 DEF ReadInv
  <2>4. CASE path \in Blobs
    <3>1. /\ data'[path] \in {data[path], Absent} /\ path \in spent'
          /\ \A r \in Procs : op'[r].kind = "put" /\ pc'[r] \in Unpublished => op'[r].blob # path
      BY <1>1, <2>3, <2>4
    <3>2. QED
      BY <2>1, <2>2, <2>3, <3>1
  <2>5. CASE path \in Keys
    BY <1>2, <2>1, <2>2, <2>3, <2>5
  <2>6. QED
    BY <2>4, <2>5 DEF Paths
<1>4. ASSUME pc'[p] = "opening"
      PROVE  /\ data'[op'[p].blob] \in {op'[p].etag, Absent}
             /\ op'[p].blob \in Keys => op'[p].etag = op'[p].blob
             /\ op'[p].blob \in Blobs =>
                  /\ op'[p].blob \in spent'
                  /\ \A r \in Procs : op'[r].kind = "put" /\ pc'[r] \in Unpublished => op'[r].blob # op'[p].blob
  <2>1. Begin(p)
    BY <1>4, <1>a, EndFacts, StepLocals DEF Handler, Ends
  <2>2. PICK k \in Keys : BeginsAny(p, k)
    BY <1>a, <2>1, BeginFacts
  <2>a. PICK v \in VersionIDs \cup {Unversioned} : \E rec : BeginsGet(p, k, v, rec)
    BY <1>4, <2>2 DEF BeginsAny, BeginsPut, BeginsDelete, BeginsCurrent, BeginsNoncurrent
  <2>3. PICK rec : BeginsGet(p, k, v, rec)
    BY <2>a
  <2>4. /\ rec = GetObjectMeta(k, v) /\ rec # NoRecord /\ ~rec.marker
        /\ op'[p].blob = dataPath(k, rec) /\ op'[p].etag = rec.etag
    BY <2>3 DEF BeginsGet, Idle
  <2>5. rec \in GetObjectVersions(k)
    BY <2>4, Facts, <1>a DEF GetObjectMeta, GetObjectVersions
  <2>6. Tells(k)
    BY <1>a, TellsAgrees
  <2>7. PICK s \in Slots : rec = Rec(k, s)
    BY <1>a, <2>5, <2>6, SlotOf
  <2>8. PICK path \in Paths : path = dataPath(k, rec) /\ Refers(k, s, path)
    BY <1>a, <2>4, <2>7, RefersFacts DEF Refers
  <2>9. /\ data[path] = rec.etag /\ rec.etag # Absent /\ (path \in Blobs => path \in spent)
        /\ \A q \in Procs : ~Owns(q, path)
    BY <1>a, <2>7, <2>8 DEF BackedInv
  <2>10. CASE path \in Keys
    BY <1>2, <1>a, <2>4, <2>8, <2>9, <2>10 DEF FileInv
  <2>11. CASE path \in Blobs
    <3>1. \A r \in Procs : op[r].kind = "put" /\ pc[r] \in Unpublished => op[r].blob # path
      BY <2>9 DEF Owns
    <3>2. /\ data'[path] \in {data[path], Absent} /\ path \in spent'
          /\ \A r \in Procs : op'[r].kind = "put" /\ pc'[r] \in Unpublished => op'[r].blob # path
      BY <1>1, <2>9, <2>11, <3>1
    <3>3. path \notin Keys
      BY <2>11, IdAssumption
    <3>4. QED
      BY <2>4, <2>8, <2>9, <3>2, <3>3
  <2>12. QED
    BY <2>10, <2>11 DEF Paths
<1>5. QED
  BY <1>3, <1>4 DEF ReadInv

\* Nobody else writes a path that q owns.
LEMMA OwnedData ==
    ASSUME Control, DataInv, NEW p \in Procs, Handler(p), Proper(p), NEW q \in Procs \ {p},
           NEW path \in Paths, Owns(q, path)
    PROVE  data'[path] = data[path] /\ (path \in unsynced' => path \in unsynced)
<1>1. ~Owns(p, path) /\ (path \in Blobs => path \in spent)
  BY DEF DataInv, OwnInv
<1>2. ~Owns(p, path)'
  <2>1. OwnInv' /\ Owns(q, path)'
    BY OwnNext, OwnsFrame
  <2>2. QED
    BY <2>1 DEF OwnInv
<1>3. QED
  BY <1>1, <1>2 DEF Proper, Writes, Grows

LEMMA DoomedFrame ==
    ASSUME NEW k, NEW o, pointer'[k] = pointer[k], versions'[k] = versions[k]
    PROVE  Doomed(k, o)' = Doomed(k, o)
<1>1. GetObjectVersions(k)' = GetObjectVersions(k)
  BY DEF GetObjectVersions
<1>2. storedRecord(k, o.vid)' = storedRecord(k, o.vid)
  BY DEF storedRecord, GetObjectMeta
<1>3. QED
  BY <1>1, <1>2 DEF Doomed

LEMMA TracksOthers ==
    ASSUME Control, MetaInv, DataInv, NEW p \in Procs, Handler(p), Proper(p), NEW q \in Procs \ {p}
    PROVE  Tracks(q)'
<1>a. /\ TypeInv /\ Tracks(q) /\ spent \subseteq spent'
      /\ op[q] \in Op /\ pc[q] \in PCs /\ Shape(pc[q], op[q])
  BY Facts DEF Control, DataInv, Proper, Grows
<1>1. /\ pc'[q] = pc[q] /\ op'[q] = op[q]
      /\ pc[q] \in Holding =>
            /\ op[q].key \in Keys
            /\ pointer'[op[q].key] = pointer[op[q].key] /\ versions'[op[q].key] = versions[op[q].key]
  BY Frame
<1>b. Blobs \subseteq Paths
  BY DEF Paths
<1>2. ASSUME op[q].kind = "put", pc[q] \in Unpublished
      PROVE  data'[op[q].blob] = data[op[q].blob]
  <2>1. op[q].blob \in Paths /\ Owns(q, op[q].blob)
    BY <1>2, <1>a, <1>b DEF Owns, Shape
  <2>2. QED
    BY <2>1, OwnedData
<1>3. ASSUME pc[q] = "synced" PROVE op[q].blob \notin unsynced'
  <2>1. op[q].blob \in Paths /\ Owns(q, op[q].blob)
    BY <1>3, <1>a, <1>b DEF Owns, Shape, Unpublished
  <2>2. op[q].blob \notin unsynced
    BY <1>3, <1>a DEF Tracks
  <2>3. QED
    BY <2>1, <2>2, OwnedData
<1>4. ASSUME pc[q] \in {"copied", "copySynced"}
      PROVE  /\ data'[op[q].copy] = pointer'[op[q].key].etag
             /\ pc[q] = "copySynced" => op[q].copy \notin unsynced'
             /\ op[q].kind = "put" => op[q].copy # op[q].blob
  <2>1. op[q].copy \in Paths /\ Owns(q, op[q].copy)
    BY <1>4, <1>a, <1>b DEF Owns, Shape
  <2>2. /\ data[op[q].copy] = pointer[op[q].key].etag
        /\ pc[q] = "copySynced" => op[q].copy \notin unsynced
        /\ op[q].kind = "put" => op[q].copy # op[q].blob
    BY <1>4, <1>a DEF Tracks
  <2>3. pointer'[op[q].key] = pointer[op[q].key]
    BY <1>1, <1>4 DEF Holding, PCs
  <2>4. QED
    BY <2>1, <2>2, <2>3, OwnedData
<1>5. ASSUME pc[q] = "recorded" PROVE Rec(op[q].key, Unversioned)' = NoRecord
  <2>1. PICK k : k = op[q].key /\ k = op'[q].key
    BY <1>1
  <2>2. Rec(k, Unversioned) = NoRecord
    BY <1>5, <1>a, <2>1 DEF Tracks
  <2>3. pointer'[k] = pointer[k] /\ versions'[k] = versions[k]
    BY <1>1, <1>5, <2>1 DEF Holding, PCs
  <2>4. Rec(k, Unversioned)' = NoRecord
    BY <2>2, <2>3, FrameRefers
  <2>5. QED
    BY <2>1, <2>4
<1>6. ASSUME pc[q] \in {"renamed", "synced", "ready"} PROVE op[q].gone = Doomed(op[q].key, op[q])'
  <2>1. PICK k, o : k = op[q].key /\ k = op'[q].key /\ o = op[q] /\ o = op'[q]
    BY <1>1
  <2>2. op[q].gone = Doomed(k, o)
    BY <1>6, <1>a, <2>1 DEF Tracks
  <2>3. pointer'[k] = pointer[k] /\ versions'[k] = versions[k]
    BY <1>1, <1>6, <2>1 DEF Holding, PCs
  <2>4. Doomed(k, o)' = Doomed(k, o)
    BY <2>3, DoomedFrame
  <2>5. QED
    BY <2>1, <2>2, <2>4
<1>7. ASSUME Adds(pc[q], op[q]), op[q].vid \in Uuids
      PROVE  op[q].vid \in spent' /\ versions'[op[q].key][op[q].vid] = NoRecord
  <2>1. op[q].vid \in spent /\ versions[op[q].key][op[q].vid] = NoRecord
    BY <1>7, <1>a DEF Tracks
  <2>2. pc[q] \in Holding
    BY <1>7 DEF Adds, Committing, Holding, PCs
  <2>3. QED
    BY <1>a, <1>1, <2>1, <2>2
<1>c. /\ op[q].kind = "put" /\ pc[q] \in Unpublished =>
           data[op[q].blob] = IF pc[q] \in {"renamed", "synced"} THEN op[q].blob ELSE Absent
  BY <1>a DEF Tracks
<1>8. QED
  BY <1>1, <1>2, <1>3, <1>4, <1>5, <1>6, <1>7, <1>c DEF Tracks

(***************************************************************************)
(* Steps that leave the metadata alone.                                    *)
(***************************************************************************)
LEMMA QuietMoves ==
    ASSUME DataInv, NEW p \in Procs, UNCHANGED <<pointer, versions>>
    PROVE  Moves(p)
<1>1. \A k \in Keys, s \in Slots : /\ Rec(k, s)' = Rec(k, s)
                                   /\ \A path : Refers(k, s, path)' <=> Refers(k, s, path)
  BY FrameRefers
<1>2. ASSUME NEW k \in Keys, NEW s \in Slots, NEW path \in Paths, Refers(k, s, path)'
      PROVE  Kept(k, s, path) /\ (path \in Keys => s = Unversioned)
  <2>1. Refers(k, s, path) /\ Rec(k, s)'.etag = Rec(k, s).etag
    BY <1>1, <1>2
  <2>2. QED
    BY <2>1 DEF Kept, DataInv, BackedInv
<1>3. Refers1(p)
  BY <1>2 DEF Refers1
<1>4. Refers2(p)
  BY <1>1 DEF Refers2
<1>5. Refers3
  BY <1>1 DEF Refers3, DataInv, UniqueInv
<1>6. QED
  BY <1>3, <1>4, <1>5 DEF Moves

\* A step that owns what it owned and touches no file but to fsync it.
LEMMA SameProper ==
    ASSUME DataInv, NEW p \in Procs,
           UNCHANGED <<pointer, versions, data, disturbed>>, spent \subseteq spent', unsynced' \subseteq unsynced,
           op'[p].key = op[p].key, \A path \in Paths : Owns(p, path)' <=> Owns(p, path)
    PROVE  Proper(p)
<1>1. Moves(p)
  BY QuietMoves
<1>2. Takes(p) /\ Drops(p)
  BY DEF Takes, Drops
<1>3. Writes(p) /\ Grows(p)
  BY DEF Writes, Grows
<1>4. QED
  BY <1>1, <1>2, <1>3 DEF Proper

\* A request that has only begun, or ended, has nothing to keep track of.
LEMMA TracksNothing ==
    ASSUME NEW p \in Procs, pc'[p] \notin {"copied", "copySynced", "recorded", "renamed", "synced", "ready"},
           op'[p].kind = "put" => pc'[p] \notin Unpublished,
           ~Adds(pc'[p], op'[p])
    PROVE  Tracks(p)'
BY DEF Tracks, Unpublished

LEMMA BeginData ==
    ASSUME Control, DataInv, NEW p \in Procs, Begin(p)
    PROVE  Proper(p) /\ Tracks(p)'
<1>a. TypeInv /\ FileInv
  BY DEF Control, DataInv
<1>1. /\ pc[p] = "idle" /\ UNCHANGED <<pointer, versions, count, data, unsynced, disturbed>>
      /\ pc'[p] \in {"written", "waiting", "opening"}
      /\ op'[p].mode = "" /\ op'[p].gone = {} /\ op'[p].copy = NoBlob
      /\ op'[p].kind = "put" <=> pc'[p] = "written"
  BY <1>a, BeginFacts, BeginLocals
<1>2. PICK k \in Keys : BeginsAny(p, k)
  BY <1>a, BeginFacts
<1>3. \A path : ~Owns(p, path)
  BY <1>1 DEF Owns, Unpublished
<1>4. ~Adds(pc'[p], op'[p])
  BY <1>1 DEF Adds, Committing
<1>5. CASE pc'[p] = "written"
  <2>1. PICK b \in Blobs : BeginsPut(p, k, b)
    BY <1>2, <1>5 DEF BeginsAny, BeginsDelete, BeginsGet, BeginsCurrent, BeginsNoncurrent
  <2>2. op'[p].blob = b /\ b \in Blobs \ spent /\ spent' = spent \cup {b}
    BY <2>1 DEF BeginsPut, Idle
  <2>3. \A path : Owns(p, path)' <=> path = b
    BY <1>1, <1>5, <2>2 DEF Owns, Unpublished
  <2>4. Moves(p) /\ Takes(p) /\ Drops(p) /\ Writes(p) /\ Grows(p)
    <3>1. Moves(p)
      BY <1>1, QuietMoves
    <3>2. Takes(p)
      BY <2>2, <2>3 DEF Takes
    <3>3. Drops(p) /\ Writes(p) /\ Grows(p)
      BY <1>1, <1>3, <2>2 DEF Drops, Writes, Grows
    <3>4. QED
      BY <3>1, <3>2, <3>3
  <2>5. Tracks(p)'
    <3>1. data'[b] = Absent
      BY <1>a, <1>1, <2>2 DEF FileInv
    <3>2. QED
      BY <1>4, <1>5, <2>2, <3>1 DEF Tracks
  <2>6. QED
    BY <2>4, <2>5 DEF Proper
<1>6. CASE pc'[p] # "written"
  <2>1. \A path : ~Owns(p, path)'
    BY <1>1, <1>6 DEF Owns, Unpublished
  <2>2. spent \subseteq spent'
    BY <1>2 DEF BeginsAny, BeginsPut, BeginsDelete, BeginsGet, BeginsCurrent, BeginsNoncurrent
  <2>3. Moves(p)
    BY <1>1, QuietMoves
  <2>4. Takes(p) /\ Drops(p) /\ Writes(p) /\ Grows(p)
    BY <1>1, <1>3, <2>1, <2>2 DEF Takes, Drops, Writes, Grows
  <2>5. Tracks(p)'
    BY <1>1, <1>4, <1>6, TracksNothing
  <2>6. QED
    BY <2>3, <2>4, <2>5 DEF Proper
<1>7. QED
  BY <1>5, <1>6

LEMMA EndData ==
    ASSUME Control, DataInv, NEW p \in Procs, Ends(p)
    PROVE  Proper(p) /\ Tracks(p)'
<1>a. TypeInv /\ Tracks(p) /\ op[p] \in Op /\ Shape(pc[p], op[p]) /\ data \in [Paths -> Paths \cup {Absent}]
  BY Facts DEF Control, DataInv, TypeInv, TypeOK
<1>1. /\ pc'[p] = "idle" /\ op'[p] = Idle /\ UNCHANGED <<pointer, versions, spent>>
      /\ Idle.kind = "none" /\ Idle.mode = ""
  BY <1>a, EndFacts
<1>2. \A path : ~Owns(p, path)'
  BY <1>1 DEF Owns
<1>3. Tracks(p)'
  <2>1. ~Adds(pc'[p], op'[p])
    BY <1>1 DEF Adds
  <2>2. QED
    BY <1>1, <2>1, TracksNothing
<1>4. Moves(p) /\ Takes(p)
  BY <1>1, <1>2, QuietMoves DEF Takes
<1>5. CASE DeleteMissing(p) \/ Finish(p) \/ ExpireSkip(p) \/ GetOpen(p)
  <2>1. UNCHANGED <<data, unsynced, disturbed>>
    BY <1>5 DEF DeleteMissing, Finish, ExpireSkip, GetOpen, disk
  <2>2. \A path : ~Owns(p, path)
    BY <1>5, <1>a DEF DeleteMissing, Finish, ExpireSkip, GetOpen, Owns, Shape, Unpublished
  <2>3. Drops(p) /\ Writes(p) /\ Grows(p)
    BY <1>1, <2>1, <2>2 DEF Drops, Writes, Grows
  <2>4. QED
    BY <1>3, <1>4, <2>3 DEF Proper
<1>6. CASE Fail(p)
  <2>1. /\ pc[p] \notin {"idle", "cleanup", "recorded", "opening"}
        /\ disturbed' = (disturbed \/ pc[p] = "renamed")
        /\ unsynced' \subseteq unsynced
    BY <1>6 DEF Fail
  <2>2. CASE pc[p] = "synced"
    <3>1. op[p].kind = "put" /\ op[p].blob \in Paths /\ data' = [data EXCEPT ![op[p].blob] = Absent]
      BY <1>6, <1>a, <2>2 DEF Fail, Shape, Paths
    <3>2. \A path : Owns(p, path) <=> path = op[p].blob
      BY <2>2, <3>1 DEF Owns, Unpublished
    <3>3. \A path \in Paths : data'[path] = IF path = op[p].blob THEN Absent ELSE data[path]
      BY <1>a, <3>1
    <3>4. Drops(p) /\ Writes(p)
      BY <3>2, <3>3 DEF Drops, Writes
    <3>5. Grows(p)
      BY <1>1, <2>1 DEF Grows
    <3>6. QED
      BY <1>3, <1>4, <3>4, <3>5 DEF Proper
  <2>3. CASE pc[p] \in {"copied", "copySynced"}
    <3>1. op[p].copy \in Paths /\ data' = [data EXCEPT ![op[p].copy] = Absent]
      BY <1>6, <1>a, <2>3 DEF Fail, Shape, Paths
    <3>2. \A path : Owns(p, path) <=> path = op[p].copy \/ (op[p].kind = "put" /\ path = op[p].blob)
      BY <2>3 DEF Owns, Unpublished
    <3>3. \A path \in Paths : data'[path] = IF path = op[p].copy THEN Absent ELSE data[path]
      BY <1>a, <3>1
    <3>4. op[p].kind = "put" => data[op[p].blob] = Absent
      BY <1>a, <2>3 DEF Tracks, Unpublished
    <3>5. Drops(p) /\ Writes(p)
      BY <3>2, <3>3, <3>4 DEF Drops, Writes
    <3>6. Grows(p)
      BY <1>1, <2>1 DEF Grows
    <3>7. QED
      BY <1>3, <1>4, <3>5, <3>6 DEF Proper
  <2>4. CASE pc[p] \notin {"synced", "copied", "copySynced"}
    <3>1. data' = data
      BY <1>6, <2>4 DEF Fail
    <3>2. \A path : Owns(p, path) => op[p].kind = "put" /\ pc[p] \in Unpublished /\ path = op[p].blob
      BY <2>1, <2>4 DEF Owns
    <3>3. op[p].kind = "put" /\ pc[p] \in Unpublished => data[op[p].blob] = Absent \/ pc[p] = "renamed"
      BY <1>a, <2>4 DEF Tracks
    <3>4. Drops(p) /\ Writes(p) /\ Grows(p)
      BY <1>1, <2>1, <3>1, <3>2, <3>3 DEF Drops, Writes, Grows
    <3>5. QED
      BY <1>3, <1>4, <3>4 DEF Proper
  <2>5. QED
    BY <2>2, <2>3, <2>4
<1>7. QED
  BY <1>5, <1>6 DEF Ends

\* Which records a write or delete removes depends on three of its locals.
LEMMA DoomedLocals ==
    ASSUME NEW k, NEW o, NEW r, o.vid = r.vid, o.mode = r.mode, o.kind = r.kind
    PROVE  Doomed(k, o) = Doomed(k, r)
BY DEF Doomed

LEMMA JoinData ==
    ASSUME Control, DataInv, NEW p \in Procs, lockObjectKey(p) \/ PutJoin(p) \/ PromoteSkip(p)
    PROVE  Proper(p) /\ Tracks(p)'
<1>a. TypeInv /\ Tracks(p) /\ FileInv /\ op[p] \in Op /\ Shape(pc[p], op[p])
  BY Facts DEF Control, DataInv
<1>1. CASE lockObjectKey(p)
  <2>1. /\ pc[p] \in {"written", "waiting"} /\ Advances(p, "locked")
        /\ UNCHANGED <<pointer, versions, data, unsynced, disturbed, spent>>
    BY <1>1, <1>a, AdvanceFacts DEF lockObjectKey, meta, disk
  <2>2. /\ pc'[p] = "locked" /\ op'[p].kind = op[p].kind /\ op'[p].blob = op[p].blob
        /\ op'[p].key = op[p].key /\ op'[p].mode = op[p].mode /\ op[p].mode = ""
        /\ op[p].kind = "put" <=> pc[p] = "written"
    BY <1>a, <2>1 DEF Advances, Becomes, Shape
  <2>3. \A path : Owns(p, path)' <=> Owns(p, path)
    BY <2>1, <2>2 DEF Owns, Unpublished
  <2>4. Tracks(p)'
    BY <1>a, <2>1, <2>2 DEF Tracks, Unpublished, Adds, Committing
  <2>5. QED
    BY <2>1, <2>2, <2>3, <2>4, SameProper
<1>2. CASE PutJoin(p)
  <2>1. PICK v \in VersionIDs \cup {Unversioned} :
              /\ \/ status = "Enabled" /\ v \in Uuids \ spent
                 \/ status = "Suspended" /\ v = NullVersion
                 \/ status = "" /\ v = Unversioned
              /\ spent' = spent \cup (Uuids \cap {v})
              /\ Becomes(p, "prepare", v, op[p].mode, op[p].copy, clock, op[p].gone)
    BY <1>2, <1>a, PutJoinMoves
  <2>2. /\ pc[p] = "locked" /\ op[p].kind = "put" /\ op[p].mode = "" /\ op[p].key \in Keys
        /\ UNCHANGED <<pointer, versions, data, unsynced, disturbed>>
    BY <1>2, <1>a DEF PutJoin, meta, disk, Shape
  <2>3. /\ pc'[p] = "prepare" /\ op'[p].kind = "put" /\ op'[p].blob = op[p].blob
        /\ op'[p].key = op[p].key /\ op'[p].mode = "" /\ op'[p].vid = v
    BY <2>1, <2>2 DEF Becomes
  <2>4. \A path : Owns(p, path)' <=> Owns(p, path)
    BY <2>2, <2>3 DEF Owns, Unpublished
  <2>5. v \in Uuids => v \in spent' /\ versions[op[p].key][v] = NoRecord
    BY <1>a, <2>1, <2>2, IdAssumption DEF FileInv
  <2>6. Tracks(p)'
    BY <1>a, <2>2, <2>3, <2>5 DEF Tracks, Unpublished, Adds
  <2>7. spent \subseteq spent'
    BY <2>1
  <2>8. QED
    BY <2>2, <2>3, <2>4, <2>6, <2>7, SameProper
<1>3. CASE PromoteSkip(p)
  <2>1. /\ pc[p] = "prepare" /\ Advances(p, "promoted")
        /\ UNCHANGED <<pointer, versions, data, unsynced, disturbed, spent>>
    BY <1>3, <1>a, AdvanceFacts DEF PromoteSkip, meta, disk
  <2>2. /\ pc'[p] = "promoted" /\ op'[p].kind = op[p].kind /\ op'[p].blob = op[p].blob
        /\ op'[p].key = op[p].key /\ op'[p].mode = op[p].mode /\ op'[p].vid = op[p].vid
    BY <2>1 DEF Advances, Becomes
  <2>3. \A path : Owns(p, path)' <=> Owns(p, path)
    BY <2>1, <2>2 DEF Owns, Unpublished
  <2>4. Adds(pc'[p], op'[p]) => Adds(pc[p], op[p])
    BY <2>1, <2>2 DEF Adds, Committing, Holding, PCs
  <2>5. Tracks(p)'
    BY <1>a, <2>1, <2>2, <2>4 DEF Tracks, Unpublished
  <2>6. QED
    BY <2>1, <2>2, <2>3, <2>5, SameProper
<1>4. QED
  BY <1>1, <1>2, <1>3

LEMMA SyncData ==
    ASSUME Control, DataInv, NEW p \in Procs, syncParents(p)
    PROVE  Proper(p) /\ Tracks(p)'
<1>a. TypeInv /\ Tracks(p) /\ op[p] \in Op /\ Shape(pc[p], op[p])
  BY Facts DEF Control, DataInv
<1>1. UNCHANGED <<pointer, versions, data, disturbed, spent>> /\ op' = op
  BY DEF syncParents, meta
<1>2. \/ pc[p] = "renamed" /\ pc'[p] = "synced" /\ unsynced' = unsynced \ {op[p].blob}
      \/ pc[p] = "copied" /\ pc'[p] = "copySynced" /\ unsynced' = unsynced \ {op[p].copy}
  BY <1>a DEF syncParents, Go, TypeInv, TypeOK
<1>3. \A path : Owns(p, path)' <=> Owns(p, path)
  BY <1>1, <1>2 DEF Owns, Unpublished
<1>4. Adds(pc'[p], op'[p]) => Adds(pc[p], op[p])
  BY <1>1, <1>2 DEF Adds, Committing, Holding, PCs
<1>5. unsynced' \subseteq unsynced
  BY <1>2
<1>6. Doomed(op[p].key, op[p])' = Doomed(op[p].key, op[p])
  <2>1. PICK k, o : k = op[p].key /\ o = op[p] /\ k = op'[p].key /\ o = op'[p]
    BY <1>1
  <2>2. Doomed(k, o)' = Doomed(k, o)
    BY <1>1, DoomedFrame
  <2>3. QED
    BY <2>1, <2>2
<1>7. Tracks(p)'
  BY <1>a, <1>1, <1>2, <1>4, <1>6 DEF Tracks, Unpublished
<1>8. QED
  BY <1>1, <1>3, <1>5, <1>7, SameProper

LEMMA DeleteData ==
    ASSUME Control, DataInv, NEW p \in Procs, DeleteMode(p) \/ ExpireCheck(p)
    PROVE  Proper(p) /\ Tracks(p)'
<1>a. TypeInv /\ Tracks(p) /\ FileInv /\ op[p] \in Op /\ Shape(pc[p], op[p])
  BY Facts DEF Control, DataInv
<1>1. CASE DeleteMode(p)
  <2>1. PICK m \in {"version", "marker", "all"}, v \in VersionIDs \cup {Unversioned} :
              /\ Becomes(p, "prepare", v, m, op[p].copy, op[p].mod, op[p].gone)
              /\ m = "marker" => (v \in Uuids => v \notin spent) /\ spent' = spent \cup (Uuids \cap {v})
              /\ m # "marker" => spent' = spent
    BY <1>1, <1>a, DeleteModeMoves
  <2>2. /\ pc[p] \in {"locked", "checked"} /\ op[p].kind # "put" /\ op[p].key \in Keys
        /\ UNCHANGED <<pointer, versions, data, unsynced, disturbed>>
    BY <1>1, <1>a DEF DeleteMode, meta, disk, Shape
  <2>3. /\ pc'[p] = "prepare" /\ op'[p].kind # "put"
        /\ op'[p].key = op[p].key /\ op'[p].mode = m /\ op'[p].vid = v
    BY <2>1, <2>2 DEF Becomes
  <2>4. \A path : Owns(p, path)' <=> Owns(p, path)
    BY <2>2, <2>3 DEF Owns, Unpublished
  <2>5. m = "marker" /\ v \in Uuids => v \in spent' /\ versions[op[p].key][v] = NoRecord
    BY <1>a, <2>1, <2>2 DEF FileInv
  <2>6. Tracks(p)'
    BY <2>2, <2>3, <2>5 DEF Tracks, Adds
  <2>7. spent \subseteq spent'
    BY <2>1
  <2>8. QED
    BY <2>2, <2>3, <2>4, <2>6, <2>7, SameProper
<1>2. CASE ExpireCheck(p)
  <2>1. PICK v : /\ Becomes(p, "checked", v, op[p].mode, op[p].copy, op[p].mod, op[p].gone)
                 /\ op[p].kind \in {"expireCurrent", "expireNoncurrent"}
    BY <1>2, <1>a, ExpireCheckMoves
  <2>2. /\ pc[p] = "locked" /\ op[p].kind # "put" /\ op[p].mode = ""
        /\ UNCHANGED <<pointer, versions, data, unsynced, disturbed, spent>>
    BY <1>2, <1>a, <2>1 DEF ExpireCheck, meta, disk, Shape
  <2>3. /\ pc'[p] = "checked" /\ op'[p].kind # "put"
        /\ op'[p].key = op[p].key /\ op'[p].mode = ""
    BY <2>1, <2>2 DEF Becomes
  <2>4. \A path : Owns(p, path)' <=> Owns(p, path)
    BY <2>2, <2>3 DEF Owns, Unpublished
  <2>5. Tracks(p)'
    BY <2>2, <2>3 DEF Tracks, Adds
  <2>6. QED
    BY <2>2, <2>3, <2>4, <2>5, SameProper
<1>3. QED
  BY <1>1, <1>2

LEMMA CollectData ==
    ASSUME Control, MetaInv, DataInv, NEW p \in Procs, DeleteCollect(p)
    PROVE  Proper(p) /\ Tracks(p)'
<1>a. TypeInv /\ Tracks(p) /\ op[p] \in Op /\ Shape(pc[p], op[p])
  BY Facts DEF Control, DataInv
<1>1. /\ pc[p] = "promoted" /\ op[p].kind # "put" /\ op[p].key \in Keys /\ op[p].mode # ""
      /\ UNCHANGED <<pointer, versions, data, unsynced, disturbed, spent>>
  BY <1>a DEF DeleteCollect, meta, disk, Shape
<1>2. PICK g : Becomes(p, "ready", op[p].vid, op[p].mode, op[p].copy, clock, g)
  BY <1>a, DeleteCollectMoves
<1>3. PICK k \in Keys, o \in Op : k = op[p].key /\ o = op[p]
  BY <1>a, <1>1
<1>4. /\ pc'[p] = "ready" /\ op'[p].kind = o.kind /\ op'[p].key = k
      /\ op'[p].mode = o.mode /\ op'[p].vid = o.vid
  BY <1>2, <1>3 DEF Becomes
<1>5. op'[p].gone = DataOf(k, IF o.mode = "all" THEN GetObjectVersions(k) ELSE {storedRecord(k, o.vid)})
  <2>1. op \in [Procs -> Op]
    BY <1>a DEF TypeInv, TypeOK
  <2>2. op' = [op EXCEPT ![p].gone = DataOf(k, IF o.mode = "all" THEN GetObjectVersions(k)
                                               ELSE {storedRecord(k, o.vid)}), ![p].mod = clock]
    BY <1>3 DEF DeleteCollect
  <2>3. QED
    BY <2>1, <2>2 DEF Op
<1>6. Tells(k)
  BY <1>a, TellsAgrees DEF MetaInv
<1>7. \A path : path \in op'[p].gone <=> path \in Doomed(k, o)
  <2>1. TAKE path
  <2>2. o.vid \in Slots
    BY DEF Op, Slots
  <2>3. CASE o.mode = "all"
    BY <1>a, <1>5, <1>6, <2>3, DataOfSlots, DoomedSlots DEF Goes
  <2>4. CASE o.mode # "all"
    <3>1. path \in op'[p].gone <=> Refers(k, o.vid, path)
      BY <1>a, <1>5, <1>6, <2>2, <2>4, DataOfSlots
    <3>2. path \in Doomed(k, o) <=> \E s \in Goes(o) : Refers(k, s, path)
      BY <1>a, <1>6, DoomedSlots
    <3>3. CASE o.vid \in Uuids /\ o.mode # "version"
      <4>1. o.mode = "marker"
        BY <1>1, <1>3, <2>4, <3>3 DEF Op
      <4>2. versions[k][o.vid] = NoRecord
        BY <1>a, <1>1, <1>3, <3>3, <4>1 DEF Tracks, Adds, Holding, PCs
      <4>3. ~Refers(k, o.vid, path)
        BY <1>a, <3>3, <4>2, Facts DEF Refers, Rec
      <4>4. QED
        BY <1>1, <1>3, <2>4, <3>1, <3>2, <3>3, <4>3 DEF Goes
    <3>4. CASE ~(o.vid \in Uuids /\ o.mode # "version")
      BY <1>1, <1>3, <2>4, <3>1, <3>2, <3>4 DEF Goes
    <3>5. QED
      BY <3>3, <3>4
  <2>5. QED
    BY <2>3, <2>4
<1>8. op'[p].gone = Doomed(k, o)
  <2>1. \E A : op'[p].gone = DataOf(k, A)
    BY <1>5
  <2>2. QED
    BY <1>7, <2>1 DEF DataOf, Doomed
<1>9. Doomed(op[p].key, op[p])' = Doomed(k, o)
  <2>1. PICK r : r = op'[p]
    OBVIOUS
  <2>2. Doomed(k, r)' = Doomed(k, r)
    BY <1>1, DoomedFrame
  <2>3. Doomed(k, r) = Doomed(k, o)
    BY <1>4, <2>1, DoomedLocals
  <2>4. QED
    BY <1>4, <2>1, <2>2, <2>3
<1>10. \A path : Owns(p, path)' <=> Owns(p, path)
  BY <1>1, <1>3, <1>4 DEF Owns, Unpublished
<1>11. Adds(pc'[p], op'[p]) => Adds(pc[p], op[p])
  BY <1>1, <1>3, <1>4 DEF Adds, Committing, Holding, PCs
<1>12. Tracks(p)'
  BY <1>a, <1>1, <1>3, <1>4, <1>8, <1>9, <1>11 DEF Tracks
<1>13. QED
  BY <1>1, <1>3, <1>4, <1>10, <1>12, SameProper

(***************************************************************************)
(* Steps that write or remove a file.                                      *)
(***************************************************************************)
LEMMA RenameData ==
    ASSUME Control, DataInv, NEW p \in Procs, PutRename(p)
    PROVE  Proper(p) /\ Tracks(p)'
<1>a. /\ TypeInv /\ Tracks(p) /\ op[p] \in Op /\ Shape(pc[p], op[p])
      /\ data \in [Paths -> Paths \cup {Absent}]
  BY Facts DEF Control, DataInv, TypeInv, TypeOK
<1>1. /\ pc[p] = "promoted" /\ op[p].kind = "put" /\ op[p].key \in Keys /\ op[p].mode = ""
      /\ op[p].blob \in Blobs /\ op[p].blob \in Paths
      /\ UNCHANGED <<pointer, versions, disturbed, spent>>
      /\ data' = [data EXCEPT ![op[p].blob] = op[p].blob]
      /\ unsynced' = unsynced \cup {op[p].blob}
  BY <1>a DEF PutRename, meta, Shape, Paths
<1>2. Becomes(p, "renamed", op[p].vid, op[p].mode, op[p].copy, op[p].mod, Doomed(op[p].key, op[p]))
  BY <1>a, PutRenameMoves
<1>3. PICK k, o : k = op[p].key /\ o = op[p]
  OBVIOUS
<1>4. /\ pc'[p] = "renamed" /\ op'[p].kind = o.kind /\ op'[p].key = k /\ op'[p].blob = o.blob
      /\ op'[p].mode = o.mode /\ op'[p].vid = o.vid /\ op'[p].gone = Doomed(k, o)
  BY <1>2, <1>3 DEF Becomes
<1>5. \A path : /\ Owns(p, path)' <=> path = op[p].blob
                /\ Owns(p, path) <=> path = op[p].blob
  BY <1>1, <1>3, <1>4 DEF Owns, Unpublished
<1>6. \A path \in Paths : data'[path] = IF path = op[p].blob THEN op[p].blob ELSE data[path]
  BY <1>a, <1>1
<1>7. Proper(p)
  <2>1. Moves(p)
    BY <1>1, QuietMoves
  <2>2. Takes(p) /\ Drops(p)
    BY <1>3, <1>4, <1>5 DEF Takes, Drops
  <2>3. Writes(p)
    BY <1>1, <1>5, <1>6 DEF Writes, Unpublished
  <2>4. Grows(p)
    BY <1>1, <1>5 DEF Grows
  <2>5. QED
    BY <2>1, <2>2, <2>3, <2>4 DEF Proper
<1>8. Doomed(op[p].key, op[p])' = Doomed(k, o)
  <2>1. PICK r : r = op'[p]
    OBVIOUS
  <2>2. Doomed(k, r)' = Doomed(k, r)
    BY <1>1, DoomedFrame
  <2>3. Doomed(k, r) = Doomed(k, o)
    BY <1>4, <2>1, DoomedLocals
  <2>4. QED
    BY <1>4, <2>1, <2>2, <2>3
<1>9. Adds(pc'[p], op'[p]) => Adds(pc[p], op[p])
  BY <1>1, <1>3, <1>4 DEF Adds, Committing, Holding, PCs
<1>10. Tracks(p)'
  BY <1>a, <1>1, <1>3, <1>4, <1>6, <1>8, <1>9 DEF Tracks, Unpublished
<1>11. QED
  BY <1>7, <1>10

LEMMA CopyData ==
    ASSUME Control, MetaInv, DataInv, NEW p \in Procs, PromoteCopy(p)
    PROVE  Proper(p) /\ Tracks(p)'
<1>a. /\ TypeInv /\ Tracks(p) /\ op[p] \in Op /\ Shape(pc[p], op[p])
      /\ data \in [Paths -> Paths \cup {Absent}]
  BY Facts DEF Control, DataInv, TypeInv, TypeOK
<1>1. /\ pc[p] = "prepare" /\ op[p].key \in Keys /\ op[p].key \in Paths
      /\ pointer[op[p].key] # NoRecord /\ pointer[op[p].key].vid = Unversioned
      /\ ~pointer[op[p].key].marker /\ pointer[op[p].key].blob = NoBlob
      /\ UNCHANGED <<pointer, versions, disturbed>>
  BY <1>a DEF PromoteCopy, Promotes, meta, Shape, Paths
<1>2. PICK b \in Blobs \ spent :
              /\ spent' = spent \cup {b}
              /\ data' = [data EXCEPT ![b] = data[op[p].key]]
              /\ unsynced' = unsynced \cup {b}
              /\ Becomes(p, "copied", op[p].vid, op[p].mode, b, op[p].mod, op[p].gone)
  BY <1>a, PromoteCopyMoves
<1>3. /\ pc'[p] = "copied" /\ op'[p].kind = op[p].kind /\ op'[p].key = op[p].key /\ op'[p].blob = op[p].blob
      /\ op'[p].mode = op[p].mode /\ op'[p].vid = op[p].vid /\ op'[p].copy = b
  BY <1>2 DEF Becomes
<1>4. \A path : /\ Owns(p, path) <=> op[p].kind = "put" /\ path = op[p].blob
                /\ Owns(p, path)' <=> path = b \/ (op[p].kind = "put" /\ path = op[p].blob)
  BY <1>1, <1>3 DEF Owns, Unpublished
<1>5. b \in Paths /\ \A path \in Paths : data'[path] = IF path = b THEN data[op[p].key] ELSE data[path]
  BY <1>a, <1>2 DEF Paths
<1>6. op[p].kind = "put" => op[p].blob \in spent /\ op[p].blob \in Paths /\ op[p].blob # b
  <2>1. op[p].kind = "put" => op[p].blob \in Blobs /\ op[p].blob \in Paths
    BY <1>a DEF Shape, Paths
  <2>2. op[p].kind = "put" => op[p].blob \in spent
    BY <1>4, <2>1 DEF DataInv, OwnInv
  <2>3. QED
    BY <1>2, <2>1, <2>2
<1>7. data[op[p].key] = pointer[op[p].key].etag
  <2>1. PICK k \in Keys : k = op[p].key
    BY <1>1
  <2>2. Rec(k, Unversioned) = pointer[k] /\ Refers(k, Unversioned, k) /\ Unversioned \in Slots /\ k \in Paths
    BY <1>1, <2>1 DEF Rec, Refers, dataPath, Slots
  <2>3. QED
    BY <2>1, <2>2 DEF DataInv, BackedInv
<1>8. Proper(p)
  <2>1. Moves(p)
    BY <1>1, QuietMoves
  <2>2. Takes(p) /\ Drops(p)
    BY <1>2, <1>3, <1>4 DEF Takes, Drops
  <2>3. Writes(p)
    BY <1>2, <1>4, <1>5 DEF Writes
  <2>4. Grows(p)
    BY <1>1, <1>2, <1>4 DEF Grows
  <2>5. QED
    BY <2>1, <2>2, <2>3, <2>4 DEF Proper
<1>9. Adds(pc'[p], op'[p]) => Adds(pc[p], op[p])
  BY <1>1, <1>3 DEF Adds, Committing, Holding, PCs
<1>10. Tracks(p)'
  <2>1. op'[p].kind = "put" => data'[op'[p].blob] = Absent /\ op'[p].copy # op'[p].blob
    BY <1>a, <1>1, <1>3, <1>5, <1>6 DEF Tracks, Unpublished
  <2>2. data'[op'[p].copy] = pointer'[op'[p].key].etag
    BY <1>1, <1>3, <1>5, <1>7
  <2>3. Adds(pc'[p], op'[p]) /\ op'[p].vid \in Uuids =>
            op'[p].vid \in spent' /\ versions'[op'[p].key][op'[p].vid] = NoRecord
    BY <1>a, <1>1, <1>2, <1>3, <1>9 DEF Tracks
  <2>4. QED
    BY <1>3, <2>1, <2>2, <2>3 DEF Tracks
<1>11. QED
  BY <1>8, <1>10

LEMMA DropData ==
    ASSUME Control, DataInv, NEW p \in Procs, PromoteDrop(p)
    PROVE  Proper(p) /\ Tracks(p)'
<1>a. /\ TypeInv /\ Tracks(p) /\ op[p] \in Op /\ Shape(pc[p], op[p])
      /\ data \in [Paths -> Paths \cup {Absent}]
  BY Facts DEF Control, DataInv, TypeInv, TypeOK
<1>1. /\ pc[p] = "recorded" /\ op[p].key \in Keys /\ op[p].key \in Paths
      /\ \/ data' = [data EXCEPT ![op[p].key] = Absent] /\ UNCHANGED disturbed
         \/ disturbed' = TRUE /\ UNCHANGED data
      /\ UNCHANGED <<pointer, versions, unsynced, spent>>
  BY <1>a DEF PromoteDrop, meta, Shape, Paths
<1>2. Becomes(p, "promoted", op[p].vid, op[p].mode, NoBlob, op[p].mod, op[p].gone)
  BY <1>a, PromoteDropMoves
<1>3. /\ pc'[p] = "promoted" /\ op'[p].kind = op[p].kind /\ op'[p].key = op[p].key /\ op'[p].blob = op[p].blob
      /\ op'[p].mode = op[p].mode /\ op'[p].vid = op[p].vid
  BY <1>2 DEF Becomes
<1>4. \A path : /\ Owns(p, path) <=> path = op[p].key \/ (op[p].kind = "put" /\ path = op[p].blob)
                /\ Owns(p, path)' <=> (op[p].kind = "put" /\ path = op[p].blob)
  BY <1>1, <1>3 DEF Owns, Unpublished
<1>5. \A path \in Paths : data'[path] = data[path] \/ (data'[path] = Absent /\ path = op[p].key)
  BY <1>a, <1>1
<1>6. data'[op[p].key] = Absent \/ disturbed'
  BY <1>a, <1>1
<1>7. Proper(p)
  <2>1. Moves(p)
    BY <1>1, QuietMoves
  <2>2. Takes(p) /\ Drops(p)
    BY <1>3, <1>4, <1>6 DEF Takes, Drops
  <2>3. Writes(p)
    BY <1>4, <1>5 DEF Writes
  <2>4. Grows(p)
    BY <1>1 DEF Grows
  <2>5. QED
    BY <2>1, <2>2, <2>3, <2>4 DEF Proper
<1>8. Tracks(p)'
  <2>1. op'[p].kind = "put" => data'[op'[p].blob] = Absent
    <3>1. op[p].kind = "put" => op[p].blob \in Paths /\ data[op[p].blob] = Absent
      BY <1>a, <1>1 DEF Tracks, Unpublished, Shape, Paths
    <3>2. QED
      BY <1>3, <1>5, <3>1
  <2>2. Adds(pc'[p], op'[p]) => Adds(pc[p], op[p])
    BY <1>1, <1>3 DEF Adds, Committing, Holding, PCs
  <2>3. Adds(pc'[p], op'[p]) /\ op'[p].vid \in Uuids =>
            op'[p].vid \in spent' /\ versions'[op'[p].key][op'[p].vid] = NoRecord
    BY <1>a, <1>1, <1>3, <2>2 DEF Tracks
  <2>4. QED
    BY <1>3, <2>1, <2>3 DEF Tracks
<1>9. QED
  BY <1>7, <1>8

LEMMA RemoveDataKeeps ==
    ASSUME Control, DataInv, NEW p \in Procs, removeData(p)
    PROVE  Proper(p) /\ Tracks(p)'
<1>a. /\ TypeInv /\ op[p] \in Op /\ Shape(pc[p], op[p])
      /\ data \in [Paths -> Paths \cup {Absent}]
  BY Facts DEF Control, DataInv, TypeInv, TypeOK
<1>1. pc[p] = "cleanup" /\ UNCHANGED <<pointer, versions, unsynced, spent>>
  BY DEF removeData, meta
<1>2. PICK file \in op[p].gone :
              /\ Becomes(p, "cleanup", op[p].vid, op[p].mode, op[p].copy, op[p].mod, op[p].gone \ {file})
              /\ \/ data' = [data EXCEPT ![file] = Absent] /\ UNCHANGED disturbed
                 \/ disturbed' = TRUE /\ UNCHANGED data
  BY <1>a, RemoveDataMoves
<1>3. /\ pc'[p] = "cleanup" /\ op'[p].kind = op[p].kind /\ op'[p].key = op[p].key
      /\ op'[p].mode = op[p].mode /\ op'[p].gone = op[p].gone \ {file}
  BY <1>2 DEF Becomes
<1>4. \A path : /\ Owns(p, path) <=> path \in op[p].gone
                /\ Owns(p, path)' <=> path \in op[p].gone /\ path # file
  BY <1>1, <1>3 DEF Owns, Unpublished
<1>5. file \in Paths
  BY <1>a DEF Op
<1>6. /\ data'[file] = Absent \/ disturbed'
      /\ \A path \in Paths : data'[path] = data[path] \/ (data'[path] = Absent /\ path = file)
      /\ disturbed => disturbed'
  BY <1>a, <1>2, <1>5
<1>7. Proper(p)
  <2>1. Moves(p)
    BY <1>1, QuietMoves
  <2>2. Takes(p) /\ Drops(p)
    BY <1>3, <1>4, <1>6 DEF Takes, Drops
  <2>3. Writes(p)
    BY <1>2, <1>4, <1>6 DEF Writes
  <2>4. Grows(p)
    BY <1>1, <1>6 DEF Grows
  <2>5. QED
    BY <2>1, <2>2, <2>3, <2>4 DEF Proper
<1>8. Tracks(p)'
  <2>1. ~Adds(pc'[p], op'[p])
    BY <1>3 DEF Adds, Committing
  <2>2. QED
    BY <1>3, <2>1, TracksNothing DEF Unpublished
<1>9. QED
  BY <1>7, <1>8

(***************************************************************************)
(* Steps that commit metadata.                                             *)
(***************************************************************************)
LEMMA PromoteData ==
    ASSUME Control, MetaInv, DataInv, NEW p \in Procs, PromoteRaw(p) \/ PromoteRecord(p)
    PROVE  Proper(p) /\ Tracks(p)'
<1>a. /\ TypeInv /\ Tracks(p) /\ op[p] \in Op /\ Shape(pc[p], op[p]) /\ BackedInv /\ Handler(p)
  BY Facts DEF Control, DataInv, Handler, Step
<1>1. UNCHANGED <<data, unsynced, spent, disturbed>> /\ op' = op
  BY DEF PromoteRaw, PromoteRecord, disk
<1>2. PICK rec : Raises(p, rec)
  BY PromoteFacts
<1>3. PICK k \in Keys, cur \in Record : k = op[p].key /\ cur = pointer[k]
  BY <1>2 DEF Raises
<1>4. /\ cur # NoRecord /\ cur.vid = Unversioned /\ ~cur.marker
      /\ rec \in Record /\ rec # NoRecord /\ rec.vid = NullVersion /\ ~rec.marker
      /\ rec.etag = cur.etag /\ rec.blob \in Blobs
      /\ \/ pc[p] = "prepare" /\ pc'[p] = "promoted" /\ rec.blob = cur.blob
         \/ pc[p] = "copySynced" /\ pc'[p] = "recorded" /\ rec.blob = op[p].copy /\ cur.blob = NoBlob
      /\ PutObjectMetaRaw(k, rec)
  BY <1>2, <1>3 DEF Raises
<1>5. \A s \in Slots : /\ Rec(k, s)' = IF s = NullVersion THEN rec ELSE NoRecord
                       /\ Rec(k, s) = IF s = Unversioned THEN cur ELSE NoRecord
  <2>1. Tells(k)
    BY <1>a, TellsAgrees DEF MetaInv
  <2>2. QED
    BY <1>a, <1>3, <1>4, <2>1, RaiseSlots
<1>6. \A j \in Keys \ {k} : /\ pointer'[j] = pointer[j] /\ versions'[j] = versions[j]
                            /\ \A s : /\ Rec(j, s)' = Rec(j, s)
                                      /\ \A path : Refers(j, s, path)' <=> Refers(j, s, path)
  <2>1. \A j \in Keys \ {k} : pointer'[j] = pointer[j] /\ versions'[j] = versions[j]
    BY <1>3, <1>a, Frame
  <2>2. QED
    BY <2>1, FrameRefers
<1>7. PICK old \in Paths, new \in Blobs :
         /\ old = dataPath(k, cur) /\ new = rec.blob /\ new \in Paths
         /\ \A s \in Slots : \A path : /\ Refers(k, s, path) <=> s = Unversioned /\ path = old
                                       /\ Refers(k, s, path)' <=> s = NullVersion /\ path = new
  <2>1. NoBlob \notin Blobs /\ dataPath(k, rec) = rec.blob
    BY <1>4, IdAssumption DEF dataPath, Paths
  <2>2. dataPath(k, cur) \in Paths
    BY DEF dataPath, Paths, Record
  <2>3. QED
    BY <1>4, <1>5, <2>1, <2>2 DEF Refers, Paths
<1>8. NullVersion \in Slots /\ Unversioned \in Slots /\ NullVersion # Unversioned
  BY <1>a, Facts DEF Slots
<1>9. /\ Refers(k, Unversioned, old) /\ data[old] = cur.etag /\ cur.etag # Absent /\ old \notin unsynced
      /\ \A q \in Procs : ~Owns(q, old)
  BY <1>a, <1>5, <1>7, <1>8 DEF BackedInv
<1>10. Adds(pc'[p], op'[p]) => Adds(pc[p], op[p])
  BY <1>1, <1>4 DEF Adds, Committing, Holding, PCs
<1>11. ASSUME NEW u \in Uuids PROVE versions'[k][u] = versions[k][u]
  BY <1>a, <1>5, Facts, IdAssumption DEF Slots, Rec
<1>12. Adds(pc'[p], op'[p]) /\ op[p].vid \in Uuids =>
            op[p].vid \in spent' /\ versions'[k][op[p].vid] = NoRecord
  BY <1>a, <1>1, <1>3, <1>10, <1>11 DEF Tracks
<1>13. op[p].kind = "put" => data'[op[p].blob] = Absent
  BY <1>a, <1>1, <1>4 DEF Tracks, Unpublished
<1>14. ASSUME NEW j \in Keys, NEW u \in Uuids, versions'[j][u] # NoRecord PROVE versions[j][u] # NoRecord
  BY <1>6, <1>11, <1>14
<1>15. ASSUME NEW j \in Keys \ {k}, NEW s \in Slots, NEW path \in Paths, Refers(j, s, path)'
       PROVE  Kept(j, s, path) /\ (path \in Keys => s = Unversioned)
  BY <1>a, <1>6, <1>15 DEF Kept, BackedInv
<1>16. Refers3
  <2> SUFFICES ASSUME NEW j \in Keys, NEW s \in Slots, NEW t \in Slots, NEW path \in Paths,
                      Refers(j, s, path)', Refers(j, t, path)'
               PROVE  s = t
    BY DEF Refers3
  <2>1. CASE j = k
    BY <1>7, <2>1
  <2>2. CASE j # k
    BY <1>6, <2>2, SMTT(30) DEF DataInv, UniqueInv
  <2>3. QED
    BY <2>1, <2>2
<1>17. CASE pc[p] = "prepare"
  <2>1. pc'[p] = "promoted" /\ rec.blob = cur.blob
    BY <1>4, <1>17
  <2>2. new = old
    BY <1>4, <1>7, <2>1, IdAssumption DEF dataPath, Paths
  <2>3. \A path : Owns(p, path)' <=> Owns(p, path)
    BY <1>1, <1>17, <2>1 DEF Owns, Unpublished
  <2>4. Refers1(p)
    <3>1. Kept(k, NullVersion, new) /\ new \notin Keys
      BY <1>4, <1>5, <1>7, <1>8, <1>9, <2>2, IdAssumption DEF Kept
    <3>2. QED
      BY <1>7, <1>15, <3>1 DEF Refers1
  <2>5. Refers2(p)
    BY <1>6, <1>7, <1>8, <2>2 DEF Refers2
  <2>6. Takes(p) /\ Drops(p) /\ Writes(p) /\ Grows(p)
    BY <1>1, <2>3 DEF Takes, Drops, Writes, Grows
  <2>7. Tracks(p)'
    BY <1>1, <1>3, <1>12, <1>13, <2>1 DEF Tracks
  <2>8. QED
    BY <1>14, <1>16, <2>4, <2>5, <2>6, <2>7 DEF Proper, Moves
<1>18. CASE pc[p] = "copySynced"
  <2>1. pc'[p] = "recorded" /\ new = op[p].copy /\ old = k
    BY <1>4, <1>7, <1>18 DEF dataPath
  <2>2. new # k /\ new \notin Keys
    BY <1>7, IdAssumption
  <2>3. /\ data[new] = cur.etag /\ new \notin unsynced
        /\ op[p].kind = "put" => new # op[p].blob
    BY <1>a, <1>3, <1>18, <2>1 DEF Tracks
  <2>4. \A path : /\ Owns(p, path) <=> path = new \/ (op[p].kind = "put" /\ path = op[p].blob)
                  /\ Owns(p, path)' <=> path = k \/ (op[p].kind = "put" /\ path = op[p].blob)
    BY <1>1, <1>3, <1>18, <2>1 DEF Owns, Unpublished
  <2>5. Refers1(p)
    <3>1. Published(p, k, NullVersion, new)
      BY <1>1, <1>3, <1>4, <1>5, <1>8, <1>9, <2>2, <2>3, <2>4 DEF Published
    <3>2. QED
      BY <1>7, <1>15, <2>2, <3>1 DEF Refers1
  <2>6. Refers2(p)
    BY <1>6, <1>7, <2>1, <2>4 DEF Refers2
  <2>7. Takes(p)
    <3>1. Frees(p, k)
      BY <1>1, <1>3, <1>7, <1>8, <1>9, <2>1, <2>2 DEF Frees
    <3>2. QED
      BY <1>1, <2>4, <3>1 DEF Takes
  <2>8. Drops(p)
    BY <1>7, <1>8, <2>4 DEF Drops
  <2>9. Writes(p) /\ Grows(p)
    BY <1>1 DEF Writes, Grows
  <2>10. Tracks(p)'
    <3>1. Rec(k, Unversioned)' = NoRecord
      BY <1>5, <1>8
    <3>2. Rec(op[p].key, Unversioned)' = NoRecord
      <4>1. k = op'[p].key
        BY <1>1, <1>3
      <4>2. QED
        BY <3>1, <4>1
    <3>3. QED
      BY <1>1, <1>3, <1>12, <1>13, <2>1, <3>2 DEF Tracks
  <2>11. QED
    BY <1>14, <1>16, <2>5, <2>6, <2>7, <2>8, <2>9, <2>10 DEF Proper, Moves
<1>19. QED
  BY <1>4, <1>17, <1>18

\* What a write or delete does to one version: it goes, stays, or is new.
Outcome(o, k, s) ==
    \/ s \in Goes(o) /\ Rec(k, s)' = NoRecord
    \/ s \notin Goes(o) /\ SameData(Rec(k, s)', Rec(k, s))
    \/ /\ s = o.vid /\ (s \in Goes(o) \/ Rec(k, s) = NoRecord)
       /\ \/ o.mode = "marker" /\ Rec(k, s)'.marker
          \/ o.kind = "put" /\ Rec(k, s)' = PutRec(o)

LEMMA CommitSlots ==
    ASSUME Control, MetaInv, DataInv, NEW p \in Procs, PutCommit(p) \/ DeleteCommit(p),
           NEW k \in Keys, k = op[p].key, NEW o \in Op, o = op[p]
    PROVE  /\ \A s \in Slots : Outcome(o, k, s)
           /\ PutCommit(p) => o.kind = "put" /\ Rec(k, o.vid)' = PutRec(o) /\ PutRec(o) # NoRecord
           /\ DeleteCommit(p) => o.kind # "put"
<1>a. TypeInv /\ Tells(k) /\ LatestAgrees /\ Tracks(p) /\ Knows(p) /\ o.vid \in Slots
  BY TellsAgrees DEF Control, MetaInv, DataInv, Op, Slots
<1>b. Unversioned \notin VersionIDs /\ NullVersion \in VersionIDs /\ Uuids \subseteq VersionIDs
      /\ Unversioned \notin Uuids /\ NullVersion \notin Uuids
  BY <1>a, Facts, IdAssumption
\* A new version with an ID of its own replaces nothing.
<1>c. ASSUME Adds(pc[p], op[p]), o.vid \in Uuids PROVE Rec(k, o.vid) = NoRecord
  BY <1>a, <1>b, <1>c DEF Tracks, Rec
<1>d. ASSUME NEW rec \in Record, rec.vid = o.vid, o.vid \in VersionIDs, PutObjectMeta(k, rec),
             pointer[k] # NoRecord => pointer[k].vid # Unversioned,
             o.mode # "all", o.mode # "version", Adds(pc[p], op[p]),
             (o.mode = "marker" /\ rec.marker) \/ (o.kind = "put" /\ rec = PutRec(o))
      PROVE  \A s \in Slots : Outcome(o, k, s)
  <2>1. /\ Rec(k, o.vid)' = rec
        /\ \A s \in Slots : s # o.vid => SameData(Rec(k, s)', Rec(k, s))
    BY <1>a, <1>d, AddSlots
  <2>2. Goes(o) = IF o.vid \in Uuids THEN {} ELSE {o.vid}
    BY <1>b, <1>d DEF Goes
  <2>3. o.vid \in Goes(o) \/ Rec(k, o.vid) = NoRecord
    BY <1>c, <1>d, <2>2
  <2>4. Outcome(o, k, o.vid)
    BY <1>d, <2>1, <2>3 DEF Outcome
  <2>5. ASSUME NEW s \in Slots, s # o.vid PROVE Outcome(o, k, s)
    BY <2>1, <2>2, <2>5 DEF Outcome
  <2>6. QED
    BY <2>4, <2>5
<1>1. CASE PutCommit(p)
  <2>1. /\ pc[p] = "synced" /\ o.kind = "put" /\ o.mode = ""
        /\ PutObjectMeta(k, PutRec(o)) /\ PutRec(o) \in Record /\ PutRec(o) # NoRecord
        /\ PutRec(o).vid = o.vid
    BY <1>1, <1>a, PutCommitFacts DEF PutRec
  <2>2. ~DeleteCommit(p)
    BY <2>1 DEF DeleteCommit
  <2>3. Adds(pc[p], op[p])
    BY <2>1 DEF Adds, Committing
  <2>4. CASE o.vid = Unversioned
    <3>1. \A s \in Slots : Rec(k, s)' = IF s = Unversioned THEN PutRec(o) ELSE NoRecord
      BY <1>a, <2>1, <2>4, ReplaceSlots
    <3>2. Goes(o) = Slots
      BY <2>1, <2>4 DEF Goes
    <3>3. QED
      BY <1>a, <2>1, <2>2, <2>4, <3>1, <3>2 DEF Outcome
  <2>5. CASE o.vid # Unversioned
    <3>1. o.vid \in VersionIDs
      BY <1>a, <2>5 DEF Slots
    <3>2. pointer[k] # NoRecord => pointer[k].vid # Unversioned
      BY <1>a, <2>1, <2>5 DEF Knows, Versioned, Promoted
    <3>3. \A s \in Slots : Outcome(o, k, s)
      BY <1>d, <2>1, <2>3, <3>1, <3>2
    <3>4. Rec(k, o.vid)' = PutRec(o)
      BY <1>a, <2>1, <3>1, <3>2, AddSlots
    <3>5. QED
      BY <2>1, <2>2, <3>3, <3>4
  <2>6. QED
    BY <2>4, <2>5
<1>2. CASE DeleteCommit(p)
  <2>1. pc[p] = "ready" /\ o.kind # "put" /\ ~PutCommit(p)
    BY <1>2, <1>a, DeleteCommitFacts DEF PutCommit
  <2>2. CASE o.mode = "version" /\ o.vid \in VersionIDs /\ DeleteVersionMeta(k, o.vid)
    <3>1. /\ Rec(k, o.vid)' = NoRecord
          /\ \A s \in Slots : s # o.vid => SameData(Rec(k, s)', Rec(k, s))
      BY <1>a, <2>2, DeleteSlots
    <3>2. Goes(o) = {o.vid}
      BY <2>1, <2>2 DEF Goes
    <3>3. QED
      BY <2>1, <3>1, <3>2 DEF Outcome
  <2>3. CASE o.mode = "all" /\ DeleteAllMeta(k)
    <3>1. pointer'[k] = NoRecord /\ \A v \in VersionIDs : versions'[k][v] = NoRecord
      BY <1>a, <2>3, AllTells
    <3>2. \A s \in Slots : Rec(k, s)' = NoRecord
      BY <3>1 DEF Rec, Slots
    <3>3. QED
      BY <2>1, <2>3, <3>2 DEF Outcome, Goes
  <2>4. CASE /\ o.mode = "marker" /\ o.vid \in VersionIDs
             /\ PutObjectMeta(k, MarkRec(o)) /\ MarkRec(o) \in Record
    <3>1. MarkRec(o).vid = o.vid /\ MarkRec(o).marker
      BY DEF MarkRec
    <3>2. pointer[k] # NoRecord => pointer[k].vid # Unversioned
      BY <1>a, <2>1, <2>4 DEF Knows, Versioned, Promoted
    <3>3. Adds(pc[p], op[p])
      BY <2>1, <2>4 DEF Adds, Holding, PCs
    <3>4. PICK rec \in Record : rec = MarkRec(o)
      BY <2>4
    <3>5. PutObjectMeta(k, rec) /\ rec.vid = o.vid /\ rec.marker
      BY <2>4, <3>1, <3>4
    <3>6. o.mode = "marker" /\ o.mode # "all" /\ o.mode # "version" /\ o.vid \in VersionIDs
      BY <2>4
    <3>7. \A s \in Slots : Outcome(o, k, s)
      <4>1. (o.mode = "marker" /\ rec.marker) \/ (o.kind = "put" /\ rec = PutRec(o))
        BY <3>5, <3>6
      <4>2. QED
        BY <1>d, <3>2, <3>3, <3>5, <3>6, <4>1, ZenonT(60)
    <3>8. QED
      BY <2>1, <3>7
  <2>5. QED
    BY <1>2, <1>a, <2>2, <2>3, <2>4, DeleteCommitFacts
<1>3. QED
  BY <1>1, <1>2

LEMMA CommitData ==
    ASSUME Control, MetaInv, DataInv, NEW p \in Procs, PutCommit(p) \/ DeleteCommit(p)
    PROVE  Proper(p) /\ Tracks(p)'
<1>a. /\ TypeInv /\ Tracks(p) /\ op[p] \in Op /\ Shape(pc[p], op[p]) /\ BackedInv /\ UniqueInv
      /\ LatestAgrees /\ Handler(p)
  BY Facts DEF Control, DataInv, MetaInv, Handler, Step
<1>1. /\ UNCHANGED <<data, unsynced, spent, disturbed>> /\ op' = op /\ pc'[p] = "cleanup"
      /\ pc[p] \in {"synced", "ready"}
  BY <1>a DEF PutCommit, DeleteCommit, disk, Go, TypeInv, TypeOK
<1>2. PICK k \in Keys, o \in Op : k = op[p].key /\ o = op[p]
  BY <1>a, <1>1 DEF Shape
<1>3. /\ \A s \in Slots : Outcome(o, k, s)
      /\ PutCommit(p) => o.kind = "put" /\ Rec(k, o.vid)' = PutRec(o) /\ PutRec(o) # NoRecord
      /\ DeleteCommit(p) => o.kind # "put"
  BY <1>2, CommitSlots
<1>4. PutRec(o).blob = o.blob /\ PutRec(o).etag = o.blob /\ ~PutRec(o).marker
  BY DEF PutRec
<1>5. o.kind = "put" => o.blob \in Blobs /\ o.blob \in Paths /\ o.blob # NoBlob
                        /\ data[o.blob] = o.blob /\ o.blob \notin unsynced /\ pc[p] = "synced"
  <2>1. o.kind = "put" => pc[p] = "synced"
    BY <1>1, <1>2, <1>3 DEF PutCommit
  <2>2. QED
    BY <1>a, <1>2, <2>1, IdAssumption DEF Shape, Tracks, Unpublished, Paths
<1>6. ASSUME NEW s \in Slots, NEW path, Refers(k, s, path)'
      PROVE  \/ Refers(k, s, path) /\ s \notin Goes(o) /\ Rec(k, s)'.etag = Rec(k, s).etag
             \/ o.kind = "put" /\ s = o.vid /\ path = o.blob /\ Rec(k, s)'.etag = o.blob
  <2>1. CASE s \notin Goes(o) /\ SameData(Rec(k, s)', Rec(k, s))
    BY <1>6, <2>1, SameRefers
  <2>2. CASE o.kind = "put" /\ s = o.vid /\ Rec(k, s)' = PutRec(o)
    BY <1>4, <1>5, <1>6, <2>2 DEF Refers, dataPath
  <2>3. QED
    BY <1>3, <1>6, <2>1, <2>2 DEF Outcome, Refers
<1>7. ASSUME NEW s \in Slots, NEW path, Refers(k, s, path), s \notin Goes(o)
      PROVE  Refers(k, s, path)'
  <2>1. SameData(Rec(k, s)', Rec(k, s))
    BY <1>3, <1>7 DEF Outcome, Refers
  <2>2. QED
    BY <1>7, <2>1, SameRefers
<1>8. o.kind = "put" => o.vid \in Slots /\ Refers(k, o.vid, o.blob)'
  <2>1. o.kind = "put" => PutCommit(p)
    BY <1>3
  <2>2. QED
    BY <1>3, <1>4, <1>5, <2>1 DEF Refers, dataPath, Op, Slots
<1>9. \A path : /\ Owns(p, path) <=> o.kind = "put" /\ path = o.blob
                /\ Owns(p, path)' <=> path \in o.gone
  BY <1>1, <1>2, <1>5 DEF Owns, Unpublished
<1>10. \A path : path \in o.gone <=> \E s \in Goes(o) : Refers(k, s, path)
  <2>1. o.gone = Doomed(k, o)
    BY <1>a, <1>1, <1>2 DEF Tracks
  <2>2. Tells(k)
    BY <1>a, TellsAgrees
  <2>3. QED
    BY <1>a, <2>1, <2>2, DoomedSlots
<1>11. \A j \in Keys \ {k} : /\ pointer'[j] = pointer[j] /\ versions'[j] = versions[j]
                             /\ \A s : /\ Rec(j, s)' = Rec(j, s)
                                       /\ \A path : Refers(j, s, path)' <=> Refers(j, s, path)
  <2>1. \A j \in Keys \ {k} : pointer'[j] = pointer[j] /\ versions'[j] = versions[j]
    BY <1>2, <1>a, Frame
  <2>2. QED
    BY <2>1, FrameRefers
<1>12. \A j \in Keys, s \in Slots : o.kind = "put" => ~Refers(j, s, o.blob)
  BY <1>a, <1>5, <1>9 DEF BackedInv
<1>13. Goes(o) \subseteq Slots
  BY DEF Goes, Op, Slots
<1>14. Refers1(p)
  <2> SUFFICES ASSUME NEW j \in Keys, NEW s \in Slots, NEW path \in Paths, Refers(j, s, path)'
               PROVE  /\ Kept(j, s, path) \/ Published(p, j, s, path)
                      /\ path \in Keys => s = Unversioned
    BY DEF Refers1
  <2>1. CASE Refers(j, s, path) /\ Rec(j, s)'.etag = Rec(j, s).etag
    BY <1>a, <2>1 DEF Kept, BackedInv
  <2>2. CASE j = k /\ o.kind = "put" /\ path = o.blob /\ Rec(k, s)'.etag = o.blob
    <3>1. ~Owns(p, path)' /\ Owns(p, path)
      BY <1>9, <1>10, <1>12, <1>13, <2>2
    <3>2. path \in Blobs /\ path # Absent /\ path \notin Keys
      BY <1>5, <2>2, IdAssumption
    <3>3. QED
      BY <1>1, <1>2, <1>5, <2>2, <3>1, <3>2 DEF Published
  <2>3. QED
    BY <1>6, <1>11, <2>1, <2>2
<1>15. Refers2(p)
  <2> SUFFICES ASSUME NEW j \in Keys, NEW s \in Slots, NEW path \in Paths, Refers(j, s, path)
               PROVE  (\E t \in Slots : Refers(j, t, path)') \/ Owns(p, path)'
    BY DEF Refers2
  <2>1. CASE j # k
    BY <1>11, <2>1
  <2>2. CASE j = k /\ s \in Goes(o)
    BY <1>9, <1>10, <2>2
  <2>3. CASE j = k /\ s \notin Goes(o)
    BY <1>7, <2>3
  <2>4. QED
    BY <2>1, <2>2, <2>3
<1>16. Refers3
  <2> SUFFICES ASSUME NEW j \in Keys, NEW s \in Slots, NEW t \in Slots, NEW path \in Paths,
                      Refers(j, s, path)', Refers(j, t, path)'
               PROVE  s = t
    BY DEF Refers3
  <2>1. CASE j = k
    <3>1. \/ Refers(k, s, path)
          \/ o.kind = "put" /\ s = o.vid /\ path = o.blob
      BY <1>6, <2>1
    <3>2. \/ Refers(k, t, path)
          \/ o.kind = "put" /\ t = o.vid /\ path = o.blob
      BY <1>6, <2>1
    <3>3. CASE Refers(k, s, path) /\ Refers(k, t, path)
      BY <1>a, <3>3 DEF UniqueInv
    <3>4. CASE o.kind = "put" /\ path = o.blob
      <4>1. ~Refers(k, s, path) /\ ~Refers(k, t, path)
        BY <1>12, <3>4
      <4>2. QED
        BY <3>1, <3>2, <4>1
    <3>5. QED
      BY <3>1, <3>2, <3>3, <3>4
  <2>2. CASE j # k
    <3>1. Refers(j, s, path) /\ Refers(j, t, path)
      BY <1>11, <2>2
    <3>2. QED
      BY <1>a, <3>1 DEF UniqueInv
  <2>3. QED
    BY <2>1, <2>2
<1>17. ASSUME NEW j \in Keys, NEW u \in Uuids, versions'[j][u] # NoRecord
       PROVE  versions[j][u] # NoRecord \/ u \in spent
  <2>1. CASE j # k
    BY <1>11, <1>17, <2>1
  <2>2. CASE j = k
    <3>1. u \in Slots /\ Rec(k, u) = versions[k][u] /\ Rec(k, u)' = versions'[k][u]
      BY <1>a, Facts DEF Slots, Rec
    <3>2. CASE SameData(Rec(k, u)', Rec(k, u))
      BY <1>17, <2>2, <3>1, <3>2 DEF SameData
    <3>3. CASE u = o.vid /\ (o.mode = "marker" \/ o.kind = "put")
      <4>1. Adds(pc[p], op[p])
        BY <1>1, <1>2, <1>3, <1>5, <3>3 DEF Adds, Committing, Holding, PCs
      <4>2. QED
        BY <1>a, <1>2, <3>3, <4>1 DEF Tracks
    <3>4. QED
      BY <1>3, <1>17, <2>2, <3>1, <3>2, <3>3 DEF Outcome
  <2>3. QED
    BY <2>1, <2>2
<1>18. Takes(p)
  <2> SUFFICES ASSUME NEW path \in Paths, Owns(p, path)' PROVE Frees(p, path)
    BY DEF Takes
  <2>1. PICK s \in Goes(o) : Refers(k, s, path)
    BY <1>9, <1>10
  <2>2. s \in Slots
    BY <1>13
  <2>3. ASSUME NEW t \in Slots, Refers(k, t, path)' PROVE FALSE
    <3>1. CASE Refers(k, t, path) /\ t \notin Goes(o)
      BY <1>a, <2>1, <2>2, <3>1 DEF UniqueInv
    <3>2. CASE o.kind = "put" /\ path = o.blob
      BY <1>12, <2>1, <2>2, <3>2
    <3>3. QED
      BY <1>6, <2>3, <3>1, <3>2
  <2>4. path \in Keys => path = op'[p].key
    BY <1>a, <1>1, <1>2, <2>1, <2>2, RefersFacts
  <2>5. QED
    BY <2>1, <2>2, <2>3, <2>4 DEF Frees
<1>19. Drops(p)
  BY <1>8, <1>9 DEF Drops
<1>20. Writes(p) /\ Grows(p)
  BY <1>1 DEF Writes, Grows
<1>21. Tracks(p)'
  <2>1. ~Adds(pc'[p], op'[p])
    BY <1>1 DEF Adds, Committing
  <2>2. QED
    BY <1>1, <2>1, TracksNothing DEF Unpublished
<1>22. QED
  BY <1>14, <1>15, <1>16, <1>17, <1>18, <1>19, <1>20, <1>21 DEF Proper, Moves

-----------------------------------------------------------------------------
(***************************************************************************)
(* Every reachable state keeps its data in order                           *)
(***************************************************************************)

\* An idle process owns and tracks nothing.
LEMMA IdleOwns ==
    ASSUME NEW p \in Procs, pc[p] = "idle"
    PROVE  Tracks(p) /\ \A path : ~Owns(p, path)
<1>1. ~Adds(pc[p], op[p]) 
  BY DEF Adds, Committing, Holding
<1>2. QED
  BY <1>1 DEF Tracks, Owns, Unpublished

\* With nobody at work, what is left to say of a store is that the files of
\* its records are there, one for each, and that there are no others.
LEMMA DataAtRest ==
    ASSUME \A p \in Procs : pc[p] = "idle", FileInv, UniqueInv, unsynced = {},
           \A k \in Keys, s \in Slots, path \in Paths : Refers(k, s, path) =>
              /\ data[path] = Rec(k, s).etag /\ Rec(k, s).etag # Absent
              /\ path \in Blobs => path \in spent
              /\ path \in Keys => s = Unversioned,
           \A path \in Paths : data[path] # Absent => \E k \in Keys, s \in Slots : Refers(k, s, path)
    PROVE  DataInv
<1>1. \A p \in Procs : Tracks(p) /\ \A path : ~Owns(p, path)
  BY IdleOwns
<1>2. BackedInv
  BY <1>1 DEF BackedInv
<1>3. OwnInv /\ ReadInv
  BY <1>1 DEF OwnInv, ReadInv
<1>4. KeptInv
  BY DEF KeptInv
<1>5. QED
  BY <1>1, <1>2, <1>3, <1>4 DEF DataInv

LEMMA DataInit == Init => DataInv
<1> SUFFICES ASSUME Init PROVE DataInv
  OBVIOUS
<1>a. TypeInv
  BY TypeInit
<1>b. (\A p \in Procs : pc[p] = "idle") /\ unsynced = {}
  BY DEF Init
<1>c. Unversioned \notin VersionIDs /\ \A u \in Uuids : u \in VersionIDs
  BY <1>a, Facts
<1>d. /\ Keys \cap Blobs = {} /\ NoBlob \notin Blobs /\ Keys \subseteq Paths /\ Blobs \subseteq Paths
      /\ Absent \notin Paths
  BY IdAssumption DEF Paths
<1>1. CASE EmptyStore
  <2>1. /\ \A k \in Keys : pointer[k] = NoRecord /\ \A v \in VersionIDs : versions[k][v] = NoRecord
        /\ \A path \in Paths : data[path] = Absent
    BY <1>1 DEF EmptyStore, NoVersions
  <2>2. \A k \in Keys, s \in Slots : \A path : ~Refers(k, s, path)
    BY <2>1 DEF Refers, Rec, Slots
  <2>3. FileInv
    BY <1>c, <1>d, <2>1 DEF FileInv
  <2>4. UniqueInv
    BY <2>2 DEF UniqueInv
  <2>5. QED
    BY <1>b, <2>1, <2>2, <2>3, <2>4, DataAtRest
<1>2. ASSUME NEW S \in SUBSET Keys, LegacyStore(S) PROVE DataInv
  <2>1. /\ \A k \in Keys : /\ pointer[k] = IF k \in S THEN LegacyObject(k) ELSE NoRecord
                           /\ \A v \in VersionIDs : versions[k][v] = NoRecord
        /\ \A path \in Paths : data[path] = IF path \in S THEN path ELSE Absent
    BY <1>2 DEF LegacyStore, NoVersions
  <2>2. \A k \in S : /\ LegacyObject(k) \in Record /\ LegacyObject(k) # NoRecord
                     /\ LegacyObject(k).vid = Unversioned /\ ~LegacyObject(k).marker
                     /\ dataPath(k, LegacyObject(k)) = k /\ LegacyObject(k).etag = k
    <3>1. \A k \in S : LegacyObject(k) \in Record
      BY <1>d DEF LegacyObject, Record
    <3>2. QED
      BY <3>1, IdAssumption DEF LegacyObject, dataPath
  <2>3. ASSUME NEW k \in Keys, NEW s \in Slots, NEW path
        PROVE  /\ Refers(k, s, path) <=> s = Unversioned /\ k \in S /\ path = k
               /\ Refers(k, s, path) => Rec(k, s).etag = k
    <3>1. CASE s = Unversioned /\ k \in S
      BY <2>1, <2>2, <3>1 DEF Refers, Rec
    <3>2. CASE ~(s = Unversioned /\ k \in S)
      BY <2>1, <3>2 DEF Refers, Rec, Slots
    <3>3. QED
      BY <3>1, <3>2
  <2>4. FileInv
    BY <1>c, <1>d, <2>1 DEF FileInv
  <2>5. UniqueInv
    BY <2>3 DEF UniqueInv
  <2>6. ASSUME NEW k \in Keys, NEW s \in Slots, NEW path \in Paths, Refers(k, s, path)
        PROVE  /\ data[path] = Rec(k, s).etag /\ Rec(k, s).etag # Absent
               /\ path \in Blobs => path \in spent
               /\ path \in Keys => s = Unversioned
    BY <1>d, <2>1, <2>3, <2>6
  <2>7. ASSUME NEW path \in Paths, data[path] # Absent
        PROVE  \E k \in Keys, s \in Slots : Refers(k, s, path)
    <3>1. path \in S /\ path \in Keys /\ Unversioned \in Slots
      BY <2>1, <2>7 DEF Slots
    <3>2. Refers(path, Unversioned, path)
      BY <2>3, <3>1
    <3>3. QED
      BY <3>1, <3>2
  <2>8. QED
    BY <1>b, <2>4, <2>5, <2>6, <2>7, DataAtRest
<1>3. ASSUME NEW k \in Keys, NEW u1 \in Uuids, NEW u2 \in Uuids,
             NEW b1 \in Blobs, NEW b2 \in Blobs, NEW since \in {0, 2},
             OldHistory(k, u1, u2, b1, b2, since)
      PROVE  DataInv
  <2>1. PICK r1 : r1 = OldVersion(u1, b1, FALSE, 1, since)
    OBVIOUS
  <2>2. PICK r2 : r2 = OldVersion(u2, b2, TRUE, 2, 0)
    OBVIOUS
  <2>3. /\ r1.vid = u1 /\ r1.blob = b1 /\ r1.etag = b1 /\ ~r1.marker
        /\ r2.vid = u2 /\ r2.blob = b2 /\ r2.etag = b2 /\ ~r2.marker
        /\ r1 \in Record /\ r2 \in Record
    BY <2>1, <2>2 DEF OldVersion, Record, Paths, VersionIDs
  <2>4. /\ u1 # u2 /\ b1 # b2 /\ u1 \in VersionIDs /\ u2 \in VersionIDs
        /\ u1 # Unversioned /\ u2 # Unversioned /\ r1 # NoRecord /\ r2 # NoRecord
        /\ spent = {u1, u2, b1, b2}
    BY <1>3, <1>c, <2>3, IdAssumption DEF OldHistory
  <2>5. /\ \A j \in Keys : /\ pointer[j] = IF j = k THEN r2 ELSE NoRecord
                           /\ \A v \in VersionIDs : versions[j][v] = IF j = k /\ v = u1 THEN r1
                                                                     ELSE IF j = k /\ v = u2 THEN r2
                                                                     ELSE NoRecord
        /\ \A path \in Paths : data[path] = IF path \in {b1, b2} THEN path ELSE Absent
    BY <1>3, <2>1, <2>2 DEF OldHistory
  <2>6. dataPath(k, r1) = b1 /\ dataPath(k, r2) = b2
    BY <1>d, <2>3 DEF dataPath
  <2>7. ASSUME NEW j \in Keys, NEW s \in Slots, NEW path
        PROVE  /\ Refers(j, s, path) <=> j = k /\ ((s = u1 /\ path = b1) \/ (s = u2 /\ path = b2))
               /\ Refers(j, s, path) => Rec(j, s).etag = path
    <3>1. CASE s = Unversioned
      BY <2>3, <2>4, <2>5, <3>1 DEF Refers, Rec
    <3>2. CASE s \in VersionIDs
      <4>1. Rec(j, s) = versions[j][s]
        BY <1>c, <3>2 DEF Rec
      <4>2. Rec(j, s) = IF j = k /\ s = u1 THEN r1 ELSE IF j = k /\ s = u2 THEN r2 ELSE NoRecord
        BY <2>5, <3>2, <4>1
      <4>3. QED
        BY <2>3, <2>4, <2>6, <4>2 DEF Refers
    <3>3. QED
      BY <3>1, <3>2 DEF Slots
  <2>8. FileInv
    BY <1>c, <1>d, <2>4, <2>5 DEF FileInv
  <2>9. UniqueInv
    <3> SUFFICES ASSUME NEW i \in Keys, NEW j \in Keys, NEW s \in Slots, NEW t \in Slots,
                        NEW path \in Paths, Refers(j, s, path), Refers(i, t, path)
                 PROVE  j = i /\ s = t
      BY DEF UniqueInv
    <3>1. j = k /\ ((s = u1 /\ path = b1) \/ (s = u2 /\ path = b2))
      BY <2>7
    <3>2. i = k /\ ((t = u1 /\ path = b1) \/ (t = u2 /\ path = b2))
      BY <2>7
    <3>3. QED
      BY <2>4, <3>1, <3>2
  <2>10. ASSUME NEW j \in Keys, NEW s \in Slots, NEW path \in Paths, Refers(j, s, path)
         PROVE  /\ data[path] = Rec(j, s).etag /\ Rec(j, s).etag # Absent
                /\ path \in Blobs => path \in spent
                /\ path \in Keys => s = Unversioned
    BY <1>d, <2>4, <2>5, <2>7, <2>10
  <2>11. ASSUME NEW path \in Paths, data[path] # Absent
         PROVE  \E j \in Keys, s \in Slots : Refers(j, s, path)
    <3>1. u1 \in Slots /\ u2 \in Slots
      BY <2>4 DEF Slots
    <3>2. path = b1 \/ path = b2
      BY <2>5, <2>11
    <3>3. Refers(k, u1, b1) /\ Refers(k, u2, b2)
      BY <2>7, <3>1
    <3>4. QED
      BY <3>1, <3>2, <3>3
  <2>12. QED
    BY <1>b, <2>8, <2>9, <2>10, <2>11, DataAtRest
<1>4. QED
  BY <1>1, <1>2, <1>3 DEF Init

\* A step of a handler obeys the rules of ownership, and keeps its own locals
\* true of the files.
LEMMA HandlerProper ==
    ASSUME Control, MetaInv, DataInv, NEW p \in Procs, Handler(p)
    PROVE  Proper(p) /\ Tracks(p)'
<1>1. CASE Begin(p)
  BY <1>1, BeginData
<1>2. CASE Ends(p)
  BY <1>2, EndData
<1>3. CASE lockObjectKey(p) \/ PutJoin(p) \/ PromoteSkip(p)
  BY <1>3, JoinData
<1>4. CASE syncParents(p)
  BY <1>4, SyncData
<1>5. CASE DeleteMode(p) \/ ExpireCheck(p)
  BY <1>5, DeleteData
<1>6. CASE DeleteCollect(p)
  BY <1>6, CollectData
<1>7. CASE PutRename(p)
  BY <1>7, RenameData
<1>8. CASE PromoteCopy(p)
  BY <1>8, CopyData
<1>9. CASE PromoteDrop(p)
  BY <1>9, DropData
<1>10. CASE removeData(p)
  BY <1>10, RemoveDataKeeps
<1>11. CASE PromoteRaw(p) \/ PromoteRecord(p)
  BY <1>11, PromoteData
<1>12. CASE PutCommit(p) \/ DeleteCommit(p)
  BY <1>12, CommitData
<1>13. QED
  BY <1>1, <1>2, <1>3, <1>4, <1>5, <1>6, <1>7, <1>8, <1>9, <1>10, <1>11, <1>12
     DEF Handler, Step, Ends

\* Neither the rest of the world nor a crash disturbs the data: what a record
\* refers to has been synced.
LEMMA WorldData ==
    ASSUME Control, DataInv, World \/ UNCHANGED vars
    PROVE  DataInv'
<1>a. /\ TypeInv /\ BackedInv /\ UniqueInv /\ OwnInv /\ FileInv /\ KeptInv /\ ReadInv
      /\ \A p \in Procs : Tracks(p)
  BY DEF Control, DataInv
<1>1. pointer' = pointer /\ versions' = versions /\ spent' = spent
  BY <1>a, WorldFacts
<1>2. \A k, s : /\ Rec(k, s)' = Rec(k, s)
                /\ \A path : Refers(k, s, path)' <=> Refers(k, s, path)
  BY <1>1, FrameRefers
<1>3. UniqueInv'
  BY <1>a, <1>2 DEF UniqueInv
<1>4. CASE UNCHANGED <<pc, op, data, unsynced, disturbed>>
  <2>1. \A p, path : Owns(p, path)' <=> Owns(p, path)
    BY <1>4 DEF Owns
  <2>2. BackedInv'
    BY <1>a, <1>1, <1>2, <1>4, <2>1 DEF BackedInv
  <2>3. OwnInv'
    BY <1>a, <1>1, <1>4, <2>1 DEF OwnInv
  <2>4. FileInv'
    BY <1>a, <1>1, <1>4 DEF FileInv
  <2>5. KeptInv'
    BY <1>a, <1>2, <1>4, <2>1 DEF KeptInv
  <2>6. ReadInv'
    BY <1>a, <1>1, <1>4 DEF ReadInv
  <2>7. ASSUME NEW p \in Procs PROVE Tracks(p)'
    <3>1. \A k, o : Doomed(k, o)' = Doomed(k, o)
      BY <1>1 DEF Doomed, storedRecord, GetObjectMeta, GetObjectVersions
    <3>2. Tracks(p)
      BY <1>a
    <3>3. QED
      BY <1>1, <1>2, <1>4, <3>1, <3>2 DEF Tracks
  <2>8. QED
    BY <1>3, <2>2, <2>3, <2>4, <2>5, <2>6, <2>7 DEF DataInv
<1>5. CASE /\ \A p \in Procs : pc'[p] = "idle" /\ op'[p] = Idle
           /\ disturbed' = TRUE /\ unsynced' = {}
           /\ \A path \in Paths : \/ data'[path] = data[path]
                                  \/ data'[path] = Absent /\ path \in unsynced
  <2>1. ASSUME NEW p \in Procs PROVE Tracks(p)' /\ \A path : ~Owns(p, path)'
    <3>1. ~Adds(pc'[p], op'[p])
      BY <1>5, IdleKnows DEF Adds, Committing
    <3>2. QED
      BY <1>5, <3>1, TracksNothing DEF Owns, Unpublished
  <2>2. BackedInv'
    <3> SUFFICES ASSUME NEW k \in Keys, NEW s \in Slots, NEW path \in Paths, Refers(k, s, path)
                 PROVE  /\ data'[path] = Rec(k, s).etag /\ Rec(k, s).etag # Absent
                        /\ path \in Blobs => path \in spent
                        /\ path \in Keys => s = Unversioned
      BY <1>1, <1>2, <1>5, <2>1 DEF BackedInv
    <3>1. path \notin unsynced
      BY <1>a DEF BackedInv
    <3>2. QED
      BY <1>a, <1>5, <3>1 DEF BackedInv
  <2>3. OwnInv' /\ ReadInv'
    BY <1>5, <2>1 DEF OwnInv, ReadInv
  <2>4. FileInv'
    <3>1. Blobs \subseteq Paths /\ Keys \subseteq Paths
      BY DEF Paths
    <3>2. QED
      BY <1>a, <1>1, <1>5, <3>1 DEF FileInv
  <2>5. KeptInv'
    BY <1>5 DEF KeptInv
  <2>6. QED
    BY <1>3, <2>1, <2>2, <2>3, <2>4, <2>5 DEF DataInv
<1>6. QED
  BY <1>a, <1>4, <1>5, WorldFacts

LEMMA DataNext == Control /\ MetaInv /\ DataInv /\ [Next]_vars => DataInv'
<1> SUFFICES ASSUME Control, MetaInv, DataInv, [Next]_vars PROVE DataInv'
  OBVIOUS
<1>1. ASSUME NEW p \in Procs, Handler(p) PROVE DataInv'
  <2>1. Proper(p) /\ Tracks(p)'
    BY <1>1, HandlerProper
  <2>2. \A q \in Procs : Tracks(q)'
    BY <1>1, <2>1, TracksOthers
  <2>3. BackedInv' /\ UniqueInv' /\ OwnInv' /\ FileInv' /\ KeptInv' /\ ReadInv'
    BY <1>1, <2>1, BackedNext, UniqueNext, OwnNext, FileNext, KeptNext, ReadNext
  <2>4. QED
    BY <2>2, <2>3 DEF DataInv
<1>2. CASE World \/ UNCHANGED vars
  BY <1>2, WorldData
<1>3. QED
  BY <1>1, <1>2 DEF Next, World, Handler

LEMMA DataHolds == Spec => [](Control /\ MetaInv /\ DataInv)
<1>1. Init => DataInv
  BY DataInit
<1>2. Control /\ MetaInv /\ DataInv /\ [Next]_vars => DataInv'
  BY DataNext
<1>3. QED
  BY <1>1, <1>2, MetaHolds, PTL DEF Spec

\* Every record has its data, in every reachable state: PutObject syncs the
\* blob before PutObjectMeta refers to it, deletes remove the record before
\* the file, a promotion copies before it records, and no two of them share a
\* file, whatever crashes, fails or runs at the same time.
THEOREM RecordsBacked == Spec => []RecordsHaveData
<1>1. Control /\ MetaInv /\ DataInv => RecordsHaveData
  <2> SUFFICES ASSUME Control, MetaInv, DataInv, NEW k \in Keys, NEW rec \in GetObjectVersions(k),
                      ~rec.marker
               PROVE  data[dataPath(k, rec)] = rec.etag
    BY DEF RecordsHaveData
  <2>1. TypeInv /\ Tells(k) /\ BackedInv
    BY TellsAgrees DEF Control, MetaInv, DataInv
  <2>2. PICK s \in Slots : rec = Rec(k, s) /\ rec # NoRecord
    BY <2>1, SlotOf
  <2>3. Refers(k, s, dataPath(k, rec))
    BY <2>2 DEF Refers
  <2>4. dataPath(k, rec) \in Paths
    BY <2>1, <2>3, RefersFacts
  <2>5. QED
    BY <2>1, <2>2, <2>3, <2>4 DEF BackedInv
<1>2. QED
  BY <1>1, DataHolds, PTL

\* Without a crash or failed cleanup no file outlives its use: what PUT and
\* DELETE replace or remove is collected before the commit and removed after
\* it, and an error before the commit takes the new file back.
THEOREM NothingStray == Spec => []NoStrayData
<1>1. Control /\ MetaInv /\ DataInv => NoStrayData
  <2> SUFFICES ASSUME Control, MetaInv, DataInv, ~disturbed, NEW path \in Paths, data[path] # Absent
               PROVE  \/ \E k \in Keys : path \in DataOf(k, GetObjectVersions(k))
                      \/ \E p \in Procs : path \in InFlight(p)
    BY DEF NoStrayData
  <2>1. TypeInv /\ (\A k \in Keys : Tells(k)) /\ KeptInv
    BY TellsAgrees DEF Control, MetaInv, DataInv
  <2>2. ASSUME NEW k \in Keys, NEW s \in Slots, Refers(k, s, path)
        PROVE  path \in DataOf(k, GetObjectVersions(k))
    BY <2>1, <2>2, DataOfSlots
  <2>3. ASSUME NEW p \in Procs, Owns(p, path) PROVE path \in InFlight(p)
    BY <2>3 DEF Owns, InFlight, Unpublished
  <2>4. QED
    BY <2>1, <2>2, <2>3 DEF KeptInv
<1>2. QED
  BY <1>1, DataHolds, PTL

\* GetObject opens the file without any lock, after it has read the record:
\* blob names are never reused and a legacy path only ever holds one body, so
\* what it opens is what it looked up, or gone.
THEOREM ReadersSafe == Spec => []ReadersNeverMixVersions
<1>1. DataInv => ReadersNeverMixVersions
  BY DEF DataInv, ReadInv, ReadersNeverMixVersions
<1>2. QED
  BY <1>1, DataHolds, PTL

-----------------------------------------------------------------------------
(***************************************************************************)
(* What clients see: the refinement of BucketContract                      *)
(***************************************************************************)
StoreInv == Control /\ MetaInv /\ DataInv

\* The body a record stands for, and the version a current record is.
Body(rec) == IF rec = NoRecord THEN Absent ELSE IF rec.marker THEN "marker" ELSE rec.etag
Known(rec) == IF rec = NoRecord THEN Absent
              ELSE IF rec.vid = Unversioned THEN NullVersion ELSE rec.vid

SlotView ==
    \A k \in Keys :
        /\ \A u \in Uuids : GetObjectMeta(k, u) = Rec(k, u)
        /\ GetObjectMeta(k, NullVersion) = IF Rec(k, NullVersion) # NoRecord THEN Rec(k, NullVersion)
                                           ELSE Rec(k, Unversioned)

LEMMA SeenSlots == SlotView
<1>1. Unversioned # NullVersion /\ Unversioned \notin Uuids /\ NullVersion \notin Uuids
  BY IdAssumption DEF Unversioned, NullVersion
<1>2. QED
  BY <1>1 DEF GetObjectMeta, Rec, SlotView

\* The bytes a client reads are those the record describes, so that the view
\* depends on the metadata alone.
View ==
    /\ SeenBody = [k \in Keys |-> [v \in VersionIDs |-> Body(GetObjectMeta(k, v))]]
    /\ \A k \in Keys, v \in VersionIDs :
         Body(GetObjectMeta(k, v)) = Absent <=> GetObjectMeta(k, v) = NoRecord

LEMMA BodySeen == StoreInv => View
<1> SUFFICES ASSUME StoreInv PROVE View
  OBVIOUS
<1>a. TypeInv /\ BackedInv
  BY DEF StoreInv, Control, DataInv
<1>1. ASSUME NEW k \in Keys, NEW v \in VersionIDs, GetObjectMeta(k, v) # NoRecord
      PROVE  /\ BodyOf(k, GetObjectMeta(k, v)) = Body(GetObjectMeta(k, v))
             /\ Body(GetObjectMeta(k, v)) # Absent
  <2>1. PICK s \in Slots : GetObjectMeta(k, v) = Rec(k, s)
    BY <1>a, SeenSlots, Facts DEF SlotView, VersionIDs, Slots
  <2>2. CASE Rec(k, s).marker
    BY <1>1, <2>1, <2>2 DEF BodyOf, Body, Absent
  <2>3. CASE ~Rec(k, s).marker
    <3>1. Refers(k, s, dataPath(k, Rec(k, s)))
      BY <1>1, <2>1, <2>3 DEF Refers
    <3>2. dataPath(k, Rec(k, s)) \in Paths
      BY <1>a, <3>1, RefersFacts
    <3>3. data[dataPath(k, Rec(k, s))] = Rec(k, s).etag /\ Rec(k, s).etag # Absent
      BY <1>a, <3>1, <3>2 DEF BackedInv
    <3>4. QED
      BY <1>1, <2>1, <2>3, <3>3 DEF BodyOf, Body
  <2>4. QED
    BY <2>2, <2>3
<1>2. ASSUME NEW k \in Keys, NEW v \in VersionIDs, GetObjectMeta(k, v) = NoRecord
      PROVE  Body(GetObjectMeta(k, v)) = Absent
  BY <1>2 DEF Body
<1>3. QED
  BY <1>1, <1>2 DEF SeenBody, View

LEMMA StoredSeen ==
    ASSUME StoreInv, NEW k \in Keys
    PROVE  /\ \A v : v \in Contract!Stored(k) <=> v \in VersionIDs /\ GetObjectMeta(k, v) # NoRecord
           /\ SeenCurrent[k] = Known(pointer[k])
  BY BodySeen DEF View, Contract!Stored, Contract!VersionIDs, VersionIDs, SeenCurrent, Known

\* A step that changes one entry of the view.
LEMMA BodyWrites ==
    ASSUME StoreInv, StoreInv', NEW k \in Keys, NEW v \in VersionIDs, NEW x,
           Body(GetObjectMeta(k, v))' = x,
           \A w \in VersionIDs \ {v} : Body(GetObjectMeta(k, w))' = Body(GetObjectMeta(k, w)),
           \A j \in Keys \ {k}, w \in VersionIDs : Body(GetObjectMeta(j, w))' = Body(GetObjectMeta(j, w))
    PROVE  SeenBody' = [SeenBody EXCEPT ![k][v] = x]
<1>1. SeenBody = [j \in Keys |-> [w \in VersionIDs |-> Body(GetObjectMeta(j, w))]]
  BY BodySeen DEF View
<1>2. (StoreInv => View)'
  BY BodySeen, PTL
<1>3. SeenBody' = [j \in Keys |-> [w \in VersionIDs |-> Body(GetObjectMeta(j, w))']]
  BY <1>2 DEF View
<1>4. QED
  BY <1>1, <1>3

LEMMA BodyStays ==
    ASSUME StoreInv, StoreInv',
           \A j \in Keys, w \in VersionIDs : Body(GetObjectMeta(j, w))' = Body(GetObjectMeta(j, w))
    PROVE  SeenBody' = SeenBody
<1>1. SeenBody = [j \in Keys |-> [w \in VersionIDs |-> Body(GetObjectMeta(j, w))]]
  BY BodySeen DEF View
<1>2. (StoreInv => View)'
  BY BodySeen, PTL
<1>3. SeenBody' = [j \in Keys |-> [w \in VersionIDs |-> Body(GetObjectMeta(j, w))']]
  BY <1>2 DEF View
<1>4. QED
  BY <1>1, <1>3

LEMMA CurrentWrites ==
    ASSUME NEW k \in Keys, \A j \in Keys \ {k} : pointer'[j] = pointer[j]
    PROVE  SeenCurrent' = [SeenCurrent EXCEPT ![k] = Known(pointer'[k])]
  BY DEF SeenCurrent, Known

LEMMA SameView ==
    ASSUME NEW k \in Keys, pointer'[k] = pointer[k], versions'[k] = versions[k]
    PROVE  \A v \in VersionIDs : Body(GetObjectMeta(k, v))' = Body(GetObjectMeta(k, v))
<1>1. \A v \in VersionIDs : GetObjectMeta(k, v)' = GetObjectMeta(k, v)
  BY DEF GetObjectMeta
<1>2. QED
  BY <1>1 DEF Body

\* Where no unversioned object stands in for version "null", the view of a
\* key is its version records.
LEMMA WriteView ==
    ASSUME NEW k \in Keys, NEW v \in VersionIDs, Rec(k, Unversioned) = NoRecord,
           \A s \in Slots : s # v => SameData(Rec(k, s)', Rec(k, s))
    PROVE  /\ GetObjectMeta(k, v) = Rec(k, v) /\ GetObjectMeta(k, v)' = Rec(k, v)'
           /\ \A w \in VersionIDs \ {v} : Body(GetObjectMeta(k, w))' = Body(GetObjectMeta(k, w))
<1>1. SlotView'
  BY SeenSlots, PTL
<1>2. Unversioned \in Slots /\ VersionIDs \subseteq Slots /\ Unversioned # v
  BY IdAssumption DEF Slots, VersionIDs, Unversioned, NullVersion
<1>3. Rec(k, Unversioned)' = NoRecord
  BY <1>2 DEF SameData
<1>4. \A w \in VersionIDs : GetObjectMeta(k, w) = Rec(k, w)
  BY SeenSlots DEF SlotView, VersionIDs
<1>5. \A w \in VersionIDs : GetObjectMeta(k, w)' = Rec(k, w)'
  BY <1>1, <1>3 DEF SlotView, VersionIDs
<1>6. \A w \in VersionIDs \ {v} : Body(Rec(k, w)') = Body(Rec(k, w))
  BY <1>2 DEF SameData, Body
<1>7. \A w : Body(GetObjectMeta(k, w))' = Body(GetObjectMeta(k, w)')
  BY DEF Body
<1>8. QED
  BY <1>4, <1>5, <1>6, <1>7

\* One write to the contract's bucket.
LEMMA ContractWrite ==
    ASSUME StoreInv, StoreInv', NEW p \in Procs, Handler(p),
           NEW k \in Keys, k = op[p].key, NEW v \in VersionIDs, NEW x,
           GetObjectMeta(k, v)' # NoRecord, Body(GetObjectMeta(k, v)') = x,
           \A w \in VersionIDs \ {v} : Body(GetObjectMeta(k, w))' = Body(GetObjectMeta(k, w)),
           Known(pointer'[k]) = v
    PROVE  Contract!Write(k, v, x)
<1>1. /\ status' = status
      /\ \A j \in Keys \ {k} : pointer'[j] = pointer[j] /\ versions'[j] = versions[j]
  BY Frame DEF StoreInv
<1>2. \A j \in Keys \ {k}, w \in VersionIDs : Body(GetObjectMeta(j, w))' = Body(GetObjectMeta(j, w))
  BY <1>1, SameView
<1>3. Body(GetObjectMeta(k, v))' = x
  BY DEF Body
<1>4. SeenBody' = [SeenBody EXCEPT ![k][v] = x]
  BY <1>2, <1>3, BodyWrites
<1>5. SeenCurrent' = [SeenCurrent EXCEPT ![k] = v]
  BY <1>1, CurrentWrites
<1>6. QED
  BY <1>1, <1>4, <1>5 DEF Contract!Write

LEMMA PutShows ==
    ASSUME StoreInv, StoreInv', NEW p \in Procs, PutCommit(p)
    PROVE  \E k \in Keys : Contract!Put(k)
<1>a. /\ TypeInv /\ MetaInv /\ LatestAgrees /\ Control /\ DataInv /\ Handler(p) /\ Tracks(p) /\ Knows(p)
      /\ StatusInv /\ status \in Statuses
  BY DEF StoreInv, Control, MetaInv, DataInv, Handler, Step, TypeInv, TypeOK
<1>1. /\ pc[p] = "synced" /\ op[p].kind = "put" /\ op[p].key \in Keys /\ op[p].blob \in Blobs
      /\ op[p].mode = "" /\ PutObjectMeta(op[p].key, PutRec(op[p])) /\ PutRec(op[p]) \in Record
      /\ PutRec(op[p]) # NoRecord
  BY <1>a, PutCommitFacts
<1>2. PICK k \in Keys, o \in Op : k = op[p].key /\ o = op[p]
  BY <1>a, <1>1, Facts
<1>3. PICK rec \in Record : rec = PutRec(o)
  BY <1>1, <1>2
<1>4. /\ rec # NoRecord /\ rec.vid = o.vid /\ Body(rec) = o.blob /\ o.blob \in Paths
      /\ PutObjectMeta(k, rec)
  BY <1>1, <1>2, <1>3 DEF PutRec, Body, Paths
<1>5. pointer'[k] = rec
  BY <1>a, <1>4, PutMeta
<1>6. Tells(k) /\ Unversioned \notin VersionIDs /\ o.vid \in VersionIDs \cup {Unversioned}
      /\ NullVersion \in VersionIDs /\ Uuids \subseteq VersionIDs /\ NullVersion \notin Uuids
  BY <1>a, TellsAgrees, Facts, IdAssumption DEF Op
\* The version published is the one the bucket's status now calls for.
<1>7. o.vid \in (CASE status = "Enabled" -> Uuids
                   [] status = "Suspended" -> {NullVersion}
                   [] status = "" -> {Unversioned})
  <2>1. p \in committers
    BY <1>a, <1>1 DEF MetaInv, CommitInv, Committing
  <2>2. QED
    BY <1>a, <1>2, <2>1 DEF MetaInv, PublishesUnderCurrentStatus
<1>8. /\ status = "Enabled" => o.vid \in Uuids
      /\ status = "Suspended" => o.vid = NullVersion
      /\ status = "" => o.vid = Unversioned
  BY <1>7
<1>9. CASE o.vid # Unversioned
  <2>1. o.vid \in VersionIDs
    BY <1>6, <1>9
  <2>2. pointer[k] # NoRecord => pointer[k].vid # Unversioned
    BY <1>a, <1>1, <1>2, <1>9 DEF Knows, Versioned, Promoted
  <2>3. /\ Rec(k, o.vid)' = rec
        /\ \A s \in Slots : s # o.vid => SameData(Rec(k, s)', Rec(k, s))
    BY <1>a, <1>4, <1>6, <2>1, <2>2, AddSlots
  <2>4. Rec(k, Unversioned) = NoRecord
    BY <2>2 DEF Rec
  <2>5. /\ GetObjectMeta(k, o.vid) = Rec(k, o.vid) /\ GetObjectMeta(k, o.vid)' = rec
        /\ \A w \in VersionIDs \ {o.vid} : Body(GetObjectMeta(k, w))' = Body(GetObjectMeta(k, w))
    BY <2>1, <2>3, <2>4, WriteView
  <2>6. Known(pointer'[k]) = o.vid
    BY <1>4, <1>5, <1>9 DEF Known
  <2>7. Contract!Write(k, o.vid, o.blob)
    BY <1>a, <1>2, <1>4, <2>1, <2>5, <2>6, ContractWrite
  <2>8. o.vid \in Uuids => o.vid \notin Contract!Stored(k)
    <3>1. o.vid \in Uuids => Rec(k, o.vid) = NoRecord
      BY <1>a, <1>1, <1>2, <1>6 DEF Tracks, Adds, Committing, Rec
    <3>2. QED
      BY <2>5, <3>1, StoredSeen
  <2>9. IF status = "Enabled" THEN o.vid \in Uuids /\ o.vid \notin Contract!Stored(k)
        ELSE o.vid = NullVersion
    BY <1>a, <1>8, <1>9, <2>8 DEF Statuses
  <2>10. QED
    BY <1>4, <2>1, <2>7, <2>9 DEF Contract!Put, Contract!VersionIDs, VersionIDs
<1>10. CASE o.vid = Unversioned
  <2>1. status = ""
    BY <1>a, <1>6, <1>8, <1>10, IdAssumption DEF Statuses
  <2>2. \A s \in Slots : Rec(k, s)' = IF s = Unversioned THEN rec ELSE NoRecord
    BY <1>a, <1>4, <1>10, ReplaceSlots
  <2>3. \A u \in Uuids : Rec(k, u) = NoRecord
    BY <1>a, <1>6, <2>1 DEF StatusInv, Rec
  <2>4. SlotView'
    BY SeenSlots, PTL
  <2>5. /\ GetObjectMeta(k, NullVersion)' = rec
        /\ \A u \in Uuids : GetObjectMeta(k, u)' = NoRecord /\ GetObjectMeta(k, u) = NoRecord
    <3>1. NullVersion \in Slots /\ Unversioned \in Slots /\ Uuids \subseteq Slots
          /\ NullVersion # Unversioned /\ Unversioned \notin Uuids
      BY <1>6 DEF Slots
    <3>2. QED
      BY <2>2, <2>3, <2>4, <3>1, SeenSlots DEF SlotView
  <2>6. \A w \in VersionIDs \ {NullVersion} : Body(GetObjectMeta(k, w))' = Body(GetObjectMeta(k, w))
    BY <2>5 DEF VersionIDs, Body
  <2>7. Known(pointer'[k]) = NullVersion
    BY <1>4, <1>5, <1>10 DEF Known
  <2>8. Contract!Write(k, NullVersion, o.blob)
    BY <1>a, <1>2, <1>4, <1>6, <2>5, <2>6, <2>7, ContractWrite
  <2>9. QED
    BY <1>4, <1>6, <2>1, <2>8 DEF Contract!Put, Contract!VersionIDs, VersionIDs
<1>11. QED
  BY <1>9, <1>10

LEMMA MarkShows ==
    ASSUME StoreInv, StoreInv', NEW p \in Procs, DeleteCommit(p), op[p].mode = "marker"
    PROVE  \E k \in Keys : Contract!Mark(k)
<1>a. /\ TypeInv /\ LatestAgrees /\ Control /\ Handler(p) /\ Tracks(p) /\ Knows(p)
  BY DEF StoreInv, Control, MetaInv, DataInv, Handler, Step
<1>1. /\ pc[p] = "ready" /\ op[p].kind # "put" /\ op[p].key \in Keys /\ op[p].vid \in VersionIDs
      /\ PutObjectMeta(op[p].key, MarkRec(op[p])) /\ MarkRec(op[p]) \in Record /\ MarkRec(op[p]) # NoRecord
  BY <1>a, DeleteCommitFacts
<1>2. PICK k \in Keys, o \in Op : k = op[p].key /\ o = op[p]
  BY <1>a, <1>1, Facts
<1>3. PICK rec \in Record : rec = MarkRec(o)
  BY <1>1, <1>2
<1>4. /\ rec # NoRecord /\ rec.vid = o.vid /\ Body(rec) = "marker" /\ o.vid \in VersionIDs
      /\ PutObjectMeta(k, rec) /\ o.mode = "marker"
  BY <1>1, <1>2, <1>3 DEF MarkRec, Body
<1>5. pointer'[k] = rec /\ Tells(k) /\ Unversioned \notin VersionIDs
  BY <1>a, <1>4, PutMeta, TellsAgrees, Facts
<1>6. pointer[k] # NoRecord => pointer[k].vid # Unversioned
  BY <1>a, <1>1, <1>2, <1>4 DEF Knows, Versioned, Promoted
<1>7. /\ Rec(k, o.vid)' = rec
      /\ \A s \in Slots : s # o.vid => SameData(Rec(k, s)', Rec(k, s))
  BY <1>a, <1>4, <1>5, <1>6, AddSlots
<1>8. Rec(k, Unversioned) = NoRecord
  BY <1>6 DEF Rec
<1>9. /\ GetObjectMeta(k, o.vid) = Rec(k, o.vid) /\ GetObjectMeta(k, o.vid)' = rec
      /\ \A w \in VersionIDs \ {o.vid} : Body(GetObjectMeta(k, w))' = Body(GetObjectMeta(k, w))
  BY <1>4, <1>7, <1>8, WriteView
<1>10. Known(pointer'[k]) = o.vid
  BY <1>4, <1>5 DEF Known
<1>11. Contract!Write(k, o.vid, "marker")
  BY <1>a, <1>2, <1>4, <1>9, <1>10, ContractWrite
<1>12. o.vid \in Uuids => o.vid \notin Contract!Stored(k)
  <2>1. Adds(pc[p], op[p])
    BY <1>1, <1>2, <1>4 DEF Adds, Holding, PCs
  <2>2. o.vid \in Uuids => Rec(k, o.vid) = NoRecord
    BY <1>a, <1>2, <1>4, <1>5, <2>1 DEF Tracks, Rec
  <2>3. QED
    BY <1>9, <2>2, StoredSeen
<1>13. QED
  BY <1>4, <1>11, <1>12 DEF Contract!Mark, Contract!VersionIDs, VersionIDs

LEMMA RemoveShows ==
    ASSUME StoreInv, StoreInv', NEW p \in Procs, DeleteCommit(p), op[p].mode = "all"
    PROVE  \E k \in Keys : Contract!Remove(k)
<1>a. /\ TypeInv /\ LatestAgrees /\ Control /\ Handler(p) /\ Knows(p)
  BY DEF StoreInv, Control, MetaInv, DataInv, Handler, Step
<1>1. pc[p] = "ready" /\ op[p].key \in Keys /\ DeleteAllMeta(op[p].key)
  BY <1>a, DeleteCommitFacts
<1>2. PICK k \in Keys : k = op[p].key
  BY <1>1
<1>3. /\ pointer[k] # NoRecord /\ \A u \in Uuids : versions[k][u] = NoRecord
  BY <1>a, <1>1, <1>2 DEF Knows, Holding, PCs
<1>4. pointer'[k] = NoRecord /\ \A v \in VersionIDs : versions'[k][v] = NoRecord
  BY <1>a, <1>1, <1>2, AllTells
<1>5. /\ Tells(k) /\ Unversioned \notin VersionIDs /\ NullVersion \in VersionIDs
      /\ NullVersion \notin Uuids /\ pointer[k].vid \in VersionIDs \cup {Unversioned}
  BY <1>a, <1>3, TellsAgrees, Facts, IdAssumption DEF Record
<1>6. GetObjectMeta(k, NullVersion) # NoRecord
  <2>1. CASE pointer[k].vid = Unversioned
    BY <1>3, <1>5, <2>1 DEF GetObjectMeta
  <2>2. CASE pointer[k].vid = NullVersion
    BY <1>3, <1>5, <2>2 DEF GetObjectMeta, Tells
  <2>3. CASE pointer[k].vid \in Uuids
    BY <1>3, <1>5, <2>3, IdAssumption DEF Tells
  <2>4. QED
    BY <1>5, <2>1, <2>2, <2>3 DEF VersionIDs
<1>7. \A u \in Uuids : GetObjectMeta(k, u) = NoRecord
  BY <1>3, <1>5 DEF GetObjectMeta, VersionIDs
<1>8. \A v \in VersionIDs : GetObjectMeta(k, v)' = NoRecord
  BY <1>4, <1>5 DEF GetObjectMeta
<1>9. Contract!Stored(k) = {NullVersion}
  <2>1. \A v : v \in Contract!Stored(k) <=> v \in VersionIDs /\ GetObjectMeta(k, v) # NoRecord
    BY StoredSeen
  <2>2. \A v : v \in Contract!Stored(k) <=> v = NullVersion
    BY <1>5, <1>6, <1>7, <2>1 DEF VersionIDs
  <2>3. QED
    BY <2>2
<1>10. /\ status' = status
       /\ \A j \in Keys \ {k} : pointer'[j] = pointer[j] /\ versions'[j] = versions[j]
  BY <1>a, <1>2, Frame
<1>11. SeenBody' = [SeenBody EXCEPT ![k][NullVersion] = Absent]
  <2>1. \A j \in Keys \ {k}, w \in VersionIDs : Body(GetObjectMeta(j, w))' = Body(GetObjectMeta(j, w))
    BY <1>10, SameView
  <2>2. \A w \in VersionIDs \ {NullVersion} : Body(GetObjectMeta(k, w))' = Body(GetObjectMeta(k, w))
    BY <1>7, <1>8 DEF Body, VersionIDs
  <2>3. Body(GetObjectMeta(k, NullVersion))' = Absent
    BY <1>5, <1>8 DEF Body
  <2>4. QED
    BY <1>5, <2>1, <2>2, <2>3, BodyWrites
<1>12. SeenCurrent' = [SeenCurrent EXCEPT ![k] = Absent]
  <2>1. Known(pointer'[k]) = Absent
    BY <1>4 DEF Known
  <2>2. QED
    BY <1>10, <2>1, CurrentWrites
<1>13. QED
  BY <1>9, <1>10, <1>11, <1>12 DEF Contract!Remove

LEMMA DeleteShows ==
    ASSUME StoreInv, StoreInv', NEW p \in Procs, DeleteCommit(p), op[p].mode = "version"
    PROVE  \/ \E k \in Keys, v \in Contract!VersionIDs : Contract!DeleteVersion(k, v)
           \/ UNCHANGED <<status, SeenBody, SeenCurrent>>
<1>a. /\ TypeInv /\ LatestAgrees /\ Control /\ Handler(p) /\ Knows(p)
  BY DEF StoreInv, Control, MetaInv, DataInv, Handler, Step
<1>1. /\ pc[p] = "ready" /\ op[p].key \in Keys /\ op[p].vid \in VersionIDs
      /\ DeleteVersionMeta(op[p].key, op[p].vid)
  BY <1>a, DeleteCommitFacts
<1>2. PICK k \in Keys, v \in VersionIDs : k = op[p].key /\ v = op[p].vid
  BY <1>1
<1>3. Tells(k) /\ Unversioned \notin VersionIDs
  BY <1>a, TellsAgrees, Facts
<1>4. /\ Rec(k, v)' = NoRecord
      /\ \A s \in Slots : s # v => SameData(Rec(k, s)', Rec(k, s))
  BY <1>a, <1>1, <1>2, DeleteSlots
<1>6. /\ status' = status
      /\ \A j \in Keys \ {k} : pointer'[j] = pointer[j] /\ versions'[j] = versions[j]
  BY <1>a, <1>2, Frame
<1>7. \A j \in Keys \ {k}, w \in VersionIDs : Body(GetObjectMeta(j, w))' = Body(GetObjectMeta(j, w))
  BY <1>6, SameView
<1>8. CASE Rec(k, v) = NoRecord
  <2>1. versions[k][v] = NoRecord /\ v # Unversioned
    BY <1>3, <1>8 DEF Rec
  <2>2. ~(pointer[k] # NoRecord /\ pointer[k].vid = v)
    BY <1>3, <2>1 DEF Tells
  <2>3. OtherGoes(k, v)
    BY <1>a, <1>1, <1>2, <2>2, DeleteMeta DEF TakesOver, LastGoes
  <2>4. pointer'[k] = pointer[k] /\ \A w \in VersionIDs : versions'[k][w] = versions[k][w]
    BY <2>1, <2>3 DEF OtherGoes
  <2>5. \A w \in VersionIDs : GetObjectMeta(k, w)' = GetObjectMeta(k, w)
    BY <1>3, <2>4 DEF GetObjectMeta
  <2>6. \A j \in Keys, w \in VersionIDs : Body(GetObjectMeta(j, w))' = Body(GetObjectMeta(j, w))
    BY <1>7, <2>5 DEF Body
  <2>7. SeenBody' = SeenBody
    BY <2>6, BodyStays
  <2>8. SeenCurrent' = SeenCurrent
    BY <1>6, <2>4 DEF SeenCurrent
  <2>9. QED
    BY <1>6, <2>7, <2>8
<1>9. CASE Rec(k, v) # NoRecord
  <2>1. versions[k][v] # NoRecord /\ v # Unversioned
    BY <1>3, <1>9 DEF Rec
  <2>2. pointer[k] # NoRecord /\ pointer[k].vid # Unversioned /\ pointer[k].vid \in VersionIDs
    <3>1. pointer[k] # NoRecord /\ pointer[k].vid # Unversioned
      BY <1>3, <2>1 DEF Tells
    <3>2. QED
      BY <1>a, <3>1, Facts DEF Record
  <2>3. Rec(k, Unversioned) = NoRecord
    BY <2>2 DEF Rec
  <2>4. /\ GetObjectMeta(k, v) = Rec(k, v) /\ GetObjectMeta(k, v)' = NoRecord
        /\ \A w \in VersionIDs \ {v} : Body(GetObjectMeta(k, w))' = Body(GetObjectMeta(k, w))
    BY <1>4, <2>3, WriteView
  <2>5. SeenBody' = [SeenBody EXCEPT ![k][v] = Absent]
    <3>1. Body(GetObjectMeta(k, v))' = Absent
      BY <2>4 DEF Body
    <3>2. QED
      BY <1>7, <2>4, <3>1, BodyWrites
  <2>6. SeenCurrent' = [SeenCurrent EXCEPT ![k] = Known(pointer'[k])]
    BY <1>6, CurrentWrites
  <2>7. /\ \A w : w \in Contract!Stored(k) <=> w \in VersionIDs /\ GetObjectMeta(k, w) # NoRecord
        /\ SeenCurrent[k] = Known(pointer[k]) /\ v \in Contract!Stored(k)
    BY <1>9, <2>4, StoredSeen
  <2>8. \A w \in VersionIDs : w \in Contract!Stored(k) <=> versions[k][w] # NoRecord
    <3>1. \A w \in VersionIDs : GetObjectMeta(k, w) = versions[k][w]
      BY <1>3, <2>2 DEF GetObjectMeta
    <3>2. QED
      BY <2>7, <3>1
  <2>9. SeenCurrent[k] = pointer[k].vid
    BY <2>2, <2>7 DEF Known
  <2>10. \/ SeenCurrent[k] # v /\ UNCHANGED SeenCurrent
         \/ SeenCurrent[k] = v /\ \E w \in Contract!Stored(k) \ {v} : SeenCurrent' = [SeenCurrent EXCEPT ![k] = w]
         \/ Contract!Stored(k) = {v} /\ SeenCurrent' = [SeenCurrent EXCEPT ![k] = Absent]
    <3>1. ASSUME NEW w, TakesOver(k, v, w)
          PROVE  SeenCurrent[k] = v /\ \E y \in Contract!Stored(k) \ {v} : SeenCurrent' = [SeenCurrent EXCEPT ![k] = y]
      <4>1. /\ pointer[k].vid = v /\ w \in VersionIDs /\ w # v /\ versions[k][w] # NoRecord
            /\ pointer'[k] = [versions[k][w] EXCEPT !.latest = TRUE]
        BY <3>1 DEF TakesOver
      <4>2. versions[k][w] \in Record /\ versions[k][w].vid = w /\ w # Unversioned
        BY <1>a, <1>3, <4>1, Facts DEF Tells
      <4>3. pointer'[k] \in Record /\ pointer'[k].vid = w
        BY <4>1, <4>2 DEF Record
      <4>4. Known(pointer'[k]) = w
        BY <4>2, <4>3, IdAssumption DEF Known
      <4>5. w \in Contract!Stored(k) \ {v}
        BY <2>8, <4>1
      <4>6. QED
        BY <2>6, <2>9, <4>1, <4>4, <4>5
    <3>2. CASE LastGoes(k, v)
      <4>1. \A w \in VersionIDs \ {v} : versions[k][w] = NoRecord
        BY <3>2 DEF LastGoes
      <4>2. \A w : w \in Contract!Stored(k) <=> w = v
        BY <2>7, <2>8, <4>1
      <4>3. Known(pointer'[k]) = Absent
        BY <3>2 DEF LastGoes, Known
      <4>4. QED
        BY <2>6, <4>2, <4>3
    <3>3. CASE OtherGoes(k, v)
      <4>1. pointer'[k] = pointer[k] /\ pointer[k].vid # v
        BY <2>2, <3>3 DEF OtherGoes
      <4>2. SeenCurrent' = SeenCurrent
        BY <1>6, <4>1 DEF SeenCurrent
      <4>3. QED
        BY <2>9, <4>1, <4>2
    <3>4. QED
      BY <1>a, <1>1, <1>2, <3>1, <3>2, <3>3, DeleteMeta
  <2>11. Contract!DeleteVersion(k, v)
    BY <1>6, <2>5, <2>7, <2>10 DEF Contract!DeleteVersion
  <2>12. QED
    BY <2>11 DEF Contract!VersionIDs, VersionIDs
<1>10. QED
  BY <1>8, <1>9

\* A promotion does not show: the object was version "null" before.
LEMMA PromoteHides ==
    ASSUME StoreInv, StoreInv', NEW p \in Procs, PromoteRaw(p) \/ PromoteRecord(p)
    PROVE  UNCHANGED <<status, SeenBody, SeenCurrent>>
<1>a. TypeInv /\ LatestAgrees /\ Control /\ Handler(p)
  BY DEF StoreInv, Control, MetaInv, Handler, Step
<1>1. PICK rec : Raises(p, rec)
  BY <1>a, PromoteFacts
<1>2. PICK k \in Keys : k = op[p].key
  BY <1>1 DEF Raises
<1>3. /\ pointer[k] # NoRecord /\ pointer[k].vid = Unversioned /\ ~pointer[k].marker
      /\ rec \in Record /\ rec # NoRecord /\ rec.vid = NullVersion /\ ~rec.marker
      /\ rec.etag = pointer[k].etag /\ PutObjectMetaRaw(k, rec)
  BY <1>1, <1>2 DEF Raises
<1>4. \A s \in Slots : /\ Rec(k, s)' = IF s = NullVersion THEN rec ELSE NoRecord
                       /\ Rec(k, s) = IF s = Unversioned THEN pointer[k] ELSE NoRecord
  <2>1. Tells(k)
    BY <1>a, TellsAgrees
  <2>2. QED
    BY <1>a, <1>3, <2>1, RaiseSlots
<1>5. /\ NullVersion \in Slots /\ Unversioned \in Slots /\ Uuids \subseteq Slots
      /\ NullVersion # Unversioned /\ Unversioned \notin Uuids /\ NullVersion \notin Uuids
  BY IdAssumption DEF Slots, VersionIDs, NullVersion, Unversioned
<1>6. SlotView'
  BY SeenSlots, PTL
<1>7. /\ GetObjectMeta(k, NullVersion) = pointer[k] /\ GetObjectMeta(k, NullVersion)' = rec
      /\ \A u \in Uuids : GetObjectMeta(k, u) = NoRecord /\ GetObjectMeta(k, u)' = NoRecord
  BY <1>3, <1>4, <1>5, <1>6, SeenSlots DEF SlotView
<1>8. \A w \in VersionIDs : Body(GetObjectMeta(k, w))' = Body(GetObjectMeta(k, w))
  BY <1>3, <1>7 DEF Body, VersionIDs
<1>9. /\ status' = status
      /\ \A j \in Keys \ {k} : pointer'[j] = pointer[j] /\ versions'[j] = versions[j]
  BY <1>a, <1>2, Frame
<1>10. \A j \in Keys, w \in VersionIDs : Body(GetObjectMeta(j, w))' = Body(GetObjectMeta(j, w))
  BY <1>8, <1>9, SameView
<1>11. SeenBody' = SeenBody
  BY <1>10, BodyStays
<1>12. SeenCurrent' = SeenCurrent
  <2>1. pointer'[k] = rec
    BY <1>a, <1>3, RawMeta
  <2>2. \A j \in Keys : Known(pointer'[j]) = Known(pointer[j])
    BY <1>3, <1>5, <1>9, <2>1 DEF Known
  <2>3. QED
    BY <2>2 DEF SeenCurrent, Known
<1>13. QED
  BY <1>9, <1>11, <1>12

\* Nor does a step that leaves the metadata alone, whatever it does to files.
LEMMA QuietHides ==
    ASSUME StoreInv, StoreInv', UNCHANGED <<pointer, versions>>
    PROVE  UNCHANGED <<SeenBody, SeenCurrent>>
<1>1. \A j \in Keys, w \in VersionIDs : Body(GetObjectMeta(j, w))' = Body(GetObjectMeta(j, w))
  BY SameView
<1>2. SeenBody' = SeenBody
  BY <1>1, BodyStays
<1>3. SeenCurrent' = SeenCurrent
  BY DEF SeenCurrent
<1>4. QED
  BY <1>2, <1>3

LEMMA ContractNext == StoreInv /\ StoreInv' /\ [Next]_vars => [Contract!Next]_(Contract!vars)
<1> SUFFICES ASSUME StoreInv, StoreInv', [Next]_vars
             PROVE  Contract!Next \/ UNCHANGED <<status, SeenBody, SeenCurrent>>
  BY DEF Contract!vars
<1>a. Control /\ TypeInv
  BY DEF StoreInv, Control
<1>1. ASSUME NEW p \in Procs, Handler(p)
      PROVE  Contract!Next \/ UNCHANGED <<status, SeenBody, SeenCurrent>>
  <2>1. CASE PutCommit(p)
    BY <2>1, PutShows DEF Contract!Next
  <2>2. CASE DeleteCommit(p)
    <3>1. op[p].mode \in {"version", "all", "marker"}
      BY <1>a, <2>2, DeleteCommitFacts
    <3>2. CASE op[p].mode = "version"
      BY <2>2, <3>2, DeleteShows DEF Contract!Next
    <3>3. CASE op[p].mode = "all"
      BY <2>2, <3>3, RemoveShows DEF Contract!Next
    <3>4. CASE op[p].mode = "marker"
      BY <2>2, <3>4, MarkShows DEF Contract!Next
    <3>5. QED
      BY <3>1, <3>2, <3>3, <3>4
  <2>3. CASE PromoteRaw(p) \/ PromoteRecord(p)
    BY <2>3, PromoteHides
  <2>4. CASE UNCHANGED <<pointer, versions>>
    BY <1>a, <1>1, <2>4, QuietHides, Frame
  <2>5. QED
    BY <1>a, <1>1, <2>1, <2>2, <2>3, <2>4, Frame
<1>2. CASE World \/ UNCHANGED vars
  <2>1. /\ UNCHANGED <<pointer, versions>>
        /\ status' = status \/ status' \in {"Enabled", "Suspended"}
    BY <1>2, <1>a, WorldFacts
  <2>2. UNCHANGED <<SeenBody, SeenCurrent>>
    BY <2>1, QuietHides
  <2>3. QED
    BY <2>1, <2>2 DEF Contract!Next, Contract!SetVersioning
<1>3. QED
  BY <1>1, <1>2 DEF Next, World, Handler

LEMMA ContractInit == Init => Contract!Init
<1> SUFFICES ASSUME Init PROVE Contract!Init
  OBVIOUS
<1>a. StoreInv /\ TypeInv /\ \A k \in Keys : Tells(k)
  BY TypeInit, MetaInit, DataInit, TellsAgrees DEF Init, StoreInv, Control, LockInv, Promoting, Holding, MetaInv
<1>b. View
  BY <1>a, BodySeen
<1>1. status \in {"", "Enabled"}
  BY ZenonT(60) DEF Init, EmptyStore, LegacyStore, OldHistory
\* What an earlier release left has no delete markers.
<1>2. \A k \in Keys : /\ pointer[k] # NoRecord => ~pointer[k].marker
                      /\ \A v \in VersionIDs : versions[k][v] # NoRecord => ~versions[k][v].marker
  <2>1. CASE EmptyStore
    BY <2>1 DEF EmptyStore, NoVersions
  <2>2. ASSUME NEW S, LegacyStore(S)
        PROVE  \A k \in Keys : /\ pointer[k] # NoRecord => ~pointer[k].marker
                               /\ \A v \in VersionIDs : versions[k][v] # NoRecord => ~versions[k][v].marker
    BY <2>2 DEF LegacyStore, LegacyObject, NoVersions
  <2>3. ASSUME NEW k \in Keys, NEW u1, NEW u2, NEW b1, NEW b2, NEW since,
               OldHistory(k, u1, u2, b1, b2, since)
        PROVE  \A j \in Keys : /\ pointer[j] # NoRecord => ~pointer[j].marker
                               /\ \A v \in VersionIDs : versions[j][v] # NoRecord => ~versions[j][v].marker
    <3>1. \A u, b, l, t, n : ~OldVersion(u, b, l, t, n).marker
      BY DEF OldVersion
    <3>2. QED
      BY <2>3, <3>1 DEF OldHistory
  <2>4. QED
    BY <2>1, <2>2, <2>3 DEF Init
<1>3. ASSUME NEW k \in Keys, NEW v \in VersionIDs
      PROVE  Body(GetObjectMeta(k, v)) \in Paths \cup {Absent}
  <2>1. CASE GetObjectMeta(k, v) = NoRecord
    BY <2>1 DEF Body
  <2>2. CASE GetObjectMeta(k, v) # NoRecord
    <3>1. GetObjectMeta(k, v) = pointer[k] \/ GetObjectMeta(k, v) = versions[k][v]
      BY <2>2 DEF GetObjectMeta
    <3>2. ~GetObjectMeta(k, v).marker
      BY <1>2, <2>2, <3>1
    <3>3. GetObjectMeta(k, v) \in Record
      BY <1>a, <2>2, <3>1, Facts
    <3>4. QED
      BY <2>2, <3>2, <3>3 DEF Body, Record
  <2>3. QED
    BY <2>1, <2>2
<1>4. SeenBody \in [Keys -> [Contract!VersionIDs -> Paths \cup {Absent}]]
  BY <1>b, <1>3 DEF View, Contract!VersionIDs, VersionIDs
<1>5. ASSUME NEW k \in Keys
      PROVE  /\ SeenCurrent[k] \in VersionIDs \cup {Absent}
             /\ IF Contract!Stored(k) = {} THEN SeenCurrent[k] = Absent
                ELSE SeenCurrent[k] \in Contract!Stored(k)
  <2>1. /\ \A v : v \in Contract!Stored(k) <=> v \in VersionIDs /\ GetObjectMeta(k, v) # NoRecord
        /\ SeenCurrent[k] = Known(pointer[k])
    BY <1>a, StoredSeen
  <2>2. Unversioned \notin VersionIDs /\ NullVersion \in VersionIDs /\ Tells(k)
    BY <1>a, Facts
  <2>3. CASE pointer[k] = NoRecord
    <3>1. \A v \in VersionIDs : GetObjectMeta(k, v) = NoRecord
      BY <2>2, <2>3 DEF GetObjectMeta, Tells
    <3>2. QED
      BY <2>1, <2>3, <3>1 DEF Known
  <2>4. CASE pointer[k] # NoRecord
    <3>1. pointer[k].vid \in VersionIDs \cup {Unversioned}
      BY <1>a, <2>4, Facts DEF Record
    <3>2. CASE pointer[k].vid = Unversioned
      <4>1. Known(pointer[k]) = NullVersion /\ GetObjectMeta(k, NullVersion) # NoRecord
        BY <2>2, <2>4, <3>2 DEF Known, GetObjectMeta
      <4>2. QED
        BY <2>1, <2>2, <4>1
    <3>3. CASE pointer[k].vid \in VersionIDs
      <4>1. Known(pointer[k]) = pointer[k].vid /\ GetObjectMeta(k, pointer[k].vid) # NoRecord
        BY <2>2, <2>4, <3>3 DEF Known, GetObjectMeta, Tells
      <4>2. QED
        BY <2>1, <2>2, <3>3, <4>1
    <3>4. QED
      BY <3>1, <3>2, <3>3
  <2>5. QED
    BY <2>3, <2>4
<1>6. SeenCurrent \in [Keys -> Contract!VersionIDs \cup {Absent}]
  BY <1>5 DEF SeenCurrent, Contract!VersionIDs, VersionIDs
<1>7. QED
  BY <1>1, <1>4, <1>5, <1>6 DEF Contract!Init

\* The storage engine implements the bucket of BucketContract: PutObject,
\* the deletes and SetBucketVersioning each show their whole effect to clients
\* in the step that commits their metadata, and nothing else shows.
THEOREM StoreImplementsContract == Spec => ImplementsContract
<1>1. Control /\ MetaInv /\ DataInv => StoreInv
  BY DEF StoreInv
<1>2. QED
  BY <1>1, ContractInit, ContractNext, DataHolds, PTL DEF Spec, ImplementsContract, Contract!Spec
=============================================================================

------------------------ MODULE BucketHandlesProofs ------------------------
(***************************************************************************)
(* Proofs about BucketHandles, for any set of buckets, handlers, handles   *)
(* and files and any cap on open databases.                                *)
(***************************************************************************)
EXTENDS BucketHandles, FiniteSetTheorems, TLAPS

-----------------------------------------------------------------------------
(***************************************************************************)
(* Types, and which locals belong to which place in a handler              *)
(***************************************************************************)
PCs == {"idle", "enter", "acquire", "verify", "verified", "initialize", "opened",
        "using", "used", "create", "emptied", "unregistered", "detached"}
Locals == [kind : {"none"} \cup Requests, name : Names \cup {NoFile},
           h : Handles \cup {NoHandle}, empty : BOOLEAN]
Entry == [file : Files \cup {NoFile}, refs : Nat, evicted : BOOLEAN, open : BOOLEAN,
          raced : BOOLEAN]

HasHandle == {"opened", "using", "used"}
Acquiring == {"acquire", "verify", "verified", "initialize"} \cup HasHandle
Deleting == {"emptied", "unregistered", "detached"}

Shape(at, l) ==
    /\ at # "idle" => l.name \in Names /\ l.kind # "none"
    /\ at \in HasHandle <=> l.h # NoHandle
    /\ at = "create" <=> l.kind = "create"
    /\ at \in Deleting => l.kind = "delete" /\ l.empty
    /\ l.empty => l.kind = "delete" /\ at \in Deleting \cup {"used"}
    /\ l.kind = "list" => at \in Acquiring

LocalsOK == \A p \in Procs : Shape(pc[p], loc[p])

\* Who has acquired a handle and not released it.
Users(h) == {p \in Procs : pc[p] \in {"using", "used"} /\ loc[p].h = h}

\* The reference count counts the users.
RefsCount == \A h \in Handles : db[h].refs = Cardinality(Users(h))

\* bolt.Open has given every open handle its file.
OpenHasFile == \A h \in Handles : db[h].open => db[h].file \in Files

TypeInv == TypeOK /\ LocalsOK

LEMMA BlankType == Blank \in Locals /\ Shape("idle", Blank) /\ Shut \in Entry
  BY DEF Blank, Locals, Shape, Shut, Entry, HasHandle, Deleting, Acquiring

LEMMA EntryRefs ==
    ASSUME NEW e \in Entry, NEW k \in Nat
    PROVE  /\ [e EXCEPT !.refs = k] \in Entry
           /\ [e EXCEPT !.refs = k].refs = k
           /\ [e EXCEPT !.refs = k].file = e.file
           /\ [e EXCEPT !.refs = k].open = e.open
           /\ [e EXCEPT !.refs = k].evicted = e.evicted
  BY DEF Entry

LEMMA UsersFinite ==
    ASSUME NEW h
    PROVE  IsFiniteSet(Users(h)) /\ Cardinality(Users(h)) \in Nat
  BY HandleAssumption, FS_Subset, FS_CardinalityType DEF Users

LEMMA UsedIsCounted ==
    ASSUME TypeInv, RefsCount, NEW p \in Procs, pc[p] \in {"using", "used"}
    PROVE  loc[p].h \in Handles /\ db[loc[p].h].refs \in Nat /\ db[loc[p].h].refs > 0
<1>1. loc[p].h \in Handles
  BY DEF TypeInv, TypeOK, LocalsOK, Shape, HasHandle
<1>2. p \in Users(loc[p].h)
  BY DEF Users
<1>3. Cardinality(Users(loc[p].h)) # 0
  BY <1>2, UsersFinite, FS_EmptySet
<1>4. QED
  BY <1>1, <1>3, UsersFinite DEF RefsCount

\* A step of one handler that leaves it with well-formed locals.
LEMMA ProcessStep ==
    ASSUME TypeInv, NEW p \in Procs, NEW to \in PCs, NEW l \in Locals, Shape(to, l),
           pc' = [pc EXCEPT ![p] = to], loc' = [loc EXCEPT ![p] = l]
    PROVE  pc' \in [Procs -> PCs] /\ loc' \in [Procs -> Locals] /\ LocalsOK'
  BY DEF TypeInv, TypeOK, LocalsOK, PCs, Locals

LEMMA ReturnType ==
    ASSUME TypeInv, NEW p \in Procs, Return(p)
    PROVE  /\ pc' \in [Procs -> PCs] /\ loc' \in [Procs -> Locals] /\ LocalsOK'
           /\ exclusive' \in [Names -> Procs \cup {NoProc}]
           /\ sharers' \in [Names -> SUBSET Procs]
           /\ writer' \in [Names -> Procs \cup {NoProc}]
           /\ readers' \in [Names -> SUBSET Procs]
           /\ initLock' \in [Names -> Procs \cup {NoProc}]
<1>1. pc' \in [Procs -> PCs] /\ loc' \in [Procs -> Locals] /\ LocalsOK'
  BY BlankType, ProcessStep DEF Return, Go, PCs
<1>2. QED
  BY <1>1 DEF Return, Unlock, Leave, TypeInv, TypeOK

\* A request that arrives.
LEMMA EnterType ==
    ASSUME TypeInv, NEW p \in Procs, NEW kind \in Requests, NEW n \in Names,
           NEW to \in {"enter", "acquire", "create"}, Enter(p, kind, n, to),
           to = "create" <=> kind = "create", to = "acquire" <=> kind = "list"
    PROVE  pc' \in [Procs -> PCs] /\ loc' \in [Procs -> Locals] /\ LocalsOK'
<1> DEFINE l == [Blank EXCEPT !.kind = kind, !.name = n]
<1>1. l \in Locals /\ l.kind = kind /\ l.name = n /\ l.h = NoHandle /\ l.empty = FALSE
  BY DEF Blank, Locals
<1>2. pc' = [pc EXCEPT ![p] = to] /\ loc' = [loc EXCEPT ![p] = l] /\ to \in PCs
  BY DEF Enter, Go, PCs
<1> HIDE DEF l
<1>3. kind # "none"
  BY HandleAssumption
<1>4. Shape(to, l)
  <2>1. to \notin HasHandle /\ to \notin Deleting
    BY DEF HasHandle, Deleting
  <2>2. kind = "list" => to \in Acquiring
    BY DEF Acquiring
  <2>3. QED
    BY <1>1, <1>3, <2>1, <2>2 DEF Shape
<1>5. QED
  BY <1>1, <1>2, <1>4, ProcessStep

-----------------------------------------------------------------------------
LEMMA TypeInit == Init => TypeInv /\ RefsCount
<1> SUFFICES ASSUME Init PROVE TypeInv /\ RefsCount
  OBVIOUS
<1>1. file \in [Names -> Files \cup {NoFile}] /\ records \subseteq Files \X {"object", "marker"}
  <2>1. PICK made \in [registry -> Files] :
             /\ file = [n \in Names |-> IF n \in registry THEN made[n] ELSE NoFile]
             /\ records \in SUBSET {<<made[n], "object">> : n \in registry}
    BY DEF Init
  <2>2. QED
    BY <2>1 DEF Init
<1>2. LocalsOK
  BY BlankType DEF Init, LocalsOK
<1>3. TypeOK
  BY <1>1, BlankType DEF Init, TypeOK, Locals, Entry
<1>4. \A h \in Handles : Users(h) = {}
  BY DEF Init, Users
<1>5. RefsCount
  BY <1>4, FS_EmptySet DEF Init, RefsCount, Shut
<1>6. QED
  BY <1>2, <1>3, <1>5 DEF TypeInv

\* What arrives.
LEMMA BeginType ==
    ASSUME TypeInv, NEW p \in Procs, NEW n \in Names, Begin(p, n)
    PROVE  TypeInv'
<1>1. CASE "put" \in Requests /\ Put(p, n)
  <2>1. pc' \in [Procs -> PCs] /\ loc' \in [Procs -> Locals] /\ LocalsOK'
    BY <1>1, EnterType DEF Put
  <2>2. sharers' \in [Names -> SUBSET Procs]
    BY <1>1 DEF Put, TypeInv, TypeOK
  <2>3. QED
    BY <1>1, <2>1, <2>2 DEF Put, TypeInv, TypeOK, PCs, Locals, files
<1>2. CASE "remove" \in Requests /\ Delete(p, n)
  <2>1. pc' \in [Procs -> PCs] /\ loc' \in [Procs -> Locals] /\ LocalsOK'
    BY <1>2, EnterType DEF Delete
  <2>2. QED
    BY <1>2, <2>1 DEF Delete, TypeInv, TypeOK, PCs, Locals, files, locks
<1>3. CASE "list" \in Requests /\ List(p, n)
  <2>1. pc' \in [Procs -> PCs] /\ loc' \in [Procs -> Locals] /\ LocalsOK'
    BY <1>3, EnterType DEF List
  <2>2. QED
    BY <1>3, <2>1 DEF List, TypeInv, TypeOK, PCs, Locals, files, locks
<1>4. CASE "create" \in Requests /\ CreateBucket(p, n)
  <2>1. pc' \in [Procs -> PCs] /\ loc' \in [Procs -> Locals] /\ LocalsOK'
    BY <1>4, EnterType DEF CreateBucket
  <2>2. exclusive' \in [Names -> Procs \cup {NoProc}]
    BY <1>4 DEF CreateBucket, lockBucket, TypeInv, TypeOK
  <2>3. QED
    BY <1>4, <2>1, <2>2 DEF CreateBucket, lockBucket, TypeInv, TypeOK, PCs, Locals, files
<1>5. CASE "delete" \in Requests /\ DeleteBucket(p, n)
  <2>1. pc' \in [Procs -> PCs] /\ loc' \in [Procs -> Locals] /\ LocalsOK'
    BY <1>5, EnterType DEF DeleteBucket
  <2>2. exclusive' \in [Names -> Procs \cup {NoProc}]
    BY <1>5 DEF DeleteBucket, lockBucket, TypeInv, TypeOK
  <2>3. QED
    BY <1>5, <2>1, <2>2 DEF DeleteBucket, lockBucket, TypeInv, TypeOK, PCs, Locals, files
<1>6. QED
  BY <1>1, <1>2, <1>3, <1>4, <1>5 DEF Begin

\* What a handler does.
LEMMA StepType ==
    ASSUME TypeInv, RefsCount, NoUseAfterClose, OpenHasFile, NEW p \in Procs, Step(p)
    PROVE  TypeInv'
<1>a. /\ pc[p] \in PCs /\ loc[p] \in Locals /\ Shape(pc[p], loc[p])
      /\ loc = [loc EXCEPT ![p] = loc[p]]
  BY DEF TypeInv, TypeOK, LocalsOK, PCs, Locals
<1>b. /\ pc[p] # "idle" => loc[p].name \in Names
      /\ pc[p] \in HasHandle => loc[p].h \in Handles
  BY <1>a DEF Shape, Locals
<1>1. CASE acquireBucketLock(p)
  <2>1. Shape("acquire", loc[p])
    BY <1>1, <1>a DEF acquireBucketLock, Shape, HasHandle, Deleting, Acquiring
  <2>2. pc' \in [Procs -> PCs] /\ loc' \in [Procs -> Locals] /\ LocalsOK'
    BY <1>1, <1>a, <2>1, ProcessStep DEF acquireBucketLock, Go, PCs
  <2>3. readers' \in [Names -> SUBSET Procs]
    BY <1>1, <1>b DEF acquireBucketLock, TypeInv, TypeOK
  <2>4. QED
    BY <1>1, <2>2, <2>3 DEF acquireBucketLock, TypeInv, TypeOK, PCs, Locals, files
<1>2. CASE AcquireHit(p)
  <2> DEFINE h == active[loc[p].name]
             l == [loc[p] EXCEPT !.h = h]
  <2>1. loc[p].name \in Names /\ h \in Handles
    BY <1>2, <1>b DEF AcquireHit, TypeInv, TypeOK
  <2>2. l \in Locals /\ Shape("using", l) /\ loc' = [loc EXCEPT ![p] = l]
    <3>1. l \in Locals /\ l.kind = loc[p].kind /\ l.name = loc[p].name /\ l.h = h /\ l.empty = loc[p].empty
      BY <1>a, <2>1 DEF Locals
    <3>2. Shape("using", l)
      BY <1>2, <1>a, <2>1, <3>1, HandleAssumption
         DEF AcquireHit, Shape, HasHandle, Deleting, Acquiring
    <3>3. loc' = [loc EXCEPT ![p] = l]
      BY <1>2, SMTT(30) DEF AcquireHit, TypeInv, TypeOK
    <3>4. QED
      BY <3>1, <3>2, <3>3
  <2>3. pc' \in [Procs -> PCs] /\ loc' \in [Procs -> Locals] /\ LocalsOK'
    BY <1>2, <2>2, ProcessStep DEF AcquireHit, Go, PCs
  <2>a. [db[h] EXCEPT !.refs = @ + 1] \in Entry
    <3>1. db[h] \in Entry /\ db[h].refs + 1 \in Nat
      BY <2>1 DEF TypeInv, TypeOK, Entry
    <3>2. QED
      BY <3>1, EntryRefs
  <2>b. db' = [db EXCEPT ![h] = [db[h] EXCEPT !.refs = @ + 1]]
    BY <1>2 DEF AcquireHit
  <2>4. db' \in [Handles -> Entry] /\ initLock' \in [Names -> Procs \cup {NoProc}]
    BY <1>2, <2>1, <2>a, <2>b DEF AcquireHit, Unlock, TypeInv, TypeOK, Entry
  <2>5. QED
    BY <1>2, <2>3, <2>4 DEF AcquireHit, TypeInv, TypeOK, PCs, Locals, Entry, files, locks
<1>3. CASE AcquireMiss(p)
  <2>1. Shape("verify", loc[p])
    BY <1>3, <1>a DEF AcquireMiss, Shape, HasHandle, Deleting, Acquiring
  <2>2. pc' \in [Procs -> PCs] /\ loc' \in [Procs -> Locals] /\ LocalsOK'
    BY <1>3, <1>a, <2>1, ProcessStep DEF AcquireMiss, Go, PCs
  <2>3. QED
    BY <1>3, <2>2 DEF AcquireMiss, TypeInv, TypeOK, PCs, Locals, files, locks
<1>4. CASE AcquireVerify(p)
  <2>1. CASE loc[p].name \in registry
    <3>1. Shape("verified", loc[p])
      BY <1>4, <1>a DEF AcquireVerify, Shape, HasHandle, Deleting, Acquiring
    <3>2. pc' \in [Procs -> PCs] /\ loc' \in [Procs -> Locals] /\ LocalsOK'
      BY <1>4, <1>a, <2>1, <3>1, ProcessStep DEF AcquireVerify, Go, PCs
    <3>3. QED
      BY <1>4, <2>1, <3>2 DEF AcquireVerify, TypeInv, TypeOK, PCs, Locals, files, locks
  <2>2. CASE loc[p].name \notin registry
    BY <1>4, <2>2, ReturnType DEF AcquireVerify, TypeInv, TypeOK, PCs, Locals, files
  <2>3. QED
    BY <2>1, <2>2
<1>5. CASE AcquireInit(p)
  <2>1. Shape("initialize", loc[p])
    BY <1>5, <1>a DEF AcquireInit, Shape, HasHandle, Deleting, Acquiring
  <2>2. pc' \in [Procs -> PCs] /\ loc' \in [Procs -> Locals] /\ LocalsOK'
    BY <1>5, <1>a, <2>1, ProcessStep DEF AcquireInit, Go, PCs
  <2>3. initLock' \in [Names -> Procs \cup {NoProc}]
    BY <1>5, <1>b DEF AcquireInit, TypeInv, TypeOK
  <2>4. QED
    BY <1>5, <2>2, <2>3 DEF AcquireInit, TypeInv, TypeOK, PCs, Locals, files, locks
<1>6. CASE AcquireOpen(p)
  <2>1. PICK h \in Handles, f \in Files :
             /\ file' = [file EXCEPT ![loc[p].name] = f]
             /\ records' = IF file[loc[p].name] = NoFile THEN Without(f) ELSE records
             /\ db' = [db EXCEPT ![h] = [Shut EXCEPT !.file = f, !.open = TRUE,
                                                !.raced = Removing(loc[p].name)]]
             /\ loc' = [loc EXCEPT ![p].h = h]
    BY <1>6 DEF AcquireOpen
  <2> DEFINE l == [loc[p] EXCEPT !.h = h]
  <2>2. l \in Locals /\ Shape("opened", l) /\ loc' = [loc EXCEPT ![p] = l]
    <3>1. l \in Locals /\ l.kind = loc[p].kind /\ l.name = loc[p].name /\ l.h = h /\ l.empty = loc[p].empty
      BY <1>a, <2>1 DEF Locals
    <3>2. Shape("opened", l)
      BY <1>6, <1>a, <2>1, <3>1, HandleAssumption
         DEF AcquireOpen, Shape, HasHandle, Deleting, Acquiring
    <3>3. loc' = [loc EXCEPT ![p] = l]
      BY <2>1 DEF TypeInv, TypeOK
    <3>4. QED
      BY <3>1, <3>2, <3>3
  <2>3. pc' \in [Procs -> PCs] /\ loc' \in [Procs -> Locals] /\ LocalsOK'
    BY <1>6, <2>2, ProcessStep DEF AcquireOpen, Go, PCs
  <2>4. [Shut EXCEPT !.file = f, !.open = TRUE, !.raced = Removing(loc[p].name)] \in Entry
    <3>1. Removing(loc[p].name) \in BOOLEAN
      BY DEF Removing
    <3>2. \A b \in BOOLEAN : [Shut EXCEPT !.file = f, !.open = TRUE, !.raced = b] \in Entry
      BY DEF Shut, Entry
    <3>3. QED
      BY <3>1, <3>2
  <2>5. /\ file' \in [Names -> Files \cup {NoFile}] /\ db' \in [Handles -> Entry]
        /\ records' \subseteq Files \X {"object", "marker"}
    BY <2>1, <2>4 DEF TypeInv, TypeOK, Entry, Without
  <2>6. QED
    BY <1>6, <2>3, <2>5 DEF AcquireOpen, TypeInv, TypeOK, PCs, Locals, Entry, locks
<1>7. CASE AcquireFails(p)
  BY <1>7, ReturnType DEF AcquireFails, TypeInv, TypeOK, PCs, Locals, files
<1>7a. CASE AcquireGivesUp(p)
  <2>1. db' \in [Handles -> Entry]
    BY <1>7a, BlankType DEF AcquireGivesUp, TypeInv, TypeOK, Entry
  <2>2. QED
    BY <1>7a, <2>1, ReturnType DEF AcquireGivesUp, TypeInv, TypeOK, PCs, Locals, Entry, files
<1>8. CASE AcquireInsert(p)
  <2>1. Shape("using", loc[p])
    BY <1>8, <1>a DEF AcquireInsert, Shape, HasHandle, Deleting, Acquiring
  <2>2. pc' \in [Procs -> PCs] /\ loc' \in [Procs -> Locals] /\ LocalsOK'
    BY <1>8, <1>a, <2>1, ProcessStep DEF AcquireInsert, Go, PCs
  <2>3. loc[p].name \in Names /\ loc[p].h \in Handles
    BY <1>8, <1>b DEF AcquireInsert, HasHandle
  <2>4. active' \in [Names -> Handles \cup {NoHandle}] /\ db' \in [Handles -> Entry]
    <3>1. \/ /\ active' = [active EXCEPT ![loc[p].name] = loc[p].h]
             /\ db' = [db EXCEPT ![loc[p].h].refs = 1]
          \/ \E m \in Evictable(loc[p].name) :
               /\ active' = [active EXCEPT ![loc[p].name] = loc[p].h, ![m] = NoHandle]
               /\ db' = [db EXCEPT ![loc[p].h].refs = 1, ![active[m]] = Shut]
      BY <1>8 DEF AcquireInsert
    <3>2. [db EXCEPT ![loc[p].h].refs = 1] \in [Handles -> Entry]
      BY <2>3, ZenonT(60) DEF TypeInv, TypeOK, Entry
    <3>3. CASE /\ active' = [active EXCEPT ![loc[p].name] = loc[p].h]
               /\ db' = [db EXCEPT ![loc[p].h].refs = 1]
      BY <2>3, <3>2, <3>3 DEF TypeInv, TypeOK
    <3>4. ASSUME NEW m \in Evictable(loc[p].name),
                 active' = [active EXCEPT ![loc[p].name] = loc[p].h, ![m] = NoHandle],
                 db' = [db EXCEPT ![loc[p].h].refs = 1, ![active[m]] = Shut]
          PROVE  active' \in [Names -> Handles \cup {NoHandle}] /\ db' \in [Handles -> Entry]
      <4>1. active[m] \in Handles
        BY <3>4 DEF TypeInv, TypeOK, Evictable
      <4>2. db' \in [Handles -> Entry]
        BY <3>2, <3>4, <4>1, BlankType
      <4>3. active' \in [Names -> Handles \cup {NoHandle}]
        BY <2>3, <3>4 DEF TypeInv, TypeOK
      <4>4. QED
        BY <4>2, <4>3
    <3>5. QED
      BY <3>1, <3>3, <3>4
  <2>5. initLock' \in [Names -> Procs \cup {NoProc}]
    BY <1>8 DEF AcquireInsert, Unlock, TypeInv, TypeOK
  <2>6. QED
    BY <1>8, <2>2, <2>4, <2>5 DEF AcquireInsert, TypeInv, TypeOK, PCs, Locals, Entry, files, locks
<1>9. CASE Transact(p)
  <2> DEFINE f == db[loc[p].h].file
             e == loc[p].kind = "delete" /\ records = Without(f)
             l == [loc[p] EXCEPT !.empty = e]
  <2>1. l \in Locals /\ Shape("used", l) /\ loc' = [loc EXCEPT ![p] = l]
    <3>1. l \in Locals /\ l.kind = loc[p].kind /\ l.name = loc[p].name /\ l.h = loc[p].h /\ l.empty = e
      BY <1>a DEF Locals
    <3>2. Shape("used", l)
      BY <1>9, <1>a, <3>1 DEF Transact, Shape, HasHandle, Deleting, Acquiring
    <3>3. loc' = [loc EXCEPT ![p] = l]
      BY <1>9 DEF Transact, TypeInv, TypeOK
    <3>4. QED
      BY <3>1, <3>2, <3>3
  <2>2. pc' \in [Procs -> PCs] /\ loc' \in [Procs -> Locals] /\ LocalsOK'
    BY <1>9, <2>1, ProcessStep DEF Transact, Go, PCs
  <2>a. f \in Files
    BY <1>9, <1>b DEF Transact, HasHandle, NoUseAfterClose, OpenHasFile
  <2>3. records' \subseteq Files \X {"object", "marker"}
    BY <1>9, <2>a DEF Transact, TypeInv, TypeOK, Without
  <2>4. QED
    BY <1>9, <2>2, <2>3 DEF Transact, TypeInv, TypeOK, PCs, Locals, locks
<1>10. CASE releaseBucketDB(p)
  <2>1. loc[p].h \in Handles /\ db[loc[p].h].refs \in Nat \ {0}
    BY <1>10, UsedIsCounted DEF releaseBucketDB
  <2>2. db' \in [Handles -> Entry]
    <3>a. db[loc[p].h].refs - 1 \in Nat /\ db[loc[p].h] \in Entry
      BY <2>1 DEF TypeInv, TypeOK, Entry
    <3>b. [db[loc[p].h] EXCEPT !.refs = @ - 1] \in Entry
      BY <3>a DEF Entry
    <3>1. [db EXCEPT ![loc[p].h].refs = @ - 1] \in [Handles -> Entry]
      BY <2>1, <3>b DEF TypeInv, TypeOK, Entry
    <3>2. QED
      BY <1>10, <2>1, <3>1, BlankType DEF releaseBucketDB, Released, TypeInv, TypeOK, Entry
  <2>3. CASE loc[p].empty
    <3> DEFINE l == [loc[p] EXCEPT !.h = NoHandle]
    <3>1. l \in Locals /\ l.kind = loc[p].kind /\ l.name = loc[p].name /\ l.h = NoHandle /\ l.empty = loc[p].empty
      BY <1>a DEF Locals
    <3>2. Shape("emptied", l)
      BY <1>10, <1>a, <2>3, <3>1 DEF releaseBucketDB, Shape, HasHandle, Deleting, Acquiring
    <3>3. loc' = [loc EXCEPT ![p] = l]
      BY <1>10, <2>3 DEF releaseBucketDB, TypeInv, TypeOK
    <3>4. pc' \in [Procs -> PCs] /\ loc' \in [Procs -> Locals] /\ LocalsOK'
      BY <1>10, <2>3, <3>1, <3>2, <3>3, ProcessStep DEF releaseBucketDB, Go, PCs
    <3>5. QED
      BY <1>10, <2>2, <2>3, <3>4 DEF releaseBucketDB, Leave, TypeInv, TypeOK, PCs, Locals, Entry, files
  <2>4. CASE ~loc[p].empty
    BY <1>10, <2>2, <2>4, ReturnType DEF releaseBucketDB, TypeInv, TypeOK, PCs, Locals, Entry, files
  <2>5. QED
    BY <2>3, <2>4
<1>11. CASE CreateCommit(p)
  BY <1>11, <1>b, ReturnType DEF CreateCommit, TypeInv, TypeOK, PCs, Locals
<1>12. CASE DeleteUnregister(p)
  <2>1. Shape("unregistered", loc[p])
    BY <1>12, <1>a DEF DeleteUnregister, Shape, HasHandle, Deleting, Acquiring
  <2>2. pc' \in [Procs -> PCs] /\ loc' \in [Procs -> Locals] /\ LocalsOK'
    BY <1>12, <1>a, <2>1, ProcessStep DEF DeleteUnregister, Go, PCs
  <2>3. writer' \in [Names -> Procs \cup {NoProc}]
    BY <1>12, <1>b DEF DeleteUnregister, TypeInv, TypeOK
  <2>4. QED
    BY <1>12, <2>2, <2>3 DEF DeleteUnregister, TypeInv, TypeOK, PCs, Locals
<1>13. CASE closeAndRemoveBucketDB(p)
  <2>1. Shape("detached", loc[p])
    BY <1>13, <1>a DEF closeAndRemoveBucketDB, Shape, HasHandle, Deleting, Acquiring
  <2>2. pc' \in [Procs -> PCs] /\ loc' \in [Procs -> Locals] /\ LocalsOK'
    BY <1>13, <1>a, <2>1, ProcessStep DEF closeAndRemoveBucketDB, Go, PCs
  <2>3. active' \in [Names -> Handles \cup {NoHandle}]
    BY <1>13 DEF closeAndRemoveBucketDB, TypeInv, TypeOK
  <2>4. db' \in [Handles -> Entry]
    BY <1>13, <1>b, BlankType DEF closeAndRemoveBucketDB, TypeInv, TypeOK, Entry
  <2>5. QED
    BY <1>13, <2>2, <2>3, <2>4 DEF closeAndRemoveBucketDB, TypeInv, TypeOK, PCs, Locals, Entry, files, locks
<1>14. CASE DeleteFile(p)
  BY <1>14, <1>b, ReturnType DEF DeleteFile, TypeInv, TypeOK, PCs, Locals
<1>15. QED
  BY <1>1, <1>2, <1>3, <1>4, <1>5, <1>6, <1>7, <1>7a, <1>8, <1>9, <1>10, <1>11, <1>12, <1>13,
     <1>14 DEF Step

LEMMA CrashType == TypeInv /\ Crash => TypeInv'
<1> SUFFICES ASSUME TypeInv, Crash PROVE TypeInv'
  OBVIOUS
<1>1. LocalsOK'
  BY BlankType DEF Crash, LocalsOK
<1>2. QED
  BY <1>1, BlankType DEF Crash, TypeInv, TypeOK, Locals, Entry, files

-----------------------------------------------------------------------------
(***************************************************************************)
(* Who holds which lock                                                    *)
(***************************************************************************)

\* What a handler holds at each place.
Holds(p) ==
    LET n == loc[p].name
        at == pc[p]
    IN  /\ at # "idle" /\ loc[p].kind \in {"create", "delete"} => exclusive[n] = p
        /\ at # "idle" /\ loc[p].kind = "put" => p \in sharers[n] /\ n \in registry
        /\ at \in Acquiring /\ loc[p].kind # "list" => p \in readers[n]
        /\ at \in {"unregistered", "detached"} => writer[n] = p
        /\ at \in {"initialize", "opened"} => initLock[n] = p

\* Exclusive and shared holders exclude each other.
Apart(n) ==
    /\ exclusive[n] # NoProc => sharers[n] = {}
    /\ writer[n] # NoProc => readers[n] = {}

LockInv == (\A p \in Procs : Holds(p)) /\ (\A n \in Names : Apart(n))

\* A step of p leaves the others where they are, with the locks they hold.
Kept(p) ==
    \A q \in Procs \ {p} :
        /\ pc'[q] = pc[q] /\ loc'[q] = loc[q]
        /\ \A n \in Names :
             /\ exclusive[n] = q => exclusive'[n] = q
             /\ q \in sharers[n] => q \in sharers'[n]
             /\ writer[n] = q => writer'[n] = q
             /\ q \in readers[n] => q \in readers'[n]
             /\ initLock[n] = q => initLock'[n] = q

\* What it does to the locks keeps holders apart.
LEMMA ReturnLocks ==
    ASSUME TypeInv, LockInv, NEW p \in Procs, Return(p)
    PROVE  Kept(p) /\ pc'[p] = "idle" /\ loc'[p] = Blank /\ \A n \in Names : Apart(n)'
<1>1. Kept(p) /\ pc'[p] = "idle" /\ loc'[p] = Blank
  BY DEF Return, Go, Unlock, Leave, Kept, TypeInv, TypeOK
<1>2. ASSUME NEW n \in Names PROVE Apart(n)'
  BY DEF Return, Unlock, Leave, LockInv, Apart, TypeInv, TypeOK
<1>3. QED
  BY <1>1, <1>2

LEMMA BeginLocks ==
    ASSUME TypeInv, LockInv, NEW p \in Procs, NEW k \in Names, Begin(p, k)
    PROVE  Kept(p) /\ Holds(p)' /\ \A n \in Names : Apart(n)'
<1>1. CASE "put" \in Requests /\ Put(p, k)
  <2>1. Kept(p) /\ pc'[p] = "enter" /\ loc'[p].kind = "put" /\ loc'[p].name = k
    BY <1>1 DEF Put, Enter, Go, Kept, Blank, TypeInv, TypeOK
  <2>2. Holds(p)'
    BY <1>1, <2>1 DEF Put, Holds, Acquiring, HasHandle, files, TypeInv, TypeOK
  <2>3. \A n \in Names : Apart(n)'
    BY <1>1 DEF Put, LockInv, Apart, TypeInv, TypeOK
  <2>4. QED
    BY <2>1, <2>2, <2>3
<1>2. CASE "remove" \in Requests /\ Delete(p, k)
  <2>1. Kept(p) /\ pc'[p] = "enter" /\ loc'[p].kind = "remove" /\ loc'[p].name = k
    BY <1>2 DEF Delete, Enter, Go, Kept, Blank, locks, TypeInv, TypeOK
  <2>2. Holds(p)'
    BY <2>1 DEF Holds, Acquiring, HasHandle
  <2>3. \A n \in Names : Apart(n)'
    BY <1>2 DEF Delete, LockInv, Apart, locks
  <2>4. QED
    BY <2>1, <2>2, <2>3
<1>3. CASE "list" \in Requests /\ List(p, k)
  <2>1. Kept(p) /\ pc'[p] = "acquire" /\ loc'[p].kind = "list" /\ loc'[p].name = k
    BY <1>3 DEF List, Enter, Go, Kept, Blank, locks, TypeInv, TypeOK
  <2>2. Holds(p)'
    BY <2>1 DEF Holds, Acquiring, HasHandle
  <2>3. \A n \in Names : Apart(n)'
    BY <1>3 DEF List, LockInv, Apart, locks
  <2>4. QED
    BY <2>1, <2>2, <2>3
<1>4. CASE "create" \in Requests /\ CreateBucket(p, k)
  <2>1. Kept(p) /\ pc'[p] = "create" /\ loc'[p].kind = "create" /\ loc'[p].name = k
    BY <1>4, HandleAssumption DEF CreateBucket, lockBucket, Enter, Go, Kept, Blank, TypeInv, TypeOK
  <2>2. Holds(p)'
    BY <1>4, <2>1 DEF CreateBucket, lockBucket, Holds, Acquiring, HasHandle, TypeInv, TypeOK
  <2>3. \A n \in Names : Apart(n)'
    BY <1>4 DEF CreateBucket, lockBucket, LockInv, Apart, TypeInv, TypeOK
  <2>4. QED
    BY <2>1, <2>2, <2>3
<1>5. CASE "delete" \in Requests /\ DeleteBucket(p, k)
  <2>1. Kept(p) /\ pc'[p] = "enter" /\ loc'[p].kind = "delete" /\ loc'[p].name = k
    BY <1>5, HandleAssumption DEF DeleteBucket, lockBucket, Enter, Go, Kept, Blank, TypeInv, TypeOK
  <2>2. Holds(p)'
    BY <1>5, <2>1 DEF DeleteBucket, lockBucket, Holds, Acquiring, HasHandle, TypeInv, TypeOK
  <2>3. \A n \in Names : Apart(n)'
    BY <1>5 DEF DeleteBucket, lockBucket, LockInv, Apart, TypeInv, TypeOK
  <2>4. QED
    BY <2>1, <2>2, <2>3
<1>6. QED
  BY <1>1, <1>2, <1>3, <1>4, <1>5 DEF Begin

LEMMA StepLocks ==
    ASSUME TypeInv, LockInv, NEW p \in Procs, Step(p)
    PROVE  Kept(p) /\ Holds(p)' /\ \A n \in Names : Apart(n)'
<1>a. /\ pc[p] \in PCs /\ loc[p] \in Locals /\ Shape(pc[p], loc[p]) /\ Holds(p)
      /\ pc[p] # "idle" => loc[p].name \in Names
  BY DEF TypeInv, TypeOK, LocalsOK, PCs, Locals, LockInv, Shape
<1>b. ASSUME pc'[p] = "idle" PROVE Holds(p)'
  BY <1>b DEF Holds, Acquiring, HasHandle
<1>1. CASE acquireBucketLock(p)
  <2>1. Kept(p) /\ pc'[p] = "acquire" /\ loc'[p].kind = loc[p].kind /\ loc'[p].name = loc[p].name
    BY <1>1, <1>a, HandleAssumption DEF acquireBucketLock, Go, Kept, locks, TypeInv, TypeOK, Locals
  <2>2. Holds(p)'
    BY <1>1, <1>a, <2>1 DEF acquireBucketLock, Shape, Holds, Acquiring, HasHandle, Deleting, locks, files, TypeInv, TypeOK
  <2>3. \A n \in Names : Apart(n)'
    BY <1>1, <1>a DEF acquireBucketLock, LockInv, Apart, locks, TypeInv, TypeOK
  <2>4. QED
    BY <2>1, <2>2, <2>3
<1>2. CASE AcquireHit(p)
  <2>1. Kept(p) /\ pc'[p] = "using" /\ loc'[p].kind = loc[p].kind /\ loc'[p].name = loc[p].name
    BY <1>2, <1>a, HandleAssumption DEF AcquireHit, Unlock, Go, Kept, locks, TypeInv, TypeOK, Locals
  <2>2. Holds(p)'
    BY <1>2, <1>a, <2>1 DEF AcquireHit, Unlock, Shape, Holds, Acquiring, HasHandle, Deleting, locks, files, TypeInv, TypeOK
  <2>3. \A n \in Names : Apart(n)'
    BY <1>2, <1>a DEF AcquireHit, Unlock, LockInv, Apart, locks, TypeInv, TypeOK
  <2>4. QED
    BY <2>1, <2>2, <2>3
<1>3. CASE AcquireMiss(p)
  <2>1. Kept(p) /\ pc'[p] = "verify" /\ loc'[p].kind = loc[p].kind /\ loc'[p].name = loc[p].name
    BY <1>3, <1>a, HandleAssumption DEF AcquireMiss, Go, Kept, locks, TypeInv, TypeOK, Locals
  <2>2. Holds(p)'
    BY <1>3, <1>a, <2>1 DEF AcquireMiss, Shape, Holds, Acquiring, HasHandle, Deleting, locks, files, TypeInv, TypeOK
  <2>3. \A n \in Names : Apart(n)'
    BY <1>3, <1>a DEF AcquireMiss, LockInv, Apart, locks, TypeInv, TypeOK
  <2>4. QED
    BY <2>1, <2>2, <2>3
<1>4. CASE AcquireVerify(p)
  <2>1. CASE loc[p].name \notin registry
    BY <1>4, <2>1, <1>b, ReturnLocks DEF AcquireVerify
  <2>2. CASE loc[p].name \in registry
    <3>1. Kept(p) /\ pc'[p] = "verified" /\ loc'[p].kind = loc[p].kind /\ loc'[p].name = loc[p].name
      BY <1>4, <2>2 DEF AcquireVerify, Go, Kept, locks, TypeInv, TypeOK
    <3>2. Holds(p)'
      BY <1>4, <2>2, <1>a, <3>1 DEF AcquireVerify, Shape, Holds, Acquiring, HasHandle, locks, files
    <3>3. \A n \in Names : Apart(n)'
      BY <1>4, <2>2 DEF AcquireVerify, LockInv, Apart, locks
    <3>4. QED
      BY <3>1, <3>2, <3>3
  <2>3. QED
    BY <2>1, <2>2
<1>5. CASE AcquireInit(p)
  <2>1. Kept(p) /\ pc'[p] = "initialize" /\ loc'[p].kind = loc[p].kind /\ loc'[p].name = loc[p].name
    BY <1>5, <1>a, HandleAssumption DEF AcquireInit, Go, Kept, locks, TypeInv, TypeOK, Locals
  <2>2. Holds(p)'
    BY <1>5, <1>a, <2>1 DEF AcquireInit, Shape, Holds, Acquiring, HasHandle, Deleting, locks, files, TypeInv, TypeOK
  <2>3. \A n \in Names : Apart(n)'
    BY <1>5, <1>a DEF AcquireInit, LockInv, Apart, locks, TypeInv, TypeOK
  <2>4. QED
    BY <2>1, <2>2, <2>3
<1>6. CASE AcquireOpen(p)
  <2>1. Kept(p) /\ pc'[p] = "opened" /\ loc'[p].kind = loc[p].kind /\ loc'[p].name = loc[p].name
    BY <1>6, <1>a, HandleAssumption DEF AcquireOpen, Go, Kept, locks, TypeInv, TypeOK, Locals
  <2>2. Holds(p)'
    BY <1>6, <1>a, <2>1 DEF AcquireOpen, Shape, Holds, Acquiring, HasHandle, Deleting, locks, files, TypeInv, TypeOK
  <2>3. \A n \in Names : Apart(n)'
    BY <1>6, <1>a DEF AcquireOpen, LockInv, Apart, locks, TypeInv, TypeOK
  <2>4. QED
    BY <2>1, <2>2, <2>3
<1>7. CASE AcquireFails(p)
  BY <1>7, <1>b, ReturnLocks DEF AcquireFails
<1>7a. CASE AcquireGivesUp(p)
  BY <1>7a, <1>b, ReturnLocks DEF AcquireGivesUp
<1>8. CASE AcquireInsert(p)
  <2>1. Kept(p) /\ pc'[p] = "using" /\ loc'[p].kind = loc[p].kind /\ loc'[p].name = loc[p].name
    BY <1>8, <1>a, HandleAssumption DEF AcquireInsert, Unlock, Go, Kept, locks, TypeInv, TypeOK, Locals
  <2>2. Holds(p)'
    BY <1>8, <1>a, <2>1 DEF AcquireInsert, Unlock, Shape, Holds, Acquiring, HasHandle, Deleting, locks, files, TypeInv, TypeOK
  <2>3. \A n \in Names : Apart(n)'
    BY <1>8, <1>a DEF AcquireInsert, Unlock, LockInv, Apart, locks, TypeInv, TypeOK
  <2>4. QED
    BY <2>1, <2>2, <2>3
<1>9. CASE Transact(p)
  <2>1. Kept(p) /\ pc'[p] = "used" /\ loc'[p].kind = loc[p].kind /\ loc'[p].name = loc[p].name
    BY <1>9, <1>a, HandleAssumption DEF Transact, Go, Kept, locks, TypeInv, TypeOK, Locals
  <2>2. Holds(p)'
    BY <1>9, <1>a, <2>1 DEF Transact, Shape, Holds, Acquiring, HasHandle, Deleting, locks, files, TypeInv, TypeOK
  <2>3. \A n \in Names : Apart(n)'
    BY <1>9, <1>a DEF Transact, LockInv, Apart, locks, TypeInv, TypeOK
  <2>4. QED
    BY <2>1, <2>2, <2>3
<1>10. CASE releaseBucketDB(p)
  <2>1. CASE ~loc[p].empty
    BY <1>10, <2>1, <1>b, ReturnLocks DEF releaseBucketDB
  <2>2. CASE loc[p].empty
    <3>1. Kept(p) /\ pc'[p] = "emptied" /\ loc'[p].kind = loc[p].kind /\ loc'[p].name = loc[p].name
      BY <1>10, <2>2, <1>a DEF releaseBucketDB, Leave, Go, Kept, TypeInv, TypeOK, Locals
    <3>2. Holds(p)'
      BY <1>10, <2>2, <1>a, <3>1 DEF releaseBucketDB, Shape, Holds, Acquiring, HasHandle, Deleting, files
    <3>3. \A n \in Names : Apart(n)'
      BY <1>10, <2>2 DEF releaseBucketDB, Leave, LockInv, Apart, TypeInv, TypeOK
    <3>4. QED
      BY <3>1, <3>2, <3>3
  <2>3. QED
    BY <2>1, <2>2
<1>11. CASE CreateCommit(p)
  BY <1>11, <1>b, ReturnLocks DEF CreateCommit
<1>12. CASE DeleteUnregister(p)
  <2>1. Kept(p) /\ pc'[p] = "unregistered" /\ loc'[p].kind = loc[p].kind /\ loc'[p].name = loc[p].name
    BY <1>12, <1>a, HandleAssumption DEF DeleteUnregister, Go, Kept, locks, TypeInv, TypeOK, Locals
  <2>2. Holds(p)'
    BY <1>12, <1>a, <2>1 DEF DeleteUnregister, Shape, Holds, Acquiring, HasHandle, Deleting, locks, files, TypeInv, TypeOK
  <2>3. \A n \in Names : Apart(n)'
    BY <1>12, <1>a DEF DeleteUnregister, LockInv, Apart, locks, TypeInv, TypeOK
  <2>4. QED
    BY <2>1, <2>2, <2>3
<1>13. CASE closeAndRemoveBucketDB(p)
  <2>1. Kept(p) /\ pc'[p] = "detached" /\ loc'[p].kind = loc[p].kind /\ loc'[p].name = loc[p].name
    BY <1>13, <1>a, HandleAssumption DEF closeAndRemoveBucketDB, Go, Kept, locks, TypeInv, TypeOK, Locals
  <2>2. Holds(p)'
    BY <1>13, <1>a, <2>1 DEF closeAndRemoveBucketDB, Shape, Holds, Acquiring, HasHandle, Deleting, locks, files, TypeInv, TypeOK
  <2>3. \A n \in Names : Apart(n)'
    BY <1>13, <1>a DEF closeAndRemoveBucketDB, LockInv, Apart, locks, TypeInv, TypeOK
  <2>4. QED
    BY <2>1, <2>2, <2>3
<1>14. CASE DeleteFile(p)
  BY <1>14, <1>b, ReturnLocks, SMTT(30) DEF DeleteFile
<1>15. QED
  BY <1>1, <1>2, <1>3, <1>4, <1>5, <1>6, <1>7, <1>7a, <1>8, <1>9, <1>10, <1>11, <1>12, <1>13,
     <1>14 DEF Step

\* A bucket leaves the registry only with its deletion.
LEMMA RegistryKept ==
    ASSUME NEW p \in Procs, Step(p) \/ \E n \in Names : Begin(p, n)
    PROVE  /\ registry \subseteq registry' \cup {loc[p].name}
           /\ pc[p] # "emptied" => registry \subseteq registry'
  BY DEF Step, Begin, Put, Delete, List, CreateBucket, DeleteBucket, lockBucket,
         acquireBucketLock, AcquireHit, AcquireMiss, AcquireVerify, AcquireInit, AcquireOpen,
         AcquireFails, AcquireGivesUp, AcquireInsert, Transact, releaseBucketDB, CreateCommit,
         DeleteUnregister, closeAndRemoveBucketDB, DeleteFile, files

LEMMA LockStep ==
    ASSUME TypeInv, LockInv, NEW p \in Procs, Step(p) \/ \E n \in Names : Begin(p, n)
    PROVE  LockInv' /\ Kept(p)
<1>1. Kept(p) /\ Holds(p)' /\ \A n \in Names : Apart(n)'
  BY StepLocks, BeginLocks
<1>2. ASSUME NEW q \in Procs, q # p PROVE Holds(q)'
  <2>1. pc'[q] = pc[q] /\ loc'[q] = loc[q] /\ Holds(q) /\ Holds(p)
    BY <1>1, <1>2 DEF Kept, LockInv
  <2>2. /\ pc[q] # "idle" => loc[q].name \in Names
        /\ pc[p] # "idle" => loc[p].name \in Names
        /\ pc[p] = "emptied" => loc[p].kind = "delete"
    BY DEF TypeInv, LocalsOK, Shape, Deleting
  <2>3. pc[q] # "idle" /\ loc[q].kind = "put" => loc[q].name \in registry'
    <3>1. SUFFICES ASSUME pc[q] # "idle", loc[q].kind = "put", loc[q].name \notin registry'
                   PROVE  FALSE
      OBVIOUS
    <3>2. pc[p] = "emptied" /\ loc[q].name = loc[p].name
      BY <2>1, <3>1, RegistryKept DEF Holds
    <3>3. exclusive[loc[p].name] = p /\ q \in sharers[loc[p].name]
      BY <2>1, <2>2, <3>1, <3>2 DEF Holds
    <3>4. QED
      BY <2>2, <3>2, <3>3, HandleAssumption DEF LockInv, Apart
  <2>4. /\ pc[q] \in Acquiring => pc[q] # "idle"
        /\ pc[q] \in {"unregistered", "detached", "initialize", "opened"} => pc[q] # "idle"
    BY DEF Acquiring, HasHandle
  <2>5. QED
    BY <1>1, <1>2, <2>1, <2>2, <2>3, <2>4 DEF Holds, Kept
<1>3. QED
  BY <1>1, <1>2 DEF LockInv

LEMMA LockInit == Init => LockInv
  BY DEF Init, LockInv, Holds, Apart, Acquiring, HasHandle

LEMMA LockCrash == Crash => LockInv'
  BY DEF Crash, LockInv, Holds, Apart, Acquiring, HasHandle

-----------------------------------------------------------------------------
(***************************************************************************)
(* Which handles are open                                                  *)
(***************************************************************************)

\* An entry is open, or as bolt's Close leaves it; an evicted one has users.
EntryInv ==
    \A h \in Handles :
        /\ ~db[h].open => db[h] = Shut
        /\ db[h].evicted => db[h].refs > 0

\* activeBuckets holds open handles, each for one bucket.
ActiveInv ==
    \A n \in Names : active[n] # NoHandle =>
        /\ db[active[n]].open /\ ~db[active[n]].evicted
        /\ \A m \in Names : active[m] = active[n] => m = n

\* Any other open handle that is not evicted is just being opened.
Tracked ==
    \A h \in Handles : db[h].open /\ ~db[h].evicted =>
        \/ \E n \in Names : active[n] = h
        \/ \E p \in Procs : pc[p] = "opened" /\ loc[p].h = h

\* A handle that is being opened is the opener's alone.
OpeningInv ==
    \A p \in Procs : pc[p] = "opened" =>
        /\ db[loc[p].h].open /\ ~db[loc[p].h].evicted
        /\ \A n \in Names : active[n] # loc[p].h
        /\ \A q \in Procs : loc[q].h = loc[p].h => q = p

HandleInv == RefsCount /\ OpenHasFile /\ NoUseAfterClose /\ EntryInv
             /\ ActiveInv /\ Tracked /\ OpeningInv /\ OpensOnce

\* The handlers have the handles they had.
SameHandles ==
    \A q \in Procs :
        /\ pc'[q] \in {"using", "used"} <=> pc[q] \in {"using", "used"}
        /\ pc'[q] = "opened" <=> pc[q] = "opened"
        /\ loc'[q].h = loc[q].h
        /\ pc[q] = "opened" => loc'[q].name = loc[q].name

LEMMA QuietHandles ==
    ASSUME HandleInv, SameHandles, active' = active, db' = db
    PROVE  HandleInv'
<1>1. \A h \in Handles : Users(h)' = Users(h)
  BY DEF Users, SameHandles
<1>2. RefsCount' /\ OpenHasFile' /\ EntryInv' /\ ActiveInv'
  BY <1>1 DEF HandleInv, RefsCount, OpenHasFile, EntryInv, ActiveInv
<1>3. NoUseAfterClose' /\ Tracked'
  BY DEF HandleInv, NoUseAfterClose, Tracked, SameHandles
<1>4. OpeningInv' /\ OpensOnce'
  BY DEF HandleInv, OpeningInv, OpensOnce, SameHandles
<1>5. QED
  BY <1>2, <1>3, <1>4 DEF HandleInv

LEMMA BeginHandles ==
    ASSUME TypeInv, LockInv, HandleInv, NEW p \in Procs, NEW k \in Names, Begin(p, k)
    PROVE  HandleInv'
<1>1. active' = active /\ db' = db /\ pc[p] = "idle" /\ loc[p].h = NoHandle
  BY DEF Begin, Put, Delete, List, CreateBucket, DeleteBucket, lockBucket, Enter, TypeInv,
         LocalsOK, Shape, HasHandle
<1>a. PICK kind \in Requests, to \in {"enter", "acquire", "create"} : Enter(p, kind, k, to)
  BY DEF Begin, Put, Delete, List, CreateBucket, DeleteBucket
<1>2. pc'[p] \in {"enter", "acquire", "create"} /\ loc'[p].h = NoHandle
  BY <1>a DEF Enter, Go, Blank, TypeInv, TypeOK
<1>3. Kept(p)
  BY BeginLocks
<1>4. SameHandles
  BY <1>1, <1>2, <1>3 DEF SameHandles, Kept
<1>5. QED
  BY <1>1, <1>4, QuietHandles

\* The steps that touch no handle.
LEMMA QuietStep ==
    ASSUME TypeInv, LockInv, HandleInv, NEW p \in Procs,
           \/ acquireBucketLock(p) \/ AcquireMiss(p) \/ AcquireVerify(p) \/ AcquireInit(p)
           \/ AcquireFails(p) \/ Transact(p) \/ CreateCommit(p) \/ DeleteUnregister(p)
           \/ DeleteFile(p)
    PROVE  HandleInv'
<1>a. loc[p] \in Locals /\ Shape(pc[p], loc[p]) /\ loc' \in [Procs -> Locals]
  <2>1. Step(p)
    BY DEF Step
  <2>2. QED
    BY <2>1, StepType DEF TypeInv, TypeOK, LocalsOK, Locals, HandleInv
<1>1. active' = active /\ db' = db
  BY DEF acquireBucketLock, AcquireMiss, AcquireVerify, AcquireInit, AcquireFails, Transact,
         CreateCommit, DeleteUnregister, DeleteFile
<1>2. Kept(p)
  BY StepLocks DEF Step
<1>3. CASE Transact(p)
  <2>1. pc[p] = "using" /\ pc'[p] = "used" /\ loc'[p].h = loc[p].h /\ loc'[p].name = loc[p].name
    BY <1>3, <1>a DEF Transact, Go, TypeInv, TypeOK, Locals
  <2>2. QED
    BY <1>1, <1>2, <2>1, QuietHandles DEF SameHandles, Kept
<1>4. CASE ~Transact(p)
  <2>1. pc[p] \notin HasHandle
    BY <1>4 DEF acquireBucketLock, AcquireMiss, AcquireVerify, AcquireInit, AcquireFails,
                CreateCommit, DeleteUnregister, DeleteFile, HasHandle
  <2>2. pc'[p] \notin HasHandle
    BY <1>4 DEF acquireBucketLock, AcquireMiss, AcquireVerify, AcquireInit, AcquireFails,
                CreateCommit, DeleteUnregister, DeleteFile, HasHandle, Go, Return, TypeInv, TypeOK
  <2>3. loc[p].h = NoHandle
    BY <1>a, <2>1 DEF Shape
  <2>4. loc'[p].h = NoHandle
    BY <1>4, <2>3 DEF acquireBucketLock, AcquireMiss, AcquireVerify, AcquireInit, AcquireFails,
                CreateCommit, DeleteUnregister, DeleteFile, Return, Blank, TypeInv, TypeOK
  <2>5. SameHandles
    BY <1>2, <2>1, <2>2, <2>3, <2>4 DEF SameHandles, Kept, HasHandle
  <2>6. QED
    BY <1>1, <2>5, QuietHandles
<1>5. QED
  BY <1>3, <1>4

\* One more user: the handle was in activeBuckets.
LEMMA HitHandles ==
    ASSUME TypeInv, LockInv, HandleInv, NEW p \in Procs, AcquireHit(p)
    PROVE  HandleInv'
<1>a. /\ loc[p].name \in Names /\ active[loc[p].name] \in Handles /\ loc[p].h = NoHandle
      /\ pc[p] \notin HasHandle /\ loc[p] \in Locals
  BY DEF AcquireHit, TypeInv, TypeOK, LocalsOK, Shape, HasHandle, Locals
<1>h. PICK h \in Handles : h = active[loc[p].name]
  BY <1>a
<1>b. pc'[p] = "using" /\ loc'[p].h = h /\ loc'[p].name = loc[p].name /\ active' = active
  BY <1>a, <1>h DEF AcquireHit, Go, TypeInv, TypeOK, Locals
<1>c. Kept(p)
  BY StepLocks DEF Step
<1>d. db' \in [Handles -> Entry] /\ db \in [Handles -> Entry]
  BY StepType DEF Step, TypeInv, TypeOK, Entry, HandleInv
<1>e. /\ db'[h].refs = db[h].refs + 1 /\ db'[h].file = db[h].file /\ db'[h].open = db[h].open
      /\ db'[h].evicted = db[h].evicted /\ \A g \in Handles : g # h => db'[g] = db[g]
  BY <1>a, <1>h, <1>d DEF AcquireHit, Entry
<1>f. db[h].open /\ ~db[h].evicted
  BY <1>a, <1>h DEF HandleInv, ActiveInv, AcquireHit
<1>1. RefsCount'
  <2>1. ASSUME NEW g \in Handles, g # h PROVE Users(g)' = Users(g)
    BY <1>a, <1>b, <1>c, <2>1 DEF Users, Kept, HasHandle
  <2>2. Users(h)' = Users(h) \cup {p} /\ p \notin Users(h)
    BY <1>a, <1>b, <1>c DEF Users, Kept, HasHandle
  <2>3. Cardinality(Users(h)') = Cardinality(Users(h)) + 1
    BY <2>2, UsersFinite, FS_AddElement
  <2>4. QED
    BY <1>a, <1>e, <2>1, <2>3 DEF HandleInv, RefsCount
<1>2. OpenHasFile' /\ ActiveInv'
  <2>1. \A g \in Handles : /\ db'[g].open = db[g].open /\ db'[g].evicted = db[g].evicted
                            /\ db'[g].file = db[g].file
    BY <1>e
  <2>2. OpenHasFile'
    BY <2>1 DEF HandleInv, OpenHasFile
  <2>3. \A n \in Names : active[n] # NoHandle => active[n] \in Handles
    BY DEF TypeInv, TypeOK
  <2>4. ActiveInv'
    BY <1>b, <2>1, <2>3 DEF HandleInv, ActiveInv
  <2>5. QED
    BY <2>2, <2>4
<1>3. EntryInv'
  BY <1>a, <1>d, <1>e, <1>f DEF HandleInv, EntryInv, Entry
<1>4. NoUseAfterClose'
  <2>1. \A g \in Handles : db'[g].open = db[g].open
    BY <1>e
  <2>2. \A q \in Procs : pc[q] \in {"using", "used"} => loc[q].h \in Handles
    BY DEF TypeInv, TypeOK, LocalsOK, Shape, HasHandle
  <2>3. QED
    BY <1>b, <1>c, <1>f, <2>1, <2>2 DEF HandleInv, NoUseAfterClose, Kept
<1>5. Tracked'
  BY <1>a, <1>b, <1>c, <1>e DEF HandleInv, Tracked, Kept, HasHandle
<1>6. OpeningInv' /\ OpensOnce'
  <2>1. ASSUME NEW q \in Procs, pc'[q] = "opened"
        PROVE  q # p /\ pc[q] = "opened" /\ loc'[q] = loc[q] /\ loc[q].h # h /\ loc[q].h \in Handles
    BY <1>a, <1>h, <1>b, <1>c, <2>1 DEF HandleInv, OpeningInv, Kept, TypeInv, TypeOK, LocalsOK,
       Shape, HasHandle
  <2>2. OpensOnce'
    BY <1>b, <2>1 DEF HandleInv, OpensOnce
  <2>3. OpeningInv'
    BY <1>b, <1>c, <1>e, <2>1 DEF HandleInv, OpeningInv, Kept
  <2>4. QED
    BY <2>2, <2>3
<1>7. QED
  BY <1>1, <1>2, <1>3, <1>4, <1>5, <1>6 DEF HandleInv

\* A new handle, which nobody has.
LEMMA OpenHandles ==
    ASSUME TypeInv, LockInv, HandleInv, NEW p \in Procs, AcquireOpen(p)
    PROVE  HandleInv'
<1>1. PICK h \in Handles, f \in Files :
           /\ ~db[h].open /\ \A q \in Procs : loc[q].h # h
           /\ db' = [db EXCEPT ![h] = [Shut EXCEPT !.file = f, !.open = TRUE,
                                                !.raced = Removing(loc[p].name)]]
           /\ loc' = [loc EXCEPT ![p].h = h]
  BY DEF AcquireOpen
<1>a. loc[p].name \in Names /\ pc[p] \notin HasHandle /\ loc[p] \in Locals /\ active[loc[p].name] = NoHandle
  BY DEF AcquireOpen, TypeInv, TypeOK, LocalsOK, Shape, HasHandle, Locals
<1>b. pc'[p] = "opened" /\ loc'[p].h = h /\ loc'[p].name = loc[p].name /\ active' = active
  BY <1>1, <1>a DEF AcquireOpen, Go, TypeInv, TypeOK, Locals
<1>c. Kept(p)
  BY StepLocks DEF Step
<1>d. /\ db'[h].refs = 0 /\ db'[h].file = f /\ db'[h].open /\ ~db'[h].evicted
      /\ \A g \in Handles : g # h => db'[g] = db[g]
  BY <1>1 DEF Shut, TypeInv, TypeOK
<1>e. \A n \in Names : active[n] # h
  BY <1>1, HandleAssumption DEF HandleInv, ActiveInv
<1>2. RefsCount'
  <2>1. \A g \in Handles : Users(g)' = Users(g)
    BY <1>1, <1>a, <1>b, <1>c DEF Users, Kept, HasHandle
  <2>2. Users(h) = {}
    BY <1>1 DEF Users
  <2>3. QED
    BY <1>d, <2>1, <2>2, FS_EmptySet DEF HandleInv, RefsCount
<1>3. OpenHasFile' /\ EntryInv'
  BY <1>d DEF HandleInv, OpenHasFile, EntryInv
<1>4. ActiveInv'
  BY <1>b, <1>d, <1>e DEF HandleInv, ActiveInv, TypeInv, TypeOK
<1>5. NoUseAfterClose'
  BY <1>1, <1>b, <1>c, <1>d DEF HandleInv, NoUseAfterClose, Kept, TypeInv, TypeOK,
     LocalsOK, Shape, HasHandle
<1>6. Tracked'
  BY <1>a, <1>b, <1>c, <1>d DEF HandleInv, Tracked, Kept, HasHandle
<1>7. OpensOnce'
  BY <1>a, <1>b, <1>c DEF HandleInv, OpensOnce, Kept
<1>8. OpeningInv'
  <2>1. \A q \in Procs : loc'[q].h = h => q = p
    BY <1>1, <1>c DEF Kept
  <2>2. ASSUME NEW q \in Procs, q # p, pc'[q] = "opened"
        PROVE  pc[q] = "opened" /\ loc'[q] = loc[q] /\ loc[q].h # h /\ loc[q].h \in Handles
    BY <1>1, <1>c, <2>2 DEF Kept, TypeInv, TypeOK, LocalsOK, Shape, HasHandle
  <2>3. QED
    BY <1>b, <1>c, <1>d, <1>e, <2>1, <2>2 DEF HandleInv, OpeningInv, Kept
<1>9. QED
  BY <1>2, <1>3, <1>4, <1>5, <1>6, <1>7, <1>8 DEF HandleInv

\* The opener closes its handle, which nobody else has.
LEMMA GiveUpHandles ==
    ASSUME TypeInv, LockInv, HandleInv, NEW p \in Procs, AcquireGivesUp(p)
    PROVE  HandleInv'
<1>h. PICK h \in Handles : h = loc[p].h
  BY DEF AcquireGivesUp, TypeInv, TypeOK, LocalsOK, Shape, HasHandle
<1>a. pc[p] = "opened" /\ pc'[p] = "idle" /\ loc'[p].h = NoHandle /\ active' = active
  BY DEF AcquireGivesUp, Return, Go, Blank, TypeInv, TypeOK
<1>b. Kept(p)
  BY StepLocks DEF Step
<1>c. db'[h] = Shut /\ \A g \in Handles : g # h => db'[g] = db[g]
  BY <1>h DEF AcquireGivesUp, TypeInv, TypeOK
<1>d. (\A n \in Names : active[n] # h) /\ \A q \in Procs : loc[q].h = h => q = p
  BY <1>h, <1>a DEF HandleInv, OpeningInv
<1>e. h # NoHandle
  BY HandleAssumption
<1>f. ASSUME NEW q \in Procs, pc'[q] \in HasHandle
      PROVE  /\ q # p /\ pc'[q] = pc[q] /\ loc'[q] = loc[q] /\ loc[q].h # h
             /\ loc[q].h \in Handles
  BY <1>a, <1>b, <1>d, <1>f DEF Kept, HasHandle, TypeInv, TypeOK, LocalsOK, Shape
<1>1. RefsCount'
  <2>1. \A g \in Handles : Users(g)' = Users(g)
    BY <1>a, <1>b, <1>h DEF Users, Kept
  <2>2. Users(h) = {}
    BY <1>a, <1>d DEF Users
  <2>3. QED
    BY <1>c, <2>1, <2>2, FS_EmptySet DEF HandleInv, RefsCount, Shut
<1>2. OpenHasFile' /\ EntryInv'
  <2>1. ~Shut.open /\ ~Shut.evicted
    BY DEF Shut
  <2>2. QED
    BY <1>c, <2>1 DEF HandleInv, OpenHasFile, EntryInv
<1>3. ActiveInv'
  BY <1>a, <1>c, <1>d DEF HandleInv, ActiveInv, TypeInv, TypeOK
<1>4. NoUseAfterClose'
  BY <1>c, <1>f DEF HandleInv, NoUseAfterClose, HasHandle
<1>5. Tracked'
  <2>1. \A q \in Procs : pc[q] = "opened" /\ loc[q].h # h => pc'[q] = "opened" /\ loc'[q] = loc[q]
    BY <1>h, <1>b DEF Kept
  <2>2. QED
    BY <1>a, <1>c, <2>1 DEF HandleInv, Tracked, Shut
<1>6. OpensOnce'
  BY <1>a, <1>f DEF HandleInv, OpensOnce, HasHandle
<1>7. OpeningInv'
  <2>1. \A q \in Procs : loc'[q].h \in Handles => loc'[q].h = loc[q].h
    BY <1>a, <1>b, HandleAssumption DEF Kept
  <2>2. QED
    BY <1>a, <1>c, <1>f, <2>1 DEF HandleInv, OpeningInv, HasHandle
<1>8. QED
  BY <1>1, <1>2, <1>3, <1>4, <1>5, <1>6, <1>7 DEF HandleInv

\* The new handle goes into activeBuckets; what is evicted for it had no user.
LEMMA InsertHandles ==
    ASSUME TypeInv, LockInv, HandleInv, NEW p \in Procs, AcquireInsert(p)
    PROVE  HandleInv'
<1>a. loc[p].name \in Names /\ loc[p].h \in Handles /\ pc[p] = "opened"
  BY DEF AcquireInsert, TypeInv, TypeOK, LocalsOK, Shape, HasHandle
<1>h. PICK h \in Handles, n \in Names : h = loc[p].h /\ n = loc[p].name
  BY <1>a
<1>b. pc'[p] = "using" /\ loc'[p] = loc[p]
  BY DEF AcquireInsert, Go, TypeInv, TypeOK
<1>c. Kept(p)
  BY StepLocks DEF Step
<1>d. db' \in [Handles -> Entry] /\ db \in [Handles -> Entry]
  BY StepType DEF Step, TypeInv, TypeOK, Entry, HandleInv
<1>e. /\ db[h].open /\ ~db[h].evicted /\ \A m \in Names : active[m] # h
      /\ \A q \in Procs : loc[q].h = h => q = p
      /\ active[n] = NoHandle
  BY <1>a, <1>h DEF HandleInv, OpeningInv, OpensOnce
<1>f. Users(h)' = {p}
  BY <1>a, <1>h, <1>b, <1>c, <1>e DEF Users, Kept
<1>g. \A g \in Handles : g # h => Users(g)' = Users(g)
  BY <1>a, <1>h, <1>b, <1>c, <1>e DEF Users, Kept
<1>i. \A q \in Procs : q # p /\ pc[q] = "opened" => loc[q].name # n /\ loc[q].h # h
  BY <1>a, <1>h, <1>e DEF LockInv, Holds
<1>1. ASSUME NEW E \in SUBSET (Names \ {n}),
             \A m \in E : active[m] # NoHandle /\ Users(active[m]) = {},
             \A m \in Names : active'[m] = IF m = n THEN h ELSE IF m \in E THEN NoHandle ELSE active[m],
             \A g \in Handles : \A m \in E : g = active[m] => db'[g] = Shut,
             \A g \in Handles : (\A m \in E : g # active[m]) /\ g # h => db'[g] = db[g],
             db'[h] = [db[h] EXCEPT !.refs = 1]
      PROVE  HandleInv'
  <2>a. db'[h].refs = 1 /\ db'[h].open /\ ~db'[h].evicted /\ db'[h].file = db[h].file
    BY <1>1, <1>d, <1>e, EntryRefs
  <2>b. \A g \in Handles : g = h \/ db'[g] = db[g] \/ (db'[g] = Shut /\ Users(g) = {})
    BY <1>1
  <2>c. \A q \in Procs : pc[q] \in HasHandle => loc[q].h \in Handles
    BY DEF TypeInv, TypeOK, LocalsOK, Shape
  <2>d. \A m \in Names : active[m] # NoHandle => active[m] \in Handles
    BY DEF TypeInv, TypeOK
  <2>1. RefsCount'
    <3>1. db'[h].refs = Cardinality(Users(h)')
      BY <1>f, <2>a, FS_Singleton
    <3>2. ASSUME NEW g \in Handles, g # h PROVE db'[g].refs = Cardinality(Users(g)')
      <4>1. Users(g)' = Users(g)
        BY <1>g, <3>2
      <4>2. CASE db'[g] = db[g]
        BY <4>1, <4>2 DEF HandleInv, RefsCount
      <4>3. CASE db'[g] = Shut /\ Users(g) = {}
        BY <4>1, <4>3, FS_EmptySet DEF Shut
      <4>4. QED
        BY <2>b, <3>2, <4>2, <4>3
    <3>3. QED
      BY <3>1, <3>2 DEF RefsCount
  <2>2. OpenHasFile' /\ EntryInv'
    <3>1. ASSUME NEW g \in Handles
          PROVE  /\ db'[g].open => db'[g].file \in Files
                 /\ ~db'[g].open => db'[g] = Shut
                 /\ db'[g].evicted => db'[g].refs > 0
      <4>1. CASE g = h
        BY <1>e, <2>a, <4>1 DEF HandleInv, OpenHasFile
      <4>2. CASE db'[g] = db[g]
        BY <4>2 DEF HandleInv, OpenHasFile, EntryInv
      <4>3. CASE db'[g] = Shut
        BY <4>3 DEF Shut
      <4>4. QED
        BY <2>b, <4>1, <4>2, <4>3
    <3>2. QED
      BY <3>1 DEF OpenHasFile, EntryInv
  <2>3. NoUseAfterClose'
    <3>1. SUFFICES ASSUME NEW q \in Procs, pc'[q] \in {"using", "used"} PROVE db'[loc'[q].h].open
      BY DEF NoUseAfterClose
    <3>2. CASE q = p
      BY <1>b, <1>h, <2>a, <3>2
    <3>3. CASE q # p
      <4>1. pc[q] \in {"using", "used"} /\ loc'[q] = loc[q] /\ loc[q].h \in Handles /\ loc[q].h # h
        BY <1>c, <1>e, <2>c, <3>1, <3>3 DEF Kept, HasHandle
      <4>2. q \in Users(loc[q].h)
        BY <4>1 DEF Users
      <4>3. QED
        BY <2>b, <4>1, <4>2 DEF HandleInv, NoUseAfterClose
    <3>4. QED
      BY <3>2, <3>3
  <2>4. ActiveInv'
    <3>1. SUFFICES ASSUME NEW m \in Names, active'[m] # NoHandle
                   PROVE  /\ db'[active'[m]].open /\ ~db'[active'[m]].evicted
                          /\ \A k \in Names : active'[k] = active'[m] => k = m
      BY DEF ActiveInv
    <3>2. CASE m = n
      BY <1>1, <1>e, <1>h, <2>a, <3>2, HandleAssumption
    <3>3. CASE m # n
      <4>1. m \notin E /\ active'[m] = active[m] /\ active[m] \in Handles /\ active[m] # h
        BY <1>1, <1>e, <2>d, <3>1, <3>3
      <4>2. \A k \in E : active[k] # active[m]
        <5>1. active[m] # NoHandle
          BY <4>1, HandleAssumption
        <5>2. \A k \in Names : active[k] = active[m] => k = m
          BY <5>1 DEF HandleInv, ActiveInv
        <5>3. QED
          BY <4>1, <5>2
      <4>3. db'[active[m]] = db[active[m]]
        BY <1>1, <4>1, <4>2
      <4>4. QED
        BY <1>1, <3>1, <4>1, <4>3, HandleAssumption DEF HandleInv, ActiveInv
    <3>4. QED
      BY <3>2, <3>3
  <2>5. Tracked'
    <3>1. SUFFICES ASSUME NEW g \in Handles, db'[g].open, ~db'[g].evicted
                   PROVE  \/ \E m \in Names : active'[m] = g
                          \/ \E q \in Procs : pc'[q] = "opened" /\ loc'[q].h = g
      BY DEF Tracked
    <3>2. CASE g = h
      BY <1>1, <3>2
    <3>3. CASE g # h
      <4>1. db'[g] = db[g] /\ \A m \in E : active[m] # g
        BY <1>1, <3>1, <3>3 DEF Shut
      <4>2. CASE \E m \in Names : active[m] = g
        <5>1. PICK m \in Names : active[m] = g
          BY <4>2
        <5>2. m \notin E /\ m # n
          BY <4>1, <5>1, <1>e, HandleAssumption
        <5>3. QED
          BY <1>1, <5>1, <5>2
      <4>3. CASE \E q \in Procs : pc[q] = "opened" /\ loc[q].h = g
        BY <1>a, <1>h, <1>c, <3>3, <4>3 DEF Kept
      <4>4. QED
        BY <3>1, <4>1, <4>2, <4>3 DEF HandleInv, Tracked
    <3>4. QED
      BY <3>2, <3>3
  <2>6. OpensOnce' /\ OpeningInv'
    <3>1. ASSUME NEW q \in Procs, pc'[q] = "opened"
          PROVE  /\ pc[q] = "opened" /\ q # p /\ loc'[q] = loc[q] /\ loc[q].name # n
                 /\ loc[q].h # h /\ loc[q].h \in Handles /\ loc[q].name \in Names
      BY <1>b, <1>c, <1>i, <2>c, <3>1 DEF Kept, HasHandle, TypeInv, LocalsOK, Shape
    <3>2. OpensOnce'
      BY <1>1, <3>1 DEF HandleInv, OpensOnce
    <3>3. ASSUME NEW q \in Procs, pc'[q] = "opened"
          PROVE  /\ db'[loc[q].h].open /\ ~db'[loc[q].h].evicted
                 /\ \A m \in Names : active'[m] # loc[q].h
      <4>1. \A m \in Names : active[m] # loc[q].h
        BY <3>1, <3>3 DEF HandleInv, OpeningInv
      <4>2. db'[loc[q].h] = db[loc[q].h]
        BY <1>1, <3>1, <3>3, <4>1
      <4>3. QED
        BY <1>1, <3>1, <3>3, <4>1, <4>2, HandleAssumption DEF HandleInv, OpeningInv
    <3>4. \A q, r \in Procs : pc'[q] = "opened" /\ loc'[r].h = loc'[q].h => r = q
      BY <1>b, <1>c, <3>1 DEF HandleInv, OpeningInv, Kept
    <3>5. OpeningInv'
      BY <3>1, <3>3, <3>4 DEF OpeningInv
    <3>6. QED
      BY <3>2, <3>5
  <2>7. QED
    BY <2>1, <2>2, <2>3, <2>4, <2>5, <2>6 DEF HandleInv
<1>2. CASE active' = [active EXCEPT ![loc[p].name] = loc[p].h] /\ db' = [db EXCEPT ![loc[p].h].refs = 1]
  <2>1. \A m \in Names : active'[m] = IF m = n THEN h ELSE IF m \in {} THEN NoHandle ELSE active[m]
    BY <1>2, <1>h DEF TypeInv, TypeOK
  <2>2. /\ db'[h] = [db[h] EXCEPT !.refs = 1]
        /\ \A g \in Handles : g # h => db'[g] = db[g]
    BY <1>2, <1>h, <1>d
  <2>3. {} \in SUBSET (Names \ {n}) /\ \A m \in {} : active[m] # NoHandle /\ Users(active[m]) = {}
    OBVIOUS
  <2>4. /\ \A g \in Handles : \A m \in {} : g = active[m] => db'[g] = Shut
        /\ \A g \in Handles : (\A m \in {} : g # active[m]) /\ g # h => db'[g] = db[g]
    BY <2>2
  <2>5. QED
    BY <1>1, <2>1, <2>2, <2>3, <2>4, Zenon
<1>3. ASSUME NEW m \in Evictable(loc[p].name),
             active' = [active EXCEPT ![loc[p].name] = loc[p].h, ![m] = NoHandle],
             db' = [db EXCEPT ![loc[p].h].refs = 1, ![active[m]] = Shut]
      PROVE  HandleInv'
  <2>1. /\ m \in Names /\ m # n /\ active[m] \in Handles /\ active[m] # h
        /\ db[active[m]].refs = 0
    BY <1>3, <1>h, <1>e DEF Evictable, TypeInv, TypeOK
  <2>2. Users(active[m]) = {}
    BY <2>1, UsersFinite, FS_EmptySet DEF HandleInv, RefsCount
  <2>3. \A k \in Names : active'[k] = IF k = n THEN h ELSE IF k \in {m} THEN NoHandle ELSE active[k]
    BY <1>3, <1>h, <2>1 DEF TypeInv, TypeOK
  <2>4. db'[active[m]] = Shut /\ db'[h] = [db[h] EXCEPT !.refs = 1]
    BY <1>3, <1>h, <1>d, <2>1
  <2>5. \A g \in Handles : g # active[m] /\ g # h => db'[g] = db[g]
    BY <1>3, <1>h, <1>d, <2>1
  <2>6. active[m] # NoHandle /\ {m} \in SUBSET (Names \ {n})
    BY <2>1, HandleAssumption
  <2>7. QED
    BY <1>1, <2>2, <2>3, <2>4, <2>5, <2>6
<1>4. QED
  BY <1>2, <1>3 DEF AcquireInsert

\* One user less: the last one closes what was evicted.
LEMMA ReleaseHandles ==
    ASSUME TypeInv, LockInv, HandleInv, NEW p \in Procs, releaseBucketDB(p)
    PROVE  HandleInv'
<1>a. loc[p].h \in Handles /\ pc[p] = "used" /\ db[loc[p].h].refs > 0
  BY UsedIsCounted DEF releaseBucketDB, HandleInv
<1>h. PICK h \in Handles : h = loc[p].h
  BY <1>a
<1>b. pc'[p] \in {"idle", "emptied"} /\ loc'[p].h = NoHandle
  BY DEF releaseBucketDB, Return, Blank, Go, TypeInv, TypeOK
<1>c. Kept(p) /\ active' = active
  BY StepLocks DEF Step, releaseBucketDB
<1>d. db' \in [Handles -> Entry] /\ db \in [Handles -> Entry] /\ db[h].refs \in Nat /\ db[h].refs - 1 \in Nat
  BY <1>a, <1>h, StepType DEF Step, TypeInv, TypeOK, Entry, HandleInv
<1>e. Users(h)' = Users(h) \ {p} /\ p \in Users(h)
  BY <1>a, <1>h, <1>b, <1>c, HandleAssumption DEF Users, Kept
<1>f. \A g \in Handles : g # h => Users(g)' = Users(g)
  BY <1>a, <1>h, <1>b, <1>c, HandleAssumption DEF Users, Kept
<1>g. Cardinality(Users(h)') = db[h].refs - 1
  BY <1>e, UsersFinite, FS_RemoveElement, ZenonT(60) DEF HandleInv, RefsCount
<1>i. db[h].open
  BY <1>a, <1>h DEF HandleInv, NoUseAfterClose
<1>j. \A g \in Handles : g # h => db'[g] = db[g]
  BY <1>h, <1>d DEF releaseBucketDB, Released
<1>k. \/ db'[h] = Shut /\ db[h].evicted /\ db[h].refs - 1 = 0
      \/ /\ db'[h] = [db[h] EXCEPT !.refs = db[h].refs - 1]
         /\ ~(db[h].evicted /\ db[h].refs - 1 = 0)
  <2>1. db' = Released(h)
    BY <1>h DEF releaseBucketDB
  <2>2. CASE db[h].refs - 1 <= 0 /\ db[h].evicted
    <3>1. db' = [db EXCEPT ![h] = Shut]
      BY <2>1, <2>2 DEF Released
    <3>2. db'[h] = Shut
      BY <1>d, <3>1
    <3>3. db[h].refs - 1 = 0
      BY <1>d, <2>2
    <3>4. QED
      BY <2>2, <3>2, <3>3
  <2>3. CASE ~(db[h].refs - 1 <= 0 /\ db[h].evicted)
    <3>1. db' = [db EXCEPT ![h].refs = @ - 1]
      BY <2>1, <2>3 DEF Released
    <3>2. db'[h] = [db[h] EXCEPT !.refs = db[h].refs - 1]
      BY <1>d, <3>1
    <3>3. ~(db[h].evicted /\ db[h].refs - 1 = 0)
      BY <1>d, <2>3
    <3>4. QED
      BY <3>2, <3>3
  <2>4. QED
    BY <2>2, <2>3
<1>l. \/ db'[h] = Shut /\ db[h].evicted /\ db[h].refs - 1 = 0
      \/ /\ db'[h].refs = db[h].refs - 1 /\ db'[h].open /\ db'[h].evicted = db[h].evicted
         /\ db'[h].file = db[h].file /\ (db[h].evicted => db'[h].refs > 0)
  <2>1. CASE db'[h] = [db[h] EXCEPT !.refs = db[h].refs - 1] /\ ~(db[h].evicted /\ db[h].refs - 1 = 0)
    <3> DEFINE r == db[h].refs - 1
    <3>1. db[h] \in Entry /\ r \in Nat
      BY <1>d
    <3>2. /\ db'[h].refs = r /\ db'[h].file = db[h].file /\ db'[h].open = db[h].open
          /\ db'[h].evicted = db[h].evicted
      BY <2>1, <3>1, EntryRefs
    <3>3. db[h].evicted => r > 0
      <4>1. r = 0 \/ r > 0
        BY <1>d
      <4>2. QED
        BY <2>1, <4>1, Zenon
    <3>4. QED
      BY <1>i, <3>2, <3>3
  <2>2. QED
    BY <1>k, <2>1
<1>1. RefsCount'
  BY <1>f, <1>g, <1>j, <1>l DEF HandleInv, RefsCount, Shut
<1>2. OpenHasFile' /\ EntryInv'
  <2>1. ASSUME NEW g \in Handles
        PROVE  /\ db'[g].open => db'[g].file \in Files
               /\ ~db'[g].open => db'[g] = Shut
               /\ db'[g].evicted => db'[g].refs > 0
    <3>1. CASE g # h
      BY <1>j, <3>1 DEF HandleInv, OpenHasFile, EntryInv
    <3>2. CASE g = h /\ db'[h] = Shut
      BY <3>2 DEF Shut
    <3>3. CASE g = h /\ db'[h] # Shut
      BY <1>i, <1>l, <3>3 DEF HandleInv, OpenHasFile
    <3>4. QED
      BY <3>1, <3>2, <3>3
  <2>2. QED
    BY <2>1 DEF OpenHasFile, EntryInv
<1>3. NoUseAfterClose'
  <2>1. SUFFICES ASSUME NEW q \in Procs, pc'[q] \in {"using", "used"} PROVE db'[loc'[q].h].open
    BY DEF NoUseAfterClose
  <2>2. q # p /\ pc[q] \in {"using", "used"} /\ loc'[q] = loc[q] /\ loc[q].h \in Handles
    BY <1>b, <1>c, <2>1 DEF Kept, TypeInv, TypeOK, LocalsOK, Shape, HasHandle
  <2>3. db[loc[q].h].open
    BY <2>2 DEF HandleInv, NoUseAfterClose
  <2>4. CASE loc[q].h = h
    <3>1. q \in Users(h)'
      BY <2>1, <2>2, <2>4 DEF Users
    <3>2. IsFiniteSet(Users(h)') /\ Cardinality(Users(h)') # 0
      BY <1>e, <3>1, UsersFinite, FS_RemoveElement, FS_EmptySet
    <3>3. QED
      BY <1>g, <1>l, <2>2, <2>4, <3>2
  <2>5. CASE loc[q].h # h
    BY <1>j, <2>2, <2>3, <2>5
  <2>6. QED
    BY <2>4, <2>5
<1>4. ActiveInv'
  <2>1. SUFFICES ASSUME NEW n \in Names, active[n] # NoHandle
                 PROVE  db'[active[n]].open /\ ~db'[active[n]].evicted
    BY <1>c DEF HandleInv, ActiveInv
  <2>2. active[n] \in Handles /\ db[active[n]].open /\ ~db[active[n]].evicted
    BY <2>1 DEF HandleInv, ActiveInv, TypeInv, TypeOK
  <2>3. QED
    BY <1>j, <1>l, <2>2
<1>5. Tracked'
  <2>1. ASSUME NEW g \in Handles, db'[g].open, ~db'[g].evicted PROVE db[g].open /\ ~db[g].evicted
    BY <1>i, <1>j, <1>l, <2>1 DEF Shut
  <2>2. \A q \in Procs : pc[q] = "opened" => pc'[q] = "opened" /\ loc'[q] = loc[q]
    BY <1>a, <1>c DEF Kept
  <2>3. QED
    BY <1>c, <2>1, <2>2 DEF HandleInv, Tracked
<1>6. OpeningInv' /\ OpensOnce'
  <2>1. ASSUME NEW q \in Procs, pc'[q] = "opened"
        PROVE  /\ q # p /\ pc[q] = "opened" /\ loc'[q] = loc[q] /\ loc[q].h \in Handles
               /\ loc[q].h # h /\ loc[q].h # NoHandle
    BY <1>h, <1>b, <1>c, <2>1, HandleAssumption DEF HandleInv, OpeningInv, Kept, TypeInv, TypeOK, LocalsOK,
       Shape, HasHandle
  <2>2. OpensOnce'
    BY <1>c, <2>1 DEF HandleInv, OpensOnce
  <2>3. OpeningInv'
    BY <1>b, <1>c, <1>j, <2>1 DEF HandleInv, OpeningInv, Kept
  <2>4. QED
    BY <2>2, <2>3
<1>7. QED
  BY <1>1, <1>2, <1>3, <1>4, <1>5, <1>6 DEF HandleInv

\* The deletion of a bucket closes its handle, or leaves that to its users.
LEMMA DetachHandles ==
    ASSUME TypeInv, LockInv, HandleInv, NEW p \in Procs, closeAndRemoveBucketDB(p)
    PROVE  HandleInv'
<1>a. loc[p].name \in Names /\ pc[p] = "unregistered" /\ loc[p].h = NoHandle
  BY DEF closeAndRemoveBucketDB, TypeInv, TypeOK, LocalsOK, Shape, HasHandle
<1>h. PICK n \in Names, h \in Handles \cup {NoHandle} : n = loc[p].name /\ h = active[n]
  BY <1>a DEF TypeInv, TypeOK
<1>b. pc'[p] = "detached" /\ loc'[p] = loc[p]
  BY DEF closeAndRemoveBucketDB, Go, TypeInv, TypeOK
<1>c. Kept(p) /\ \A m \in Names : active'[m] = IF m = n THEN NoHandle ELSE active[m]
  BY <1>h, StepLocks DEF Step, closeAndRemoveBucketDB, TypeInv, TypeOK
<1>d. db' \in [Handles -> Entry] /\ db \in [Handles -> Entry]
  BY StepType DEF Step, TypeInv, TypeOK, Entry, HandleInv
<1>e. \A g \in Handles : Users(g)' = Users(g)
  BY <1>a, <1>b, <1>c DEF Users, Kept
<1>f. \A g \in Handles : g # h => db'[g] = db[g]
  BY <1>h, <1>d DEF closeAndRemoveBucketDB
<1>g. h \in Handles => \/ db'[h] = Shut /\ db[h].refs = 0
                       \/ db'[h] = [db[h] EXCEPT !.evicted = TRUE] /\ db[h].refs > 0
  <2>1. SUFFICES ASSUME h \in Handles
                 PROVE  \/ db'[h] = Shut /\ db[h].refs = 0
                        \/ db'[h] = [db[h] EXCEPT !.evicted = TRUE] /\ db[h].refs > 0
    OBVIOUS
  <2>2. h # NoHandle /\ db[h].refs \in Nat
    BY <1>d, <2>1, HandleAssumption DEF Entry
  <2>3. db' = IF db[h].refs > 0 THEN [db EXCEPT ![h].evicted = TRUE] ELSE [db EXCEPT ![h] = Shut]
    BY <1>h, <2>2 DEF closeAndRemoveBucketDB
  <2>4. QED
    BY <1>d, <2>1, <2>2, <2>3
<1>i. h \in Handles => \/ db'[h] = Shut /\ db[h].refs = 0
                       \/ /\ db'[h].evicted /\ db'[h].refs > 0 /\ db'[h].refs = db[h].refs
                          /\ db'[h].open = db[h].open /\ db'[h].file = db[h].file
  <2>1. ASSUME NEW e \in Entry
        PROVE  /\ [e EXCEPT !.evicted = TRUE].evicted /\ [e EXCEPT !.evicted = TRUE].refs = e.refs
               /\ [e EXCEPT !.evicted = TRUE].open = e.open /\ [e EXCEPT !.evicted = TRUE].file = e.file
    BY DEF Entry
  <2>2. QED
    BY <1>d, <1>g, <2>1
<1>j. h \in Handles => /\ h # NoHandle /\ db[h].open /\ ~db[h].evicted
                       /\ \A m \in Names : active[m] = h => m = n
  BY <1>h, HandleAssumption DEF HandleInv, ActiveInv
<1>1. RefsCount'
  BY <1>e, <1>f, <1>i DEF HandleInv, RefsCount, Shut
<1>2. OpenHasFile' /\ EntryInv'
  <2>1. ASSUME NEW g \in Handles
        PROVE  /\ db'[g].open => db'[g].file \in Files
               /\ ~db'[g].open => db'[g] = Shut
               /\ db'[g].evicted => db'[g].refs > 0
    <3>1. CASE g # h
      BY <1>f, <3>1 DEF HandleInv, OpenHasFile, EntryInv
    <3>2. CASE g = h /\ db'[h] = Shut
      BY <3>2 DEF Shut
    <3>3. CASE g = h /\ db'[h] # Shut
      BY <1>i, <1>j, <3>3 DEF HandleInv, OpenHasFile
    <3>4. QED
      BY <3>1, <3>2, <3>3
  <2>2. QED
    BY <2>1 DEF OpenHasFile, EntryInv
<1>3. NoUseAfterClose'
  <2>1. SUFFICES ASSUME NEW q \in Procs, pc'[q] \in {"using", "used"} PROVE db'[loc'[q].h].open
    BY DEF NoUseAfterClose
  <2>2. q # p /\ pc[q] \in {"using", "used"} /\ loc'[q] = loc[q]
    BY <1>b, <1>c, <2>1 DEF Kept
  <2>3. db[loc[q].h].open /\ db[loc[q].h].refs > 0 /\ loc[q].h \in Handles
    BY <2>2, UsedIsCounted DEF HandleInv, NoUseAfterClose
  <2>4. QED
    BY <1>f, <1>i, <2>2, <2>3
<1>4. ActiveInv'
  <2>1. SUFFICES ASSUME NEW m \in Names, active'[m] # NoHandle
                 PROVE  /\ db'[active'[m]].open /\ ~db'[active'[m]].evicted
                        /\ \A k \in Names : active'[k] = active'[m] => k = m
    BY DEF ActiveInv
  <2>2. m # n /\ active'[m] = active[m] /\ active[m] \in Handles /\ active[m] # h
    BY <1>c, <1>j, <2>1 DEF TypeInv, TypeOK
  <2>3. QED
    BY <1>c, <1>f, <2>1, <2>2 DEF HandleInv, ActiveInv
<1>5. Tracked'
  <2>1. ASSUME NEW g \in Handles, db'[g].open, ~db'[g].evicted PROVE g # h /\ db[g].open /\ ~db[g].evicted
    BY <1>f, <1>i, <2>1 DEF Shut
  <2>2. \A q \in Procs : pc[q] = "opened" => pc'[q] = "opened" /\ loc'[q] = loc[q]
    BY <1>a, <1>c DEF Kept
  <2>3. \A m \in Names : active[m] # h => active'[m] = active[m]
    BY <1>h, <1>c
  <2>4. QED
    BY <2>1, <2>2, <2>3 DEF HandleInv, Tracked
<1>6. OpeningInv' /\ OpensOnce'
  <2>1. ASSUME NEW q \in Procs, pc'[q] = "opened"
        PROVE  /\ q # p /\ pc[q] = "opened" /\ loc'[q] = loc[q] /\ loc[q].h \in Handles
               /\ loc[q].h # h /\ loc[q].h # NoHandle /\ loc[q].name \in Names
    BY <1>h, <1>b, <1>c, <2>1, HandleAssumption DEF HandleInv, OpeningInv, Kept, TypeInv, TypeOK, LocalsOK,
       Shape, HasHandle
  <2>2. OpensOnce'
    BY <1>c, <2>1 DEF HandleInv, OpensOnce
  <2>3. \A q \in Procs : loc'[q].h = loc[q].h
    BY <1>b, <1>c DEF Kept
  <2>4. OpeningInv'
    BY <1>c, <1>f, <2>1, <2>3 DEF HandleInv, OpeningInv
  <2>5. QED
    BY <2>2, <2>4
<1>7. QED
  BY <1>1, <1>2, <1>3, <1>4, <1>5, <1>6 DEF HandleInv

LEMMA HandleInit == Init => HandleInv
<1> SUFFICES ASSUME Init PROVE HandleInv
  OBVIOUS
<1>1. RefsCount
  BY TypeInit
<1>2. QED
  BY <1>1 DEF Init, HandleInv, OpenHasFile, NoUseAfterClose, EntryInv, ActiveInv, Tracked,
     OpeningInv, OpensOnce, Shut

LEMMA HandleCrash == Crash => HandleInv'
<1> SUFFICES ASSUME Crash PROVE HandleInv'
  OBVIOUS
<1>1. \A h \in Handles : Users(h)' = {}
  BY DEF Crash, Users
<1>2. RefsCount'
  BY <1>1, FS_EmptySet DEF Crash, RefsCount, Shut
<1>3. QED
  BY <1>2 DEF Crash, HandleInv, OpenHasFile, NoUseAfterClose, EntryInv, ActiveInv, Tracked,
     OpeningInv, OpensOnce, Shut

LEMMA HandleStep ==
    ASSUME TypeInv, LockInv, HandleInv, NEW p \in Procs, Step(p) \/ \E n \in Names : Begin(p, n)
    PROVE  HandleInv'
  BY BeginHandles, QuietStep, HitHandles, OpenHandles, GiveUpHandles, InsertHandles, ReleaseHandles,
     DetachHandles DEF Step

-----------------------------------------------------------------------------
(***************************************************************************)
(* Which file a handle has                                                 *)
(***************************************************************************)

\* Whoever acquired under the metadata lock uses the handle in activeBuckets.
UsersCurrent ==
    \A p \in Procs : pc[p] \in {"using", "used"} /\ loc[p].kind # "list" =>
        active[loc[p].name] = loc[p].h

FilesApart == \A m, n \in Names : file[m] # NoFile /\ file[m] = file[n] => m = n

\* A file is at no other bucket's path than that of those who use it.
HeldBy(n, h) == \A m \in Names : file[m] = db[h].file => m = n
Owned ==
    /\ \A n \in Names : active[n] # NoHandle => HeldBy(n, active[n])
    /\ \A p \in Procs : pc[p] \in HasHandle => HeldBy(loc[p].name, loc[p].h)

\* The handle in activeBuckets, or about to be, has the file at the path; only
\* one that was opened during a deletion can have lost it.
AtPath(n, h) == db[h].file = file[n] \/ (db[h].raced /\ file[n] = NoFile)
Current ==
    /\ \A n \in Names : active[n] # NoHandle => AtPath(n, active[n])
    /\ \A p \in Procs : pc[p] = "opened" => AtPath(loc[p].name, loc[p].h)

\* What is opened beside a deletion that found the bucket empty is marked so:
\* up to that check the deletion itself kept the database open.
OpenedBeside ==
    \A p, q \in Procs :
        pc[p] = "opened" /\ pc[q] \in Deleting /\ loc[q].name = loc[p].name =>
            db[loc[p].h].raced

\* So is what takes the place of the handle a deletion has closed.
Detached ==
    \A p \in Procs : pc[p] = "detached" /\ active[loc[p].name] # NoHandle =>
        db[active[loc[p].name]].raced

\* What DeleteBucket found empty stays without an object.
StaysEmpty ==
    \A p \in Procs : loc[p].empty => <<file[loc[p].name], "object">> \notin records

FileInv == UsersCurrent /\ FilesApart /\ Owned /\ Current /\ OpenedBeside /\ Detached
           /\ StaysEmpty /\ DeletedLeavesNothing

\* What a step other than an opening does to handles, paths and deletions.
Moves(p) ==
    /\ \A g \in Handles : db'[g].open => db'[g].file = db[g].file /\ db'[g].raced = db[g].raced
    /\ \A n \in Names : \/ active'[n] \in {active[n], NoHandle}
                        \/ pc[p] = "opened" /\ n = loc[p].name /\ active'[n] = loc[p].h
    /\ pc'[p] \in HasHandle =>
         /\ loc'[p].name = loc[p].name /\ loc'[p].kind = loc[p].kind
         /\ \/ pc[p] \in HasHandle /\ loc'[p].h = loc[p].h
            \/ pc[p] \in {"acquire", "initialize"} /\ loc'[p].h = active[loc[p].name]
         /\ pc'[p] \in {"using", "used"}
         /\ pc[p] \in {"using", "used"} \/ active'[loc[p].name] = loc'[p].h
         /\ pc[p] \in {"using", "used"} => active' = active
    /\ \A n \in Names : \/ file'[n] = file[n]
                        \/ pc[p] = "detached" /\ n = loc[p].name /\ file'[n] = NoFile
    /\ pc[p] = "using" \/ records' = records
    /\ pc'[p] \in Deleting => loc[p].empty
    /\ pc'[p] = "detached" => loc'[p].name = loc[p].name /\ active'[loc[p].name] = NoHandle
    /\ loc'[p].empty =>
         /\ loc'[p].name = loc[p].name
         /\ loc[p].empty \/ pc[p] = "using"
         /\ pc[p] # "detached"

\* A handle that stays open keeps its file.
LEMMA KeepsFile ==
    ASSUME TypeInv, LockInv, HandleInv, NEW p \in Procs, ~AcquireOpen(p),
           Step(p) \/ \E n \in Names : Begin(p, n)
    PROVE  \A g \in Handles : db'[g].open => db'[g].file = db[g].file /\ db'[g].raced = db[g].raced
<1>a. db \in [Handles -> Entry]
  BY DEF TypeInv, TypeOK, Entry
<1>1. CASE \/ db' = db
           \/ \E h \in Handles, k \in Int : db' = [db EXCEPT ![h].refs = k]
  BY <1>a, <1>1 DEF Entry
<1>2. CASE AcquireHit(p)
  <2>1. active[loc[p].name] \in Handles
    BY <1>2 DEF AcquireHit, TypeInv, TypeOK, LocalsOK, Shape
  <2>2. QED
    BY <1>a, <1>2, <2>1 DEF AcquireHit, Entry
<1>3. CASE AcquireInsert(p)
  <2>1. loc[p].h \in Handles
    BY <1>3 DEF AcquireInsert, TypeInv, TypeOK, LocalsOK, Shape, HasHandle
  <2>2. CASE db' = [db EXCEPT ![loc[p].h].refs = 1]
    BY <1>a, <2>1, <2>2 DEF Entry
  <2>3. ASSUME NEW m \in Names, db' = [db EXCEPT ![loc[p].h].refs = 1, ![active[m]] = Shut],
               NEW g \in Handles, db'[g].open
        PROVE  db'[g].file = db[g].file /\ db'[g].raced = db[g].raced
    <3>1. g # active[m]
      BY <1>a, <2>3 DEF Shut
    <3>2. CASE g = loc[p].h
      BY <1>a, <2>1, <2>3, <3>1, <3>2 DEF Entry
    <3>3. CASE g # loc[p].h
      BY <1>a, <2>3, <3>1, <3>3
    <3>4. QED
      BY <3>2, <3>3
  <2>4. QED
    BY <1>3, <2>2, <2>3 DEF AcquireInsert, Evictable
<1>4. CASE releaseBucketDB(p)
  BY <1>a, <1>4 DEF releaseBucketDB, Released, Entry, Shut
<1>5. CASE closeAndRemoveBucketDB(p)
  BY <1>a, <1>5 DEF closeAndRemoveBucketDB, Entry, Shut
<1>6. CASE AcquireGivesUp(p)
  BY <1>a, <1>6 DEF AcquireGivesUp, Entry, Shut
<1>7. QED
  BY <1>1, <1>2, <1>3, <1>4, <1>5, <1>6 DEF Step, Begin, Put, Delete, List, CreateBucket, DeleteBucket,
     lockBucket, acquireBucketLock, AcquireMiss, AcquireVerify, AcquireInit, AcquireFails, Transact,
     CreateCommit, DeleteUnregister, DeleteFile

LEMMA BeginMoves ==
    ASSUME TypeInv, LockInv, HandleInv, NEW p \in Procs, NEW k \in Names, Begin(p, k)
    PROVE  Moves(p)
<1>1. \A g \in Handles : db'[g].open => db'[g].file = db[g].file /\ db'[g].raced = db[g].raced
  BY DEF Begin, Put, Delete, List, CreateBucket, DeleteBucket, lockBucket
<1>2. active' = active /\ file' = file /\ records' = records
  BY DEF Begin, Put, Delete, List, CreateBucket, DeleteBucket, lockBucket, files
<1>3. PICK kind \in Requests, to \in {"enter", "acquire", "create"} : Enter(p, kind, k, to)
  BY DEF Begin, Put, Delete, List, CreateBucket, DeleteBucket
<1>4. pc'[p] \in {"enter", "acquire", "create"} /\ ~loc'[p].empty
  BY <1>3 DEF Enter, Go, Blank, TypeInv, TypeOK
<1>5. QED
  BY <1>1, <1>2, <1>4 DEF Moves, HasHandle, Deleting

LEMMA StepMoves ==
    ASSUME TypeInv, LockInv, HandleInv, NEW p \in Procs, Step(p), ~AcquireOpen(p)
    PROVE  Moves(p)
<1>a. /\ pc[p] \in PCs /\ loc[p] \in Locals /\ Shape(pc[p], loc[p])
      /\ pc[p] # "idle" => loc[p].name \in Names
  BY DEF TypeInv, TypeOK, LocalsOK, PCs, Locals, Shape
<1>b. \A g \in Handles : db'[g].open => db'[g].file = db[g].file /\ db'[g].raced = db[g].raced
  BY KeepsFile
<1>c. ~Blank.empty
  BY DEF Blank
<1>d. ASSUME Return(p) PROVE pc'[p] = "idle" /\ ~loc'[p].empty
  BY <1>d, <1>c DEF Return, Go, TypeInv, TypeOK
<1>1. CASE acquireBucketLock(p)
  <2>1. pc'[p] = "acquire" /\ loc'[p] = loc[p] /\ active' = active /\ file' = file /\ records' = records
    BY <1>1 DEF acquireBucketLock, Go, files, TypeInv, TypeOK
  <2>2. pc[p] # "detached"
    BY <1>1 DEF acquireBucketLock
  <2>3. QED
    BY <1>b, <2>1, <2>2 DEF Moves, HasHandle, Deleting
<1>2. CASE AcquireHit(p)
  <2>1. active' = active /\ file' = file /\ records' = records
    BY <1>2 DEF AcquireHit, files
  <2>2. /\ pc[p] \in {"acquire", "initialize"} /\ pc'[p] = "using" /\ loc'[p].h = active[loc[p].name]
        /\ loc'[p].name = loc[p].name /\ loc'[p].kind = loc[p].kind /\ loc'[p].empty = loc[p].empty
    BY <1>2, <1>a DEF AcquireHit, Go, TypeInv, TypeOK, Locals
  <2>3. QED
    BY <1>b, <2>1, <2>2 DEF Moves, HasHandle, Deleting
<1>3. CASE AcquireMiss(p)
  <2>1. pc'[p] = "verify" /\ loc'[p] = loc[p] /\ active' = active /\ file' = file /\ records' = records
    BY <1>3 DEF AcquireMiss, Go, files, TypeInv, TypeOK
  <2>2. pc[p] # "detached"
    BY <1>3 DEF AcquireMiss
  <2>3. QED
    BY <1>b, <2>1, <2>2 DEF Moves, HasHandle, Deleting
<1>4. CASE AcquireVerify(p)
  <2>1. active' = active /\ file' = file /\ records' = records
    BY <1>4 DEF AcquireVerify, files
  <2>2. CASE Return(p)
    BY <1>b, <1>d, <2>1, <2>2 DEF Moves, HasHandle, Deleting
  <2>3. CASE ~Return(p)
    <3>1. pc[p] = "verify" /\ pc'[p] = "verified" /\ loc'[p] = loc[p]
      BY <1>4, <2>3 DEF AcquireVerify, Go, TypeInv, TypeOK
    <3>2. QED
      BY <1>b, <2>1, <3>1 DEF Moves, HasHandle, Deleting
  <2>4. QED
    BY <2>2, <2>3
<1>5. CASE AcquireInit(p)
  <2>1. pc'[p] = "initialize" /\ loc'[p] = loc[p] /\ active' = active /\ file' = file /\ records' = records
    BY <1>5 DEF AcquireInit, Go, files, TypeInv, TypeOK
  <2>2. pc[p] # "detached"
    BY <1>5 DEF AcquireInit
  <2>3. QED
    BY <1>b, <2>1, <2>2 DEF Moves, HasHandle, Deleting
<1>6. CASE AcquireFails(p)
  <2>1. active' = active /\ file' = file /\ records' = records
    BY <1>6 DEF AcquireFails, files
  <2>2. QED
    BY <1>6, <1>b, <1>d, <2>1 DEF AcquireFails, Moves, HasHandle, Deleting
<1>6a. CASE AcquireGivesUp(p)
  <2>1. active' = active /\ file' = file /\ records' = records
    BY <1>6a DEF AcquireGivesUp, files
  <2>2. QED
    BY <1>6a, <1>b, <1>d, <2>1 DEF AcquireGivesUp, Moves, HasHandle, Deleting
<1>7. CASE AcquireInsert(p)
  <2>1. file' = file /\ records' = records /\ loc'[p] = loc[p] /\ pc'[p] = "using" /\ pc[p] = "opened"
    BY <1>7 DEF AcquireInsert, Go, files, TypeInv, TypeOK
  <2>2. /\ \A m \in Names : \/ active'[m] \in {active[m], NoHandle}
                            \/ m = loc[p].name /\ active'[m] = loc[p].h
        /\ active'[loc[p].name] = loc[p].h
    <3>1. CASE active' = [active EXCEPT ![loc[p].name] = loc[p].h]
      <4>1. \A m \in Names : active'[m] = IF m = loc[p].name THEN loc[p].h ELSE active[m]
        BY <3>1 DEF TypeInv, TypeOK
      <4>2. QED
        BY <1>a, <2>1, <4>1
    <3>2. ASSUME NEW k \in Names, k # loc[p].name,
                 active' = [active EXCEPT ![loc[p].name] = loc[p].h, ![k] = NoHandle]
          PROVE  /\ \A m \in Names : \/ active'[m] \in {active[m], NoHandle}
                                     \/ m = loc[p].name /\ active'[m] = loc[p].h
                 /\ active'[loc[p].name] = loc[p].h
      <4>1. \A m \in Names : active'[m] = IF m = k THEN NoHandle
                                           ELSE IF m = loc[p].name THEN loc[p].h ELSE active[m]
        BY <3>2 DEF TypeInv, TypeOK
      <4>2. QED
        BY <1>a, <2>1, <3>2, <4>1
    <3>3. QED
      BY <1>7, <3>1, <3>2 DEF AcquireInsert, Evictable
  <2>3. QED
    BY <1>b, <2>1, <2>2 DEF Moves, HasHandle, Deleting
<1>8. CASE Transact(p)
  <2>1. active' = active /\ file' = file
    BY <1>8 DEF Transact
  <2>2. /\ pc[p] = "using" /\ pc'[p] = "used" /\ loc'[p].h = loc[p].h
        /\ loc'[p].name = loc[p].name /\ loc'[p].kind = loc[p].kind
    BY <1>8, <1>a DEF Transact, Go, TypeInv, TypeOK, Locals
  <2>3. QED
    BY <1>b, <2>1, <2>2 DEF Moves, HasHandle, Deleting
<1>9. CASE releaseBucketDB(p)
  <2>1. active' = active /\ file' = file /\ records' = records
    BY <1>9 DEF releaseBucketDB, files
  <2>2. CASE Return(p)
    BY <1>b, <1>d, <2>1, <2>2 DEF Moves, HasHandle, Deleting
  <2>3. CASE ~Return(p)
    <3>1. /\ pc[p] = "used" /\ pc'[p] = "emptied" /\ loc'[p].name = loc[p].name
          /\ loc'[p].empty = loc[p].empty /\ loc[p].empty
      BY <1>9, <1>a, <2>3 DEF releaseBucketDB, Go, TypeInv, TypeOK, Locals
    <3>2. QED
      BY <1>b, <2>1, <3>1 DEF Moves, HasHandle, Deleting
  <2>4. QED
    BY <2>2, <2>3
<1>10. CASE CreateCommit(p)
  <2>1. active' = active /\ file' = file /\ records' = records
    BY <1>10 DEF CreateCommit, files
  <2>2. QED
    BY <1>10, <1>b, <1>d, <2>1 DEF CreateCommit, Moves, HasHandle, Deleting
<1>11. CASE DeleteUnregister(p)
  <2>1. pc'[p] = "unregistered" /\ loc'[p] = loc[p] /\ active' = active /\ file' = file /\ records' = records
    BY <1>11 DEF DeleteUnregister, Go, files, TypeInv, TypeOK
  <2>2. pc[p] # "detached" /\ loc[p].empty
    BY <1>11, <1>a DEF DeleteUnregister, Shape, Deleting
  <2>3. QED
    BY <1>b, <2>1, <2>2 DEF Moves, HasHandle, Deleting
<1>12. CASE closeAndRemoveBucketDB(p)
  <2>1. /\ file' = file /\ records' = records /\ loc'[p] = loc[p] /\ pc[p] = "unregistered"
        /\ pc'[p] = "detached" /\ loc[p].empty
    BY <1>12, <1>a DEF closeAndRemoveBucketDB, Go, files, TypeInv, TypeOK, Shape, Deleting
  <2>2. \A m \in Names : active'[m] = IF m = loc[p].name THEN NoHandle ELSE active[m]
    BY <1>12 DEF closeAndRemoveBucketDB, TypeInv, TypeOK
  <2>3. QED
    BY <1>a, <1>b, <2>1, <2>2 DEF Moves, HasHandle, Deleting
<1>13. CASE DeleteFile(p)
  <2>1. active' = active /\ records' = records /\ pc[p] = "detached" /\ Return(p)
    BY <1>13 DEF DeleteFile
  <2>2. \A m \in Names : file'[m] = IF m = loc[p].name THEN NoFile ELSE file[m]
    BY <1>13, SMTT(30) DEF DeleteFile, TypeInv, TypeOK
  <2>3. QED
    BY <1>b, <1>d, <2>1, <2>2 DEF Moves, HasHandle, Deleting
<1>14. QED
  BY <1>1, <1>2, <1>3, <1>4, <1>5, <1>6, <1>6a, <1>7, <1>8, <1>9, <1>10, <1>11, <1>12,
     <1>13 DEF Step

\* Nobody takes from activeBuckets, or replaces there, what a handler under the
\* metadata lock uses.
LEMMA ActiveKept ==
    ASSUME TypeInv, LockInv, HandleInv, UsersCurrent, NEW p \in Procs,
           Step(p) \/ \E n \in Names : Begin(p, n),
           NEW q \in Procs, q # p, pc[q] \in {"using", "used"}, loc[q].kind # "list"
    PROVE  active'[loc[q].name] = loc[q].h
<1>a. loc[q].name \in Names /\ loc[q].h \in Handles /\ active[loc[q].name] = loc[q].h
  BY UsedIsCounted DEF UsersCurrent, TypeInv, LocalsOK, Shape, HandleInv
<1>1. CASE AcquireInsert(p)
  <2>1. loc[p].name \in Names /\ active[loc[p].name] = NoHandle /\ loc[p].name # loc[q].name
    BY <1>1, <1>a, HandleAssumption DEF AcquireInsert, HandleInv, OpensOnce, TypeInv, LocalsOK, Shape
  <2>2. CASE active' = [active EXCEPT ![loc[p].name] = loc[p].h]
    BY <1>a, <2>1, <2>2 DEF TypeInv, TypeOK
  <2>3. ASSUME NEW m \in Evictable(loc[p].name),
               active' = [active EXCEPT ![loc[p].name] = loc[p].h, ![m] = NoHandle]
        PROVE  active'[loc[q].name] = loc[q].h
    <3>1. db[loc[q].h].refs > 0 /\ db[loc[q].h].refs \in Nat
      BY UsedIsCounted DEF HandleInv
    <3>2. m # loc[q].name
      BY <1>a, <2>3, <3>1 DEF Evictable
    <3>3. QED
      BY <1>a, <2>1, <2>3, <3>2 DEF TypeInv, TypeOK
  <2>4. QED
    BY <1>1, <2>2, <2>3 DEF AcquireInsert
<1>2. CASE closeAndRemoveBucketDB(p)
  <2>1. loc[p].name \in Names /\ writer[loc[p].name] = p /\ readers[loc[p].name] = {}
    BY <1>2, HandleAssumption DEF closeAndRemoveBucketDB, LockInv, Holds, Apart, TypeInv, LocalsOK, Shape
  <2>2. q \in readers[loc[q].name]
    BY DEF LockInv, Holds, Acquiring, HasHandle
  <2>3. QED
    BY <1>a, <1>2, <2>1, <2>2 DEF closeAndRemoveBucketDB, TypeInv, TypeOK
<1>3. QED
  BY <1>1, <1>2, <1>a DEF Step, Begin, Put, Delete, List, CreateBucket, DeleteBucket,
     lockBucket, acquireBucketLock, AcquireHit, AcquireMiss, AcquireVerify, AcquireInit, AcquireOpen,
     AcquireFails, AcquireGivesUp, Transact, releaseBucketDB, CreateCommit, DeleteUnregister, DeleteFile

\* What a transaction adds to the records: an object by a PUT, in the file of
\* its handle, or a marker.
LEMMA TransactAdds ==
    ASSUME TypeInv, NEW p \in Procs, Transact(p), NEW f, <<f, "object">> \in records'
    PROVE  \/ <<f, "object">> \in records
           \/ loc[p].kind = "put" /\ f = db[loc[p].h].file
  BY DEF Transact, Without

\* Everything but an opening.
LEMMA FileStep ==
    ASSUME TypeInv, LockInv, HandleInv, FileInv, TypeInv', HandleInv', NEW p \in Procs, Kept(p),
           Step(p) \/ \E n \in Names : Begin(p, n), ~AcquireOpen(p)
    PROVE  FileInv'
<1>a. Moves(p)
  BY StepMoves, BeginMoves
<1>b. \A q \in Procs : /\ pc[q] # "idle" => loc[q].name \in Names
                       /\ pc[q] \in HasHandle => loc[q].h \in Handles /\ db[loc[q].h].open
                       /\ loc[q].empty => pc[q] # "idle" /\ loc[q].kind = "delete"
                       /\ loc[q].empty => pc[q] \in Deleting \cup {"used"}
  BY DEF TypeInv, TypeOK, LocalsOK, Shape, HasHandle, HandleInv, NoUseAfterClose, OpeningInv, Deleting
<1>c. \A q \in Procs : /\ pc'[q] \in HasHandle => loc'[q].h \in Handles /\ db'[loc'[q].h].open
  BY DEF TypeInv, TypeOK, LocalsOK, Shape, HasHandle, HandleInv, NoUseAfterClose, OpeningInv
<1>d. /\ \A n \in Names : active[n] # NoHandle => active[n] \in Handles /\ db[active[n]].open
      /\ \A n \in Names : active'[n] # NoHandle => active'[n] \in Handles /\ db'[active'[n]].open
  BY DEF TypeInv, TypeOK, HandleInv, ActiveInv
<1>e. \A g \in Handles : db'[g].open =>
          db'[g].file = db[g].file /\ db'[g].file \in Files /\ db'[g].raced = db[g].raced
  BY <1>a DEF Moves, HandleInv, OpenHasFile
<1>f. ASSUME NEW n \in Names, NEW h \in Handles, HeldBy(n, h), db'[h].open PROVE HeldBy(n, h)'
  BY <1>a, <1>e, <1>f, HandleAssumption DEF HeldBy, Moves
\* The records of a file nobody writes.
<1>g. ASSUME NEW n \in Names, <<file[n], "object">> \notin records,
             pc[p] = "using" /\ loc[p].kind = "put" => loc[p].name # n
      PROVE  <<file'[n], "object">> \notin records'
  <2>1. <<file[n], "object">> \notin records'
    <3>1. CASE pc[p] = "using"
      <4>1. Transact(p)
        BY <3>1 DEF Step, Begin, Put, Delete, List, CreateBucket, DeleteBucket, Enter, acquireBucketLock,
           AcquireHit, AcquireMiss, AcquireVerify, AcquireInit, AcquireOpen, AcquireFails, AcquireGivesUp,
           AcquireInsert,
           releaseBucketDB, CreateCommit, DeleteUnregister, closeAndRemoveBucketDB, DeleteFile
      <4>2. file[n] = db[loc[p].h].file => n = loc[p].name
        BY <3>1 DEF FileInv, Owned, HeldBy, HasHandle
      <4>3. QED
        BY <1>g, <3>1, <4>1, <4>2, TransactAdds
    <3>2. CASE pc[p] # "using"
      BY <1>a, <1>g, <3>2 DEF Moves
    <3>3. QED
      BY <3>1, <3>2
  <2>2. <<NoFile, "object">> \notin records'
    BY HandleAssumption DEF TypeInv, TypeOK
  <2>3. QED
    BY <1>a, <2>1, <2>2 DEF Moves
<1>1. UsersCurrent'
  <2>1. SUFFICES ASSUME NEW q \in Procs, pc'[q] \in {"using", "used"}, loc'[q].kind # "list"
                 PROVE  active'[loc'[q].name] = loc'[q].h
    BY DEF UsersCurrent
  <2>2. CASE q = p
    <3>1. /\ loc'[p].name = loc[p].name /\ loc'[p].kind = loc[p].kind
          /\ pc[p] \in {"using", "used"} \/ active'[loc[p].name] = loc'[p].h
          /\ pc[p] \in {"using", "used"} => active' = active /\ loc'[p].h = loc[p].h
      BY <1>a, <2>1, <2>2 DEF Moves, HasHandle
    <3>2. QED
      BY <2>1, <2>2, <3>1 DEF FileInv, UsersCurrent
  <2>3. CASE q # p
    <3>1. pc'[q] = pc[q] /\ loc'[q] = loc[q]
      BY <2>3 DEF Kept
    <3>2. UsersCurrent
      BY DEF FileInv
    <3>3. QED
      BY <2>1, <2>3, <3>1, <3>2, ActiveKept
  <2>4. QED
    BY <2>2, <2>3
<1>2. FilesApart'
  BY <1>a DEF Moves, FileInv, FilesApart
<1>3. Owned'
  <2>1. ASSUME NEW n \in Names, active'[n] # NoHandle PROVE HeldBy(n, active[n])' 
    <3>1. \/ active'[n] = active[n]
          \/ pc[p] = "opened" /\ n = loc[p].name /\ active'[n] = loc[p].h
      BY <1>a, <2>1 DEF Moves
    <3>2. PICK h \in Handles : h = active'[n]
      BY <1>d, <2>1
    <3>3. HeldBy(n, h)
      BY <2>1, <3>1, <3>2 DEF FileInv, Owned, HasHandle
    <3>4. HeldBy(n, h)'
      BY <1>d, <1>f, <2>1, <3>2, <3>3
    <3>5. QED
      BY <3>2, <3>4 DEF HeldBy
  <2>2. ASSUME NEW q \in Procs, pc'[q] \in HasHandle PROVE HeldBy(loc[q].name, loc[q].h)'
    <3>1. PICK h \in Handles : h = loc'[q].h
      BY <1>c, <2>2
    <3>2. loc'[q].name = loc[q].name /\ loc[q].name \in Names /\ HeldBy(loc[q].name, h)
      <4>1. CASE q # p
        <5>1. pc'[q] = pc[q] /\ loc'[q] = loc[q]
          BY <4>1 DEF Kept
        <5>2. QED
          BY <1>b, <2>2, <3>1, <5>1 DEF FileInv, Owned, HasHandle
      <4>2. CASE q = p
        <5>1. /\ loc'[p].name = loc[p].name
              /\ \/ pc[p] \in HasHandle /\ h = loc[p].h
                 \/ pc[p] \in {"acquire", "initialize"} /\ h = active[loc[p].name]
          BY <1>a, <2>2, <3>1, <4>2 DEF Moves
        <5>2. loc[p].name \in Names
          BY <1>b, <5>1 DEF HasHandle
        <5>3. QED
          BY <4>2, <5>1, <5>2, <3>1, HandleAssumption DEF FileInv, Owned
      <4>3. QED
        BY <4>1, <4>2
    <3>3. PICK n \in Names : n = loc[q].name
      BY <3>2
    <3>4. HeldBy(n, h)'
      BY <1>c, <1>f, <2>2, <3>1, <3>2, <3>3
    <3>5. QED
      BY <3>1, <3>2, <3>3, <3>4 DEF HeldBy
  <2>3. QED
    BY <2>1, <2>2 DEF Owned
<1>4. Current'
  <2>1. ASSUME NEW n \in Names, NEW h \in Handles, AtPath(n, h), db'[h].open,
               pc[p] = "detached" /\ n = loc[p].name => db[h].raced
        PROVE  AtPath(n, h)'
    BY <1>a, <1>e, <2>1 DEF AtPath, Moves
  <2>2. ASSUME NEW n \in Names, active'[n] # NoHandle PROVE AtPath(n, active[n])'
    <3>1. \/ active'[n] = active[n]
          \/ pc[p] = "opened" /\ n = loc[p].name /\ active'[n] = loc[p].h
      BY <1>a, <2>2 DEF Moves
    <3>2. PICK h \in Handles : h = active'[n]
      BY <1>d, <2>2
    <3>3. AtPath(n, h)
      BY <2>2, <3>1, <3>2 DEF FileInv, Current
    <3>4. pc[p] = "detached" /\ n = loc[p].name => db[h].raced
      BY <2>2, <3>1, <3>2 DEF FileInv, Detached
    <3>5. AtPath(n, h)'
      BY <1>d, <2>1, <2>2, <3>2, <3>3, <3>4
    <3>6. QED
      BY <3>2, <3>5 DEF AtPath
  <2>3. ASSUME NEW q \in Procs, pc'[q] = "opened" PROVE AtPath(loc[q].name, loc[q].h)'
    <3>1. q # p /\ pc[q] = "opened" /\ loc'[q] = loc[q]
      BY <1>a, <2>3 DEF Moves, Kept, HasHandle
    <3>2. PICK n \in Names, h \in Handles : n = loc[q].name /\ h = loc[q].h
      BY <1>b, <3>1 DEF HasHandle
    <3>3. AtPath(n, h)
      BY <3>1, <3>2 DEF FileInv, Current
    <3>4. pc[p] = "detached" /\ n = loc[p].name => db[h].raced
      BY <3>1, <3>2 DEF FileInv, OpenedBeside, Deleting
    <3>5. AtPath(n, h)'
      BY <1>c, <2>1, <2>3, <3>1, <3>2, <3>3, <3>4 DEF HasHandle
    <3>6. QED
      BY <3>1, <3>2, <3>5 DEF AtPath
  <2>4. QED
    BY <2>2, <2>3 DEF Current
<1>5. Detached'
  <2>1. SUFFICES ASSUME NEW q \in Procs, pc'[q] = "detached", active'[loc'[q].name] # NoHandle
                 PROVE  db'[active'[loc'[q].name]].raced
    BY DEF Detached
  <2>2. q # p
    BY <1>a, <2>1 DEF Moves
  <2>3. pc[q] = "detached" /\ loc'[q] = loc[q] /\ loc[q].name \in Names
    BY <1>b, <2>1, <2>2 DEF Kept
  <2>4. PICK h \in Handles : h = active'[loc[q].name] /\ db'[h].open
    BY <1>d, <2>1, <2>3
  <2>5. db[h].raced
    <3>1. CASE active'[loc[q].name] = active[loc[q].name]
      BY <2>1, <2>3, <2>4, <3>1 DEF FileInv, Detached
    <3>2. CASE pc[p] = "opened" /\ loc[p].name = loc[q].name /\ h = loc[p].h
      BY <2>3, <3>2 DEF FileInv, OpenedBeside, Deleting
    <3>3. QED
      BY <1>a, <2>1, <2>3, <2>4, <3>1, <3>2 DEF Moves
  <2>6. QED
    BY <1>e, <2>3, <2>4, <2>5
<1>5a. OpenedBeside'
  <2>1. SUFFICES ASSUME NEW r \in Procs, NEW q \in Procs, pc'[r] = "opened", pc'[q] \in Deleting,
                        loc'[q].name = loc'[r].name
                 PROVE  db'[loc'[r].h].raced
    BY DEF OpenedBeside
  <2>2. r # p /\ pc[r] = "opened" /\ loc'[r] = loc[r]
    BY <1>a, <2>1 DEF Moves, Kept, HasHandle
  <2>3. loc[r].h \in Handles /\ db'[loc[r].h].open
    BY <1>c, <2>1, <2>2 DEF HasHandle
  <2>4. pc[q] \in Deleting /\ loc[q].name = loc[r].name
    <3>1. CASE q # p
      BY <2>1, <2>2, <3>1 DEF Kept
    <3>2. CASE q = p
      <4>1. loc[p].empty
        BY <1>a, <2>1, <3>2 DEF Moves
      <4>2. loc'[p].empty
        BY <2>1, <3>2 DEF TypeInv, LocalsOK, Shape
      <4>3. loc[p].name = loc[r].name
        BY <1>a, <2>1, <2>2, <3>2, <4>2 DEF Moves
      <4>4. pc[p] # "used"
        <5>1. SUFFICES ASSUME pc[p] = "used" PROVE FALSE
          OBVIOUS
        <5>2. active[loc[p].name] = loc[p].h /\ loc[p].h \in Handles
          BY <1>b, <4>1, <5>1 DEF FileInv, UsersCurrent, HasHandle
        <5>3. active[loc[r].name] = NoHandle
          BY <2>2 DEF HandleInv, OpensOnce
        <5>4. QED
          BY <4>3, <5>2, <5>3, HandleAssumption
      <4>5. QED
        BY <1>b, <3>2, <4>1, <4>3, <4>4
    <3>3. QED
      BY <3>1, <3>2
  <2>5. db[loc[r].h].raced
    BY <2>2, <2>4 DEF FileInv, OpenedBeside
  <2>6. QED
    BY <1>e, <2>2, <2>3, <2>5
<1>6. StaysEmpty'
  <2>1. SUFFICES ASSUME NEW q \in Procs, loc'[q].empty
                 PROVE  <<file'[loc'[q].name], "object">> \notin records'
    BY DEF StaysEmpty
  <2>2. CASE q = p /\ ~loc[p].empty
    <3>1. pc[p] = "using" /\ loc'[p].name = loc[p].name
      BY <1>a, <2>1, <2>2 DEF Moves
    <3>2. Transact(p)
        BY <3>1 DEF Step, Begin, Put, Delete, List, CreateBucket, DeleteBucket, Enter, acquireBucketLock,
           AcquireHit, AcquireMiss, AcquireVerify, AcquireInit, AcquireOpen, AcquireFails, AcquireGivesUp,
           AcquireInsert,
           releaseBucketDB, CreateCommit, DeleteUnregister, closeAndRemoveBucketDB, DeleteFile
    <3>3. loc[p].kind = "delete" /\ records = Without(db[loc[p].h].file) /\ loc[p].name \in Names
      BY <1>b, <2>1, <2>2, <3>1, <3>2 DEF Transact, TypeInv, TypeOK
    <3>4. active[loc[p].name] = loc[p].h /\ loc[p].h # NoHandle
      BY <1>b, <3>1, <3>3, HandleAssumption DEF FileInv, UsersCurrent, HasHandle
    <3>5. file[loc[p].name] = db[loc[p].h].file \/ file[loc[p].name] = NoFile
      BY <3>3, <3>4 DEF FileInv, Current, AtPath
    <3>6. <<NoFile, "object">> \notin records
      BY HandleAssumption DEF TypeInv, TypeOK
    <3>7. <<db[loc[p].h].file, "object">> \notin records
      BY <3>3 DEF Without
    <3>8. QED
      BY <1>g, <2>2, <3>1, <3>3, <3>5, <3>6, <3>7
  <2>3. CASE q # p \/ loc[p].empty
    <3>1. loc[q].empty /\ loc'[q].name = loc[q].name
      BY <1>a, <2>1, <2>3 DEF Moves, Kept
    <3>2. <<file[loc[q].name], "object">> \notin records
      BY <3>1 DEF FileInv, StaysEmpty
    <3>3. loc[q].name \in Names /\ exclusive[loc[q].name] = q
      BY <1>b, <3>1 DEF LockInv, Holds
    <3>4. pc[p] = "using" /\ loc[p].kind = "put" => p \in sharers[loc[p].name]
      BY DEF LockInv, Holds
    <3>5. pc[p] = "using" /\ loc[p].kind = "put" => loc[p].name # loc[q].name
      BY <3>3, <3>4, HandleAssumption DEF LockInv, Apart
    <3>6. QED
      BY <1>g, <3>1, <3>2, <3>3, <3>5
  <2>4. QED
    BY <2>2, <2>3
<1>7. DeletedLeavesNothing'
  <2>1. SUFFICES ASSUME NEW n \in Names, n \notin registry'
                 PROVE  <<file'[n], "object">> \notin records'
    BY DEF DeletedLeavesNothing
  <2>2. CASE n \in registry
    <3>1. pc[p] = "emptied" /\ n = loc[p].name
      BY <2>1, <2>2, RegistryKept
    <3>2. loc[p].empty
      BY <3>1 DEF TypeInv, LocalsOK, Shape, Deleting
    <3>3. <<file[n], "object">> \notin records
      BY <3>1, <3>2 DEF FileInv, StaysEmpty
    <3>4. QED
      BY <1>g, <3>1, <3>3
  <2>3. CASE n \notin registry
    <3>1. <<file[n], "object">> \notin records
      BY <2>3 DEF FileInv, DeletedLeavesNothing
    <3>2. pc[p] = "using" /\ loc[p].kind = "put" => loc[p].name # n
      BY <2>3 DEF LockInv, Holds
    <3>3. QED
      BY <1>g, <3>1, <3>2
  <2>4. QED
    BY <2>2, <2>3
<1>8. QED
  BY <1>1, <1>2, <1>3, <1>4, <1>5, <1>5a, <1>6, <1>7 DEF FileInv

\* An opening: of the file at the path, or of a new one.
LEMMA FileOpen ==
    ASSUME TypeInv, LockInv, HandleInv, FileInv, NEW p \in Procs, Kept(p), AcquireOpen(p)
    PROVE  FileInv'
<1>1. PICK h \in Handles, f \in Files :
           /\ ~db[h].open /\ \A q \in Procs : loc[q].h # h
           /\ f \notin OpenFiles
           /\ IF file[loc[p].name] # NoFile THEN f = file[loc[p].name] ELSE \A m \in Names : file[m] # f
           /\ file' = [file EXCEPT ![loc[p].name] = f]
           /\ records' = IF file[loc[p].name] = NoFile THEN Without(f) ELSE records
           /\ db' = [db EXCEPT ![h] = [Shut EXCEPT !.file = f, !.open = TRUE,
                                                !.raced = Removing(loc[p].name)]]
           /\ loc' = [loc EXCEPT ![p].h = h]
  BY DEF AcquireOpen
<1>a. /\ loc[p].name \in Names /\ pc[p] = "initialize" /\ loc[p] \in Locals
      /\ active[loc[p].name] = NoHandle /\ registry' = registry
  BY DEF AcquireOpen, TypeInv, TypeOK, LocalsOK, Shape, HasHandle, Locals
<1>n. PICK n \in Names : n = loc[p].name
  BY <1>a
<1>b. /\ pc'[p] = "opened" /\ loc'[p].h = h /\ loc'[p].name = n /\ active' = active
      /\ loc'[p].empty = loc[p].empty
  BY <1>1, <1>a, <1>n DEF AcquireOpen, Go, TypeInv, TypeOK, Locals
<1>c. /\ db'[h].file = f /\ db'[h].raced = Removing(n)
      /\ \A g \in Handles : g # h => db'[g] = db[g]
  BY <1>1, <1>n DEF Shut, TypeInv, TypeOK
<1>d. \A g \in Handles : db[g].open => g # h /\ db[g].file # f /\ db'[g] = db[g]
  BY <1>1, <1>c DEF OpenFiles
<1>e. \A m \in Names : file'[m] = IF m = n THEN f ELSE file[m]
  BY <1>1, <1>n DEF TypeInv, TypeOK
<1>f. /\ records' \subseteq records
      /\ \/ file[n] = f /\ \A m \in Names : file[m] = f => m = n
         \/ (\A m \in Names : file[m] # f) /\ <<f, "object">> \notin records'
  <2>1. CASE file[n] = NoFile
    BY <1>1, <1>n, <2>1 DEF Without
  <2>2. CASE file[n] # NoFile
    BY <1>1, <1>n, <2>2 DEF FileInv, FilesApart
  <2>3. QED
    BY <2>1, <2>2
<1>g. \A m \in Names : active[m] # NoHandle => active[m] \in Handles /\ db[active[m]].open
  BY DEF TypeInv, TypeOK, HandleInv, ActiveInv
<1>i. \A q \in Procs : pc[q] \in HasHandle =>
          loc[q].h \in Handles /\ db[loc[q].h].open /\ loc[q].name \in Names
  BY DEF TypeInv, TypeOK, LocalsOK, Shape, HasHandle, HandleInv, NoUseAfterClose, OpeningInv
<1>j. \A q \in Procs : q # p => pc'[q] = pc[q] /\ loc'[q] = loc[q]
  BY DEF Kept
<1>k. \A m \in Names : <<file[m], "object">> \notin records => <<file'[m], "object">> \notin records'
  BY <1>e, <1>f
<1>2. UsersCurrent'
  BY <1>b, <1>j DEF FileInv, UsersCurrent
<1>3. FilesApart'
  BY <1>e, <1>f DEF FileInv, FilesApart
<1>4. Owned'
  <2>1. ASSUME NEW m \in Names, NEW g \in Handles, db[g].open, HeldBy(m, g) PROVE HeldBy(m, g)'
    BY <1>d, <1>e, <2>1 DEF HeldBy
  <2>2. ASSUME NEW m \in Names, active'[m] # NoHandle PROVE HeldBy(m, active[m])'
    <3>1. PICK g \in Handles : g = active[m] /\ db[g].open
      BY <1>b, <1>g, <2>2
    <3>2. HeldBy(m, g)'
      BY <1>b, <2>1, <2>2, <3>1 DEF FileInv, Owned
    <3>3. QED
      BY <1>b, <3>1, <3>2 DEF HeldBy
  <2>3. ASSUME NEW q \in Procs, pc'[q] \in HasHandle PROVE HeldBy(loc[q].name, loc[q].h)'
    <3>1. CASE q = p
      BY <1>b, <1>c, <1>e, <1>f, <3>1 DEF HeldBy
    <3>2. CASE q # p
      <4>1. pc[q] \in HasHandle /\ loc'[q] = loc[q]
        BY <1>j, <2>3, <3>2
      <4>2. PICK m \in Names, g \in Handles : m = loc[q].name /\ g = loc[q].h /\ db[g].open
        BY <1>i, <4>1
      <4>3. HeldBy(m, g)'
        BY <2>1, <4>1, <4>2 DEF FileInv, Owned
      <4>4. QED
        BY <4>1, <4>2, <4>3 DEF HeldBy
    <3>3. QED
      BY <3>1, <3>2
  <2>4. QED
    BY <2>2, <2>3 DEF Owned
<1>5. Current'
  <2>1. ASSUME NEW m \in Names, NEW g \in Handles, db[g].open, m # n, AtPath(m, g) PROVE AtPath(m, g)'
    BY <1>d, <1>e, <2>1 DEF AtPath
  <2>2. ASSUME NEW m \in Names, active'[m] # NoHandle PROVE AtPath(m, active[m])'
    <3>1. PICK g \in Handles : g = active[m] /\ db[g].open
      BY <1>b, <1>g, <2>2
    <3>2. m # n
      BY <1>a, <1>n, <1>b, <2>2
    <3>3. AtPath(m, g)'
      BY <1>b, <2>1, <2>2, <3>1, <3>2 DEF FileInv, Current
    <3>4. QED
      BY <1>b, <3>1, <3>3 DEF AtPath
  <2>3. ASSUME NEW q \in Procs, pc'[q] = "opened" PROVE AtPath(loc[q].name, loc[q].h)'
    <3>1. CASE q = p
      BY <1>b, <1>c, <1>e, <3>1 DEF AtPath
    <3>2. CASE q # p
      <4>1. pc[q] = "opened" /\ loc'[q] = loc[q]
        BY <1>j, <2>3, <3>2
      <4>2. PICK m \in Names, g \in Handles : m = loc[q].name /\ g = loc[q].h /\ db[g].open
        BY <1>i, <4>1 DEF HasHandle
      <4>3. m # n
        <5>1. initLock[m] = q /\ initLock[n] = p
          BY <1>a, <1>n, <4>1, <4>2 DEF LockInv, Holds
        <5>2. QED
          BY <3>2, <5>1
      <4>4. AtPath(m, g)'
        BY <2>1, <4>1, <4>2, <4>3 DEF FileInv, Current
      <4>5. QED
        BY <4>1, <4>2, <4>4 DEF AtPath
    <3>3. QED
      BY <3>1, <3>2
  <2>4. QED
    BY <2>2, <2>3 DEF Current
<1>6. Detached'
  <2>1. SUFFICES ASSUME NEW q \in Procs, pc'[q] = "detached", active'[loc'[q].name] # NoHandle
                 PROVE  db'[active'[loc'[q].name]].raced
    BY DEF Detached
  <2>2. pc[q] = "detached" /\ loc'[q] = loc[q] /\ active' = active
    BY <1>b, <1>j, <2>1
  <2>3. loc[q].name \in Names
    BY <2>2 DEF TypeInv, LocalsOK, Shape
  <2>4. db'[active[loc[q].name]] = db[active[loc[q].name]]
    BY <1>d, <1>g, <2>1, <2>2, <2>3
  <2>5. QED
    BY <2>1, <2>2, <2>4 DEF FileInv, Detached
<1>6a. OpenedBeside'
  <2>1. SUFFICES ASSUME NEW r \in Procs, NEW q \in Procs, pc'[r] = "opened", pc'[q] \in Deleting,
                        loc'[q].name = loc'[r].name
                 PROVE  db'[loc'[r].h].raced
    BY DEF OpenedBeside
  <2>2. q # p /\ pc[q] = pc'[q] /\ loc'[q] = loc[q]
    BY <1>b, <1>j, <2>1 DEF Deleting
  <2>3. CASE r = p
    <3>1. Removing(n)
      BY <1>b, <2>1, <2>2, <2>3 DEF Removing, Deleting
    <3>2. QED
      BY <1>b, <1>c, <2>3, <3>1
  <2>4. CASE r # p
    <3>1. pc[r] = "opened" /\ loc'[r] = loc[r]
      BY <1>j, <2>1, <2>4
    <3>2. db[loc[r].h].raced
      BY <2>1, <2>2, <3>1 DEF FileInv, OpenedBeside
    <3>3. QED
      BY <1>d, <1>i, <3>1, <3>2 DEF HasHandle
  <2>5. QED
    BY <2>3, <2>4
<1>7. StaysEmpty'
  <2>1. \A q \in Procs : loc[q].empty => loc[q].name \in Names
    BY DEF TypeInv, LocalsOK, Shape, Deleting
  <2>2. \A q \in Procs : loc'[q].empty = loc[q].empty /\ loc'[q].name = loc[q].name
    BY <1>b, <1>n, <1>j
  <2>3. QED
    BY <1>k, <2>1, <2>2 DEF FileInv, StaysEmpty
<1>8. DeletedLeavesNothing'
  BY <1>a, <1>k DEF FileInv, DeletedLeavesNothing
<1>9. QED
  BY <1>2, <1>3, <1>4, <1>5, <1>6, <1>6a, <1>7, <1>8 DEF FileInv

LEMMA FileInit == Init => FileInv
<1> SUFFICES ASSUME Init PROVE FileInv
  OBVIOUS
<1>1. PICK made \in [registry -> Files] :
           /\ \A m, n \in registry : made[m] = made[n] => m = n
           /\ file = [n \in Names |-> IF n \in registry THEN made[n] ELSE NoFile]
           /\ records \in SUBSET {<<made[n], "object">> : n \in registry}
  BY DEF Init
<1>2. FilesApart
  BY <1>1 DEF Init, FilesApart
<1>3. DeletedLeavesNothing
  BY <1>1, HandleAssumption DEF Init, DeletedLeavesNothing
<1>4. QED
  BY <1>2, <1>3 DEF Init, FileInv, UsersCurrent, Owned, Current, OpenedBeside, Detached, StaysEmpty, HasHandle,
     Blank

LEMMA FileCrash == FileInv /\ Crash => FileInv'
  BY DEF Crash, FileInv, UsersCurrent, FilesApart, Owned, Current, OpenedBeside, Detached, StaysEmpty, HasHandle,
     Blank, DeletedLeavesNothing, files

-----------------------------------------------------------------------------
(***************************************************************************)
(* The theorems                                                            *)
(***************************************************************************)
HandlesInv == TypeInv /\ LockInv /\ HandleInv /\ FileInv

LEMMA InvInit == Init => HandlesInv
  BY TypeInit, LockInit, HandleInit, FileInit DEF HandlesInv

LEMMA InvNext == HandlesInv /\ [Next]_vars => HandlesInv'
<1> SUFFICES ASSUME HandlesInv, [Next]_vars PROVE HandlesInv'
  OBVIOUS
<1> USE DEF HandlesInv
<1>1. ASSUME NEW p \in Procs, Step(p) \/ \E n \in Names : Begin(p, n)
      PROVE  HandlesInv'
  <2>1. TypeInv'
    BY <1>1, StepType, BeginType DEF HandleInv
  <2>2. LockInv' /\ Kept(p)
    BY <1>1, LockStep
  <2>3. HandleInv'
    BY <1>1, HandleStep
  <2>4. FileInv'
    BY <1>1, <2>1, <2>2, <2>3, FileStep, FileOpen
  <2>5. QED
    BY <2>1, <2>2, <2>3, <2>4
<1>2. CASE Crash
  BY <1>2, CrashType, LockCrash, HandleCrash, FileCrash
<1>3. CASE UNCHANGED vars
  <2> USE <1>3 DEF vars, files, locks
  <2>1. TypeInv'
    BY DEF TypeInv, TypeOK, LocalsOK
  <2>2. LockInv'
    BY DEF LockInv, Holds, Apart
  <2>3. HandleInv'
    BY QuietHandles DEF SameHandles
  <2>4. FileInv'
    BY DEF FileInv, UsersCurrent, FilesApart, Owned, Current, OpenedBeside, Detached, StaysEmpty, HeldBy, AtPath,
       DeletedLeavesNothing
  <2>5. QED
    BY <2>1, <2>2, <2>3, <2>4
<1>4. QED
  BY <1>1, <1>2, <1>3 DEF Next

LEMMA InvAlways == Spec => []HandlesInv
  BY InvInit, InvNext, PTL DEF Spec

\* Every variable keeps its type: in particular no reference count that
\* releaseBucketDB decrements goes below zero.
THEOREM TypeCorrect == Spec => []TypeOK
<1>1. HandlesInv => TypeOK
  BY DEF HandlesInv, TypeInv
<1>2. QED
  BY <1>1, InvAlways, PTL

\* No database is closed under a request that has acquired it, by evictLocked,
\* closeAndRemoveBucketDB or another request's release.
THEOREM NeverUsedClosed == Spec => []NoUseAfterClose
<1>1. HandlesInv => NoUseAfterClose
  BY DEF HandlesInv, HandleInv
<1>2. QED
  BY <1>1, InvAlways, PTL

\* Every open database is in activeBuckets, in use or being opened: an evicted
\* one always has the user whose release will close it.
THEOREM NoneLeaked == Spec => []NoLeakedHandle
<1>1. HandlesInv => NoLeakedHandle
  <2> SUFFICES ASSUME HandlesInv, NEW h \in Handles, db[h].open
               PROVE  \/ \E n \in Names : active[n] = h
                      \/ db[h].refs > 0
                      \/ \E p \in Procs : pc[p] = "opened" /\ loc[p].h = h
    BY DEF NoLeakedHandle
  <2>1. CASE db[h].evicted
    BY <2>1 DEF HandlesInv, HandleInv, EntryInv
  <2>2. CASE ~db[h].evicted
    BY <2>2 DEF HandlesInv, HandleInv, Tracked
  <2>3. QED
    BY <2>1, <2>2
<1>2. QED
  BY <1>1, InvAlways, PTL

\* Between bolt.Open and the insertion nobody else inserts a handle for the
\* bucket: the initialization lock makes acquireBucketDB's lost-race branch
\* unreachable.
THEOREM OpenedOnce == Spec => []OpensOnce
<1>1. HandlesInv => OpensOnce
  BY DEF HandlesInv, HandleInv
<1>2. QED
  BY <1>1, InvAlways, PTL

\* DeleteBucket leaves no object at the path of a bucket that is gone, whatever
\* writes, listings, evictions and crashes it met.
THEOREM DeletionIsComplete == Spec => []DeletedLeavesNothing
<1>1. HandlesInv => DeletedLeavesNothing
  BY DEF HandlesInv, FileInv
<1>2. QED
  BY <1>1, InvAlways, PTL

\* A transaction under the metadata lock writes to the file at the bucket's
\* path, whoever lists the bucket meanwhile: only a handle that was opened in
\* the middle of a deletion can have a file that was removed.
THEOREM WritesPersist == Spec => []WritesReachDisk
<1>1. HandlesInv => WritesReachDisk
  <2> SUFFICES ASSUME HandlesInv, NEW p \in Procs, pc[p] = "using", loc[p].kind # "list"
               PROVE  db[loc[p].h].file = file[loc[p].name] \/ db[loc[p].h].raced
    BY DEF WritesReachDisk
  <2>1. loc[p].name \in Names /\ loc[p].h # NoHandle
    BY DEF HandlesInv, TypeInv, LocalsOK, Shape, HasHandle
  <2>2. active[loc[p].name] = loc[p].h
    BY DEF HandlesInv, FileInv, UsersCurrent
  <2>3. QED
    BY <2>1, <2>2 DEF HandlesInv, FileInv, Current, AtPath
<1>2. QED
  BY <1>1, InvAlways, PTL
=============================================================================

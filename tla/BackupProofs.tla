---------------------------- MODULE BackupProofs ----------------------------
(***************************************************************************)
(* Proofs about Backup, for any set of files, places and commands and any  *)
(* number of writes and damaged files.                                     *)
(***************************************************************************)
EXTENDS Backup, TLAPS

-----------------------------------------------------------------------------
(***************************************************************************)
(* Types                                                                   *)
(***************************************************************************)

\* A restore has a source.
HasSource ==
    \A p \in Commands : job[p].pc # "idle" /\ ~job[p].create => job[p].from # {}

TypeInv == TypeOK /\ HasSource

Jobs == [pc : {"idle", "check", "copy", "rename", "parent"}, create : BOOLEAN,
         from : SUBSET Places, to : SUBSET Places, todo : SUBSET Files, staging : Trees]

LEMMA ContentType ==
    NoFile \in Content /\ Rotten \in Content /\ 1 \in Content
  BY BackupAssumption DEF Content

LEMMA IdleType == EmptyTree \in Trees /\ Idle \in Jobs
  BY ContentType DEF Idle, Jobs, EmptyTree, Trees, Manifests

\* What CopyFile reads is a function on the files.
LEMMA SourceType ==
    ASSUME TypeInv, NEW p \in Commands, job[p].pc # "idle"
    PROVE  Source(p) \in [Files -> Content]
<1>1. job[p] \in Jobs
  BY DEF TypeInv, TypeOK, Jobs
<1>2. CASE job[p].create
  BY <1>2 DEF Source, TypeInv, TypeOK
<1>3. CASE ~job[p].create
  <2>1. job[p].from # {} /\ job[p].from \subseteq Places
    BY <1>1, <1>3 DEF TypeInv, HasSource, Jobs
  <2>2. (CHOOSE s \in Places : s \in job[p].from) \in Places
    BY <2>1
  <2>3. QED
    BY <1>3, <2>2 DEF Source, TypeInv, TypeOK, Trees
<1>4. QED
  BY <1>1, <1>2, <1>3 DEF Jobs

\* A step that gives one command a well-formed job.
LEMMA JobStep ==
    ASSUME TypeInv, NEW p \in Commands, NEW j \in Jobs, job' = [job EXCEPT ![p] = j],
           j.pc # "idle" /\ ~j.create => j.from # {}
    PROVE  job' \in [Commands -> Jobs] /\ HasSource'
  BY DEF TypeInv, TypeOK, HasSource, Jobs

\* What a late request does to a command: a file copied before is torn.
LEMMA Straggled ==
    ASSUME NEW f \in Files, NEW c, Straggle(f, c), NEW p \in Commands, job[p] \in Jobs
    PROVE  /\ job'[p] \in Jobs
           /\ job'[p].pc = job[p].pc /\ job'[p].create = job[p].create
           /\ job'[p].from = job[p].from /\ job'[p].to = job[p].to
           /\ job'[p].todo = job[p].todo /\ job'[p].staging.files = job[p].staging.files
           /\ job'[p].staging.manifest = job[p].staging.manifest
           /\ job[p].staging.torn \subseteq job'[p].staging.torn
           /\ job[p].pc = "copy" /\ job[p].create /\ f \notin job[p].todo =>
                 f \in job'[p].staging.torn
           /\ job[p].pc # "copy" => job'[p] = job[p]
<1> DEFINE t == [job[p].staging EXCEPT !.torn = @ \cup {f}]
           j == [job[p] EXCEPT !.staging = t]
<1>1. job'[p] = IF job[p].pc = "copy" /\ job[p].create /\ f \notin job[p].todo
                THEN [job[p] EXCEPT !.staging.torn = @ \cup {f}] ELSE job[p]
  BY DEF Straggle
<1>2. [job[p] EXCEPT !.staging.torn = @ \cup {f}] = j
  BY DEF Jobs
<1>3. /\ t \in Trees /\ t.files = job[p].staging.files /\ t.manifest = job[p].staging.manifest
      /\ t.torn = job[p].staging.torn \cup {f}
  BY DEF Jobs, Trees
<1>4. /\ j \in Jobs /\ j.pc = job[p].pc /\ j.create = job[p].create
      /\ j.from = job[p].from /\ j.to = job[p].to /\ j.todo = job[p].todo /\ j.staging = t
  BY <1>3 DEF Jobs
<1>5. QED
  BY <1>1, <1>2, <1>3, <1>4

LEMMA TypeInit == Init => TypeInv
<1> SUFFICES ASSUME Init PROVE TypeInv
  OBVIOUS
<1>1. data \in [Files -> Content] /\ EmptyTree.files \in [Files -> Content]
  BY ContentType DEF Init, EmptyTree
<1>2. writes \in 1..(MaxWrites + 1) /\ late \in 0..MaxLate
  BY BackupAssumption DEF Init
<1>3. HasSource
  BY DEF Init, HasSource, Idle
<1>4. QED
  BY <1>1, <1>2, <1>3, IdleType DEF Init, TypeInv, TypeOK, Jobs

\* What VerifyStaging looks at.
LEMMA StagedType ==
    ASSUME TypeInv, NEW p \in Commands
    PROVE  /\ Staged(p).files = job[p].staging.files
           /\ job[p].create => /\ Staged(p).manifest = {job[p].staging.files}
                               /\ Staged(p).torn = job[p].staging.torn
           /\ ~job[p].create =>
                 /\ Staged(p).manifest = UNION {tree[s].manifest : s \in job[p].from}
                 /\ Staged(p).torn = UNION {tree[s].torn : s \in job[p].from}
           /\ Staged(p).manifest \in Manifests => Staged(p) \in Trees
<1> DEFINE m == UNION {tree[s].manifest : s \in job[p].from}
           n == UNION {tree[s].torn : s \in job[p].from}
           t == job[p].staging
<1>1. job[p].staging \in Trees /\ job[p].from \subseteq Places
  BY DEF TypeInv, TypeOK
<1>2. n \in SUBSET Files
  BY <1>1 DEF TypeInv, TypeOK, Trees
<1>3. \A x : /\ [t EXCEPT !.manifest = x].files = t.files
             /\ [t EXCEPT !.manifest = x].manifest = x
             /\ [t EXCEPT !.manifest = x].torn = t.torn
             /\ x \in Manifests => [t EXCEPT !.manifest = x] \in Trees
  BY <1>1 DEF Trees
<1>4. \A x, y : /\ [t EXCEPT !.manifest = x, !.torn = y].files = t.files
                /\ [t EXCEPT !.manifest = x, !.torn = y].manifest = x
                /\ [t EXCEPT !.manifest = x, !.torn = y].torn = y
                /\ x \in Manifests /\ y \in SUBSET Files =>
                      [t EXCEPT !.manifest = x, !.torn = y] \in Trees
  BY <1>1 DEF Trees
<1>5. CASE job[p].create
  BY <1>3, <1>5 DEF Staged
<1>6. CASE ~job[p].create
  <2>1. Staged(p) = [t EXCEPT !.manifest = m, !.torn = n]
    BY <1>6 DEF Staged
  <2> HIDE DEF m, n, t
  <2>2. /\ Staged(p).files = t.files /\ Staged(p).manifest = m /\ Staged(p).torn = n
        /\ m \in Manifests => Staged(p) \in Trees
    <3>1. /\ [t EXCEPT !.manifest = m, !.torn = n].files = t.files
          /\ [t EXCEPT !.manifest = m, !.torn = n].manifest = m
          /\ [t EXCEPT !.manifest = m, !.torn = n].torn = n
          /\ m \in Manifests => [t EXCEPT !.manifest = m, !.torn = n] \in Trees
      BY <1>2, <1>4, Zenon
    <3>2. QED
      BY <2>1, <3>1, Zenon
  <2>3. QED
    BY <1>6, <2>2 DEF m, n, t
<1>7. QED
  BY <1>5, <1>6

LEMMA TypeNext == TypeInv /\ [Next]_vars => TypeInv'
<1> SUFFICES ASSUME TypeInv, [Next]_vars PROVE TypeInv'
  OBVIOUS
<1>a. \A p \in Commands : job[p] \in Jobs
  BY DEF TypeInv, TypeOK, Jobs
<1>b. ASSUME NEW p \in Commands, NEW j \in Jobs, job' = [job EXCEPT ![p] = j],
             j.pc # "idle" /\ ~j.create => j.from # {},
             UNCHANGED <<serverVars, placeVars, historyVars>>
      PROVE  TypeInv'
  BY <1>b, JobStep DEF TypeInv, TypeOK, Jobs, serverVars, placeVars, historyVars
<1>1. CASE StartServer
  BY <1>1 DEF StartServer, TypeInv, TypeOK, HasSource, placeVars, historyVars
<1>2. CASE StopServer
  <2>1. late' \in 0..MaxLate
    BY <1>2, BackupAssumption DEF StopServer, TypeInv, TypeOK
  <2>2. QED
    BY <1>2, <2>1 DEF StopServer, TypeInv, TypeOK, HasSource, placeVars, historyVars
<1>3. ASSUME NEW f \in Files, Write(f) PROVE TypeInv'
  <2>1. writes + 1 \in 1..(MaxWrites + 1)
    BY <1>3, BackupAssumption DEF Write, TypeInv, TypeOK
  <2>2. data' \in [Files -> Content] /\ writes' \in 1..(MaxWrites + 1)
    BY <1>3, <2>1 DEF Write, TypeInv, TypeOK, Content
  <2>3. QED
    BY <1>3, <2>2 DEF Write, TypeInv, TypeOK, HasSource, placeVars, historyVars
<1>4. ASSUME NEW f \in Files, Delete(f) PROVE TypeInv'
  BY <1>4, ContentType DEF Delete, TypeInv, TypeOK, HasSource, placeVars, historyVars
<1>4a. ASSUME NEW f \in Files, NEW c \in {NoFile, writes + 1}, Straggle(f, c) PROVE TypeInv'
  <2>1. /\ writes' = writes + 1 /\ writes + 1 \in 1..(MaxWrites + 1)
        /\ late' \in 0..MaxLate
    BY <1>4a, BackupAssumption DEF Straggle, TypeInv, TypeOK
  <2>2. c \in Content
    BY <2>1, ContentType DEF Content
  <2>3. data' \in [Files -> Content]
    BY <1>4a, <2>2 DEF Straggle, TypeInv, TypeOK
  <2>4. quiet' \subseteq [Files -> Content]
    BY <1>4a, <2>3 DEF Straggle, TypeInv, TypeOK
  <2>5. \A p \in Commands : /\ job'[p] \in Jobs /\ job'[p].pc = job[p].pc
                            /\ job'[p].create = job[p].create /\ job'[p].from = job[p].from
    BY <1>4a, <1>a, Straggled
  <2>6. job' \in [Commands -> Jobs]
    BY <1>4a, <2>5 DEF Straggle
  <2>7. HasSource'
    BY <2>5 DEF TypeInv, HasSource
  <2>8. QED
    BY <1>4a, <2>1, <2>3, <2>4, <2>6, <2>7 DEF Straggle, TypeInv, TypeOK, Jobs, placeVars,
       historyVars
<1>5. ASSUME NEW p \in Commands, NEW d \in Places, Create(p, d) PROVE TypeInv'
  <2> DEFINE j == [Idle EXCEPT !.pc = "check", !.create = TRUE, !.from = {}, !.to = {d}]
  <2>1. j \in Jobs /\ j.create
    BY IdleType DEF Idle, Jobs
  <2>2. QED
    BY <1>5, <1>b, <2>1 DEF Create, Begin
<1>6. ASSUME NEW p \in Commands, NEW s \in Places, NEW d \in Places, Restore(p, s, d)
      PROVE  TypeInv'
  <2> DEFINE j == [Idle EXCEPT !.pc = "check", !.create = FALSE, !.from = {s}, !.to = {d}]
  <2>1. j \in Jobs /\ j.from # {}
    BY IdleType DEF Idle, Jobs
  <2>2. QED
    BY <1>6, <1>b, <2>1 DEF Restore, Begin
<1>7. ASSUME NEW p \in Commands, Stage(p) PROVE TypeInv'
  <2> DEFINE j == [job[p] EXCEPT !.pc = "copy", !.todo = Files]
  <2>1. j \in Jobs /\ (~j.create => j.from # {}) /\ job' = [job EXCEPT ![p] = j]
    BY <1>7, <1>a DEF Stage, Jobs, TypeInv, TypeOK, HasSource
  <2>2. QED
    BY <1>7, <1>b, <2>1 DEF Stage
<1>8. ASSUME NEW p \in Commands, NEW f \in Files, CopyFile(p, f) PROVE TypeInv'
  <2>1. Source(p)[f] \in Content
    BY <1>8, SourceType DEF CopyFile
  <2> DEFINE t == [job[p].staging EXCEPT !.files[f] = Source(p)[f]]
             j == [job[p] EXCEPT !.todo = @ \ {f}, !.staging = t]
  <2>2. t \in Trees
    BY <2>1, <1>a DEF Jobs, Trees
  <2>3. j \in Jobs /\ (~j.create => j.from # {}) /\ job' = [job EXCEPT ![p] = j]
    BY <1>8, <1>a, <2>2 DEF CopyFile, Jobs, TypeInv, TypeOK, HasSource
  <2>4. QED
    BY <1>8, <1>b, <2>3 DEF CopyFile
<1>9. ASSUME NEW p \in Commands, VerifyStaging(p) PROVE TypeInv'
  <2> DEFINE t == syncTree(IF job[p].create THEN Staged(p)
                           ELSE [Staged(p) EXCEPT !.manifest = NoManifest])
             j == [job[p] EXCEPT !.pc = "rename", !.staging = t]
  <2>1. Staged(p).files = job[p].staging.files /\ Staged(p).files \in [Files -> Content]
    BY <1>a, StagedType DEF Jobs, Trees
  <2>2. Staged(p) \in Trees
    BY <1>9, <1>a, <2>1, StagedType DEF VerifyStaging, Verify, Manifests
  <2>3. t \in Trees
    BY <2>2 DEF syncTree, Trees, Manifests
  <2>4. j \in Jobs /\ (~j.create => j.from # {}) /\ job' = [job EXCEPT ![p] = j]
    BY <1>9, <1>a, <2>3 DEF VerifyStaging, Jobs, TypeInv, TypeOK, HasSource
  <2>5. QED
    BY <1>9, <1>b, <2>4 DEF VerifyStaging
<1>10. ASSUME NEW p \in Commands, Rename(p) PROVE TypeInv'
  <2> DEFINE j == [job[p] EXCEPT !.pc = "parent"]
  <2>1. j \in Jobs /\ (~j.create => j.from # {}) /\ job' = [job EXCEPT ![p] = j]
    BY <1>10, <1>a DEF Rename, Advance, Jobs, TypeInv, TypeOK, HasSource
  <2>2. job' \in [Commands -> Jobs] /\ HasSource'
    BY <2>1, JobStep
  <2>3. published' \subseteq Places /\ tree' \in [Places -> Trees]
    BY <1>10, <1>a DEF Rename, Jobs, TypeInv, TypeOK
  <2>4. QED
    BY <1>10, <2>2, <2>3 DEF Rename, TypeInv, TypeOK, Jobs, serverVars, historyVars
<1>11. ASSUME NEW p \in Commands, syncParent(p) PROVE TypeInv'
  <2>1. job' \in [Commands -> Jobs] /\ HasSource'
    BY <1>11, IdleType, JobStep DEF syncParent, Idle
  <2>2. /\ linked' \subseteq Places /\ reported' \subseteq Places
        /\ promised' \in [Places -> [Files -> Content]]
    BY <1>11, <1>a DEF syncParent, Jobs, Trees, TypeInv, TypeOK
  <2>3. QED
    BY <1>11, <2>1, <2>2 DEF syncParent, TypeInv, TypeOK, Jobs, serverVars
<1>12. ASSUME NEW p \in Commands, Fail(p) PROVE TypeInv'
  BY <1>12, <1>b, IdleType DEF Fail, Idle
<1>13. CASE Crash
  <2>1. job' \in [Commands -> Jobs] /\ HasSource'
    BY <1>13, IdleType DEF Crash, HasSource, Idle
  <2>2. PICK gone \in SUBSET (published \ linked), lost \in SUBSET Files :
          /\ published' = published \ gone
          /\ tree' = [d \in Places |->
                       IF d \in gone THEN EmptyTree
                       ELSE IF tree[d].synced THEN tree[d]
                       ELSE [tree[d] EXCEPT !.files =
                                [f \in Files |-> IF f \in lost THEN NoFile ELSE @[f]]]]
    BY <1>13 DEF Crash
  <2>3. ASSUME NEW d \in Places
        PROVE  [tree[d] EXCEPT !.files =
                   [f \in Files |-> IF f \in lost THEN NoFile ELSE @[f]]] \in Trees
    <3>1. tree[d] \in Trees
      BY DEF TypeInv, TypeOK
    <3>2. [f \in Files |-> IF f \in lost THEN NoFile ELSE tree[d].files[f]] \in [Files -> Content]
      BY <3>1, ContentType DEF Trees
    <3>3. \A g \in [Files -> Content] : [tree[d] EXCEPT !.files = g] \in Trees
      BY <3>1 DEF Trees
    <3>4. QED
      BY <3>2, <3>3
  <2>4. tree' \in [Places -> Trees]
    BY <2>2, <2>3, IdleType DEF TypeInv, TypeOK
  <2>5. published' \subseteq Places /\ quiet' \subseteq [Files -> Content]
    BY <1>13 DEF Crash, TypeInv, TypeOK
  <2>a. late' \in 0..MaxLate
    BY <1>13, BackupAssumption DEF Crash
  <2>6. QED
    BY <1>13, <2>1, <2>4, <2>5, <2>a DEF Crash, TypeInv, TypeOK, Jobs, historyVars
<1>14. ASSUME NEW d \in Places, NEW f \in Files, NEW c \in {NoFile, Rotten}, Damage(d, f, c)
       PROVE  TypeInv'
  <2>1. tree' \in [Places -> Trees]
    <3>1. tree[d] \in Trees /\ c \in Content
      BY ContentType DEF TypeInv, TypeOK
    <3>2. [tree[d] EXCEPT !.files[f] = c] \in Trees
      BY <3>1 DEF Trees
    <3>3. tree' = [tree EXCEPT ![d] = [tree[d] EXCEPT !.files[f] = c]]
      BY <1>14 DEF Damage, TypeInv, TypeOK
    <3>4. QED
      BY <3>2, <3>3 DEF TypeInv, TypeOK
  <2>2. QED
    BY <1>14, <2>1 DEF Damage, TypeInv, TypeOK, HasSource, serverVars
<1>15. CASE UNCHANGED vars
  BY <1>15 DEF vars, TypeInv, TypeOK, HasSource, serverVars, placeVars, historyVars
<1>16. QED
  BY <1>1, <1>2, <1>3, <1>4, <1>4a, <1>5, <1>6, <1>7, <1>8, <1>9, <1>10, <1>11, <1>12,
     <1>13, <1>14, <1>15 DEF Next

\* Directories, staged copies and manifests stay well formed, and a restore
\* knows its source, at every step of every command.
THEOREM TypeCorrect == Spec => []TypeOK
<1>1. TypeInv => TypeOK
  BY DEF TypeInv
<1>2. QED
  BY <1>1, TypeInit, TypeNext, PTL DEF Spec

-----------------------------------------------------------------------------
(***************************************************************************)
(* Why a published tree is a snapshot                                      *)
(***************************************************************************)

\* A tree that was copied from one quiet state, but for what was torn.
OfMoment(files, torn) == \E q \in quiet : \A f \in Files \ torn : files[f] = q[f]

\* The lock on stiva.db: no server while a backup runs, and while no server
\* runs the data directory is in one of its quiet states.
Excluded ==
    /\ \A p \in Commands : LockedBy(p) => ~serving
    /\ ~serving => data \in quiet

\* A backup that is copying has copied what is still there, or torn.
CopiesData ==
    \A p \in Commands : job[p].pc = "copy" /\ job[p].create =>
        \A f \in Files \ job[p].todo :
            f \notin job[p].staging.torn => job[p].staging.files[f] = data[f]

\* What was verified is of one moment, and on disk; its manifest too.
StagingVerified ==
    \A p \in Commands : job[p].pc \in {"rename", "parent"} =>
        /\ OfMoment(job[p].staging.files, job[p].staging.torn)
        /\ \A m \in job[p].staging.manifest : OfMoment(m, job[p].staging.torn)
        /\ job[p].staging.synced

\* A manifest vouches for one moment, damaged as its tree may be.
ManifestsQuiet == \A d \in Places : \A m \in tree[d].manifest : OfMoment(m, tree[d].torn)

PublishedSynced == \A d \in published : tree[d].synced

SnapInv ==
    /\ TypeInv /\ Excluded /\ CopiesData /\ StagingVerified /\ ManifestsQuiet
    /\ PublishedSynced /\ PublishedTreesAreSnapshots

LEMMA SnapInit == Init => SnapInv
<1> SUFFICES ASSUME Init PROVE SnapInv
  OBVIOUS
<1>1. Excluded
  BY DEF Init, Excluded, LockedBy, Idle
<1>2. CopiesData /\ StagingVerified
  BY DEF Init, CopiesData, StagingVerified, OfMoment, Idle
<1>3. ManifestsQuiet /\ PublishedSynced /\ PublishedTreesAreSnapshots
  BY DEF Init, ManifestsQuiet, OfMoment, PublishedSynced, PublishedTreesAreSnapshots, EmptyTree, NoManifest
<1>4. QED
  BY <1>1, <1>2, <1>3, TypeInit DEF SnapInv

LEMMA SnapNext == SnapInv /\ [Next]_vars => SnapInv'
<1> SUFFICES ASSUME SnapInv, [Next]_vars PROVE SnapInv'
  OBVIOUS
<1>t. TypeInv /\ TypeInv'
  BY TypeNext DEF SnapInv
<1>a. \A p \in Commands : job[p] \in Jobs
  BY <1>t DEF TypeInv, TypeOK, Jobs
<1> DEFINE Rest == /\ Excluded' /\ CopiesData' /\ StagingVerified' /\ ManifestsQuiet'
                   /\ PublishedSynced' /\ PublishedTreesAreSnapshots'
<1> SUFFICES Rest
  BY <1>t DEF SnapInv
\* No moment is forgotten.
<1>q. ASSUME quiet \subseteq quiet' PROVE \A m, e : OfMoment(m, e) => OfMoment(m, e)'
  BY <1>q DEF OfMoment
\* A step of one command on its own job.
<1>b. ASSUME NEW p \in Commands, NEW j \in Jobs, job' = [job EXCEPT ![p] = j],
             UNCHANGED <<serverVars, placeVars, historyVars>>,
             j.pc # "idle" /\ j.create => ~serving,
             j.pc = "copy" /\ j.create =>
                 \A f \in Files \ j.todo :
                    f \notin j.staging.torn => j.staging.files[f] = data[f],
             j.pc \in {"rename", "parent"} =>
                 /\ OfMoment(j.staging.files, j.staging.torn)
                 /\ \A m \in j.staging.manifest : OfMoment(m, j.staging.torn)
                 /\ j.staging.synced
      PROVE  Rest
  <2>1. \A q \in Commands : job'[q] = IF q = p THEN j ELSE job[q]
    BY <1>b, <1>t DEF TypeInv, TypeOK
  <2>2. Excluded' /\ CopiesData' /\ StagingVerified'
    BY <1>b, <2>1 DEF SnapInv, Excluded, CopiesData, StagingVerified, OfMoment, LockedBy, serverVars
  <2>3. ManifestsQuiet' /\ PublishedSynced' /\ PublishedTreesAreSnapshots'
    BY <1>b DEF SnapInv, ManifestsQuiet, OfMoment, PublishedSynced, PublishedTreesAreSnapshots,
                serverVars, placeVars, historyVars
  <2>4. QED
    BY <2>2, <2>3
<1>1. CASE StartServer
  <2>1. Excluded' /\ CopiesData' /\ StagingVerified'
    BY <1>1 DEF StartServer, SnapInv, Excluded, CopiesData, StagingVerified, OfMoment, LockedBy
  <2>2. QED
    BY <1>1, <2>1 DEF StartServer, SnapInv, ManifestsQuiet, OfMoment, PublishedSynced,
                      PublishedTreesAreSnapshots, placeVars, historyVars
<1>2. CASE StopServer
  <2>1. Excluded' /\ CopiesData' /\ StagingVerified'
    BY <1>2 DEF StopServer, SnapInv, Excluded, CopiesData, StagingVerified, OfMoment, LockedBy
  <2>2. QED
    BY <1>2, <2>1 DEF StopServer, SnapInv, ManifestsQuiet, OfMoment, PublishedSynced,
                      PublishedTreesAreSnapshots, placeVars, historyVars
<1>3. ASSUME NEW f \in Files, Write(f) \/ Delete(f) PROVE Rest
  <2>1. serving /\ UNCHANGED <<serving, quiet, placeVars, job, historyVars>>
    BY <1>3 DEF Write, Delete
  <2>2. Excluded' /\ CopiesData' /\ StagingVerified'
    BY <2>1 DEF SnapInv, Excluded, CopiesData, StagingVerified, OfMoment, LockedBy
  <2>3. QED
    BY <2>1, <2>2 DEF SnapInv, ManifestsQuiet, OfMoment, PublishedSynced,
                      PublishedTreesAreSnapshots, placeVars, historyVars
<1>4. ASSUME NEW f \in Files, NEW c \in {NoFile, writes + 1}, Straggle(f, c) PROVE Rest
  <2>1. /\ UNCHANGED <<serving, placeVars, historyVars>> /\ quiet \subseteq quiet'
        /\ ~serving => data' \in quiet'
        /\ \A g \in Files \ {f} : data'[g] = data[g]
    BY <1>4, <1>t DEF Straggle, TypeInv, TypeOK
  <2>2. Excluded'
    BY <1>4, <1>a, <2>1, Straggled DEF SnapInv, Excluded, LockedBy
  <2>3. CopiesData'
    <3> SUFFICES ASSUME NEW p \in Commands, job'[p].pc = "copy", job'[p].create,
                        NEW g \in Files \ job'[p].todo, g \notin job'[p].staging.torn
                 PROVE  job'[p].staging.files[g] = data'[g]
      BY DEF CopiesData
    <3>1. /\ job[p].pc = "copy" /\ job[p].create /\ job[p].todo = job'[p].todo
          /\ job[p].staging.torn \subseteq job'[p].staging.torn /\ g # f
          /\ job'[p].staging.files = job[p].staging.files
      BY <1>4, <1>a, Straggled
    <3>2. QED
      BY <2>1, <3>1 DEF SnapInv, CopiesData
  <2>4. StagingVerified'
    <3>1. \A p \in Commands : job'[p].pc \in {"rename", "parent"} => job'[p] = job[p]
      BY <1>4, <1>a, Straggled
    <3>2. QED
      BY <1>q, <2>1, <3>1 DEF SnapInv, StagingVerified, OfMoment
  <2>5. ManifestsQuiet' /\ PublishedSynced' /\ PublishedTreesAreSnapshots'
    BY <2>1 DEF SnapInv, ManifestsQuiet, OfMoment, PublishedSynced,
       PublishedTreesAreSnapshots, placeVars, historyVars
  <2>6. QED
    BY <2>2, <2>3, <2>4, <2>5
<1>5. ASSUME NEW p \in Commands, NEW d \in Places, Create(p, d) PROVE Rest
  <2> DEFINE j == [Idle EXCEPT !.pc = "check", !.create = TRUE, !.from = {}, !.to = {d}]
  <2>1. j \in Jobs /\ j.pc = "check"
    BY IdleType DEF Idle, Jobs
  <2>2. QED
    BY <1>5, <1>b, <2>1 DEF Create, Begin
<1>6. ASSUME NEW p \in Commands, NEW s \in Places, NEW d \in Places, Restore(p, s, d)
      PROVE  Rest
  <2> DEFINE j == [Idle EXCEPT !.pc = "check", !.create = FALSE, !.from = {s}, !.to = {d}]
  <2>1. j \in Jobs /\ j.pc = "check" /\ ~j.create
    BY IdleType DEF Idle, Jobs
  <2>2. QED
    BY <1>6, <1>b, <2>1 DEF Restore, Begin
<1>7. ASSUME NEW p \in Commands, Stage(p) PROVE Rest
  <2> DEFINE j == [job[p] EXCEPT !.pc = "copy", !.todo = Files]
  <2>1. /\ j \in Jobs /\ j.pc = "copy" /\ j.todo = Files /\ j.create = job[p].create
        /\ job' = [job EXCEPT ![p] = j]
    <3>1. j \in Jobs /\ j.pc = "copy" /\ j.todo = Files /\ j.create = job[p].create
      BY <1>a DEF Jobs
    <3>2. job' = [job EXCEPT ![p] = j]
      BY <1>7, <1>t DEF Stage, TypeInv, TypeOK
    <3>3. QED
      BY <3>1, <3>2
  <2>2. job[p].pc = "check" /\ UNCHANGED <<serverVars, placeVars, historyVars>>
    BY <1>7 DEF Stage
  <2>3. j.create => ~serving
    BY <2>1, <2>2 DEF SnapInv, Excluded, LockedBy
  <2>4. QED
    BY <1>b, <2>1, <2>2, <2>3
<1>8. ASSUME NEW p \in Commands, NEW f \in Files, CopyFile(p, f) PROVE Rest
  <2>1. Source(p)[f] \in Content
    BY <1>8, <1>t, SourceType DEF CopyFile
  <2> DEFINE t == [job[p].staging EXCEPT !.files[f] = Source(p)[f]]
             j == [job[p] EXCEPT !.todo = @ \ {f}, !.staging = t]
  <2>2. /\ t \in Trees /\ t.torn = job[p].staging.torn
        /\ \A g \in Files : t.files[g] = IF g = f THEN Source(p)[f]
                                         ELSE job[p].staging.files[g]
    BY <2>1, <1>a DEF Jobs, Trees
  <2>3. /\ j \in Jobs /\ j.pc = "copy" /\ j.todo = job[p].todo \ {f}
        /\ j.create = job[p].create /\ j.staging = t /\ job' = [job EXCEPT ![p] = j]
    <3>1. /\ j \in Jobs /\ j.pc = job[p].pc /\ j.todo = job[p].todo \ {f}
          /\ j.create = job[p].create /\ j.staging = t
      BY <2>2, <1>a DEF Jobs
    <3>2. job' = [job EXCEPT ![p] = j] /\ job[p].pc = "copy"
      BY <1>8, <1>t DEF CopyFile, TypeInv, TypeOK
    <3>3. QED
      BY <3>1, <3>2
  <2>4. job[p].pc = "copy" /\ UNCHANGED <<serverVars, placeVars, historyVars>>
    BY <1>8, SMTT(30) DEF CopyFile
  <2>5. j.create => /\ ~serving
                    /\ \A g \in Files \ j.todo :
                          g \notin j.staging.torn => j.staging.files[g] = data[g]
    BY <2>2, <2>3, <2>4, ZenonT(60) DEF SnapInv, Excluded, LockedBy, CopiesData, Source
  <2>6. QED
    BY <1>b, <2>3, <2>4, <2>5
<1>9. ASSUME NEW p \in Commands, VerifyStaging(p) PROVE Rest
  <2> DEFINE t == syncTree(IF job[p].create THEN Staged(p)
                           ELSE [Staged(p) EXCEPT !.manifest = NoManifest])
             j == [job[p] EXCEPT !.pc = "rename", !.staging = t]
  <2>1. /\ job[p] \in Jobs /\ job[p].staging \in Trees /\ job[p].pc = "copy"
        /\ job' = [job EXCEPT ![p] = j] /\ UNCHANGED <<serverVars, placeVars, historyVars>>
    BY <1>9, <1>a, <1>t DEF VerifyStaging, Jobs, TypeInv, TypeOK
  <2>2. /\ Staged(p).files = job[p].staging.files /\ Staged(p).manifest = {job[p].staging.files}
        /\ Staged(p) \in Trees
    BY <1>9, <2>1, <1>t, StagedType DEF VerifyStaging, Verify, Manifests, Trees
  <2>3. OfMoment(job[p].staging.files, Staged(p).torn)
    <3>1. CASE job[p].create
      <4>1. ~serving /\ \A f \in Files \ job[p].staging.torn : job[p].staging.files[f] = data[f]
        BY <1>9, <2>1, <3>1 DEF VerifyStaging, SnapInv, Excluded, LockedBy, CopiesData
      <4>2. Staged(p).torn = job[p].staging.torn
        BY <1>t, <3>1, StagedType
      <4>3. data \in quiet
        BY <4>1 DEF SnapInv, Excluded
      <4>4. QED
        BY <4>1, <4>2, <4>3 DEF OfMoment
    <3>2. CASE ~job[p].create
      <4>1. /\ job[p].staging.files \in UNION {tree[s].manifest : s \in job[p].from}
            /\ Staged(p).torn = UNION {tree[s].torn : s \in job[p].from}
        BY <1>t, <2>2, <3>2, StagedType
      <4>2. PICK s \in job[p].from : job[p].staging.files \in tree[s].manifest
        BY <4>1
      <4>3. OfMoment(job[p].staging.files, tree[s].torn) /\ tree[s].torn \subseteq Staged(p).torn
        BY <2>1, <4>1, <4>2 DEF SnapInv, ManifestsQuiet, OfMoment, Jobs
      <4>4. QED
        BY <4>3 DEF OfMoment
    <3>3. QED
      BY <3>1, <3>2
  <2>4. j \in Jobs /\ j.pc = "rename" /\ j.create = job[p].create /\ j.staging = t
    <3>1. job'[p] = j /\ job'[p] \in Jobs
      BY <2>1, <1>t DEF TypeInv, TypeOK, Jobs
    <3>2. QED
      BY <2>1, <3>1 DEF Jobs
  <2>5. /\ OfMoment(t.files, t.torn) /\ t.synced
        /\ \A m \in t.manifest : OfMoment(m, t.torn)
    <3>1. /\ t.files = Staged(p).files /\ t.torn = Staged(p).torn /\ t.synced
          /\ t.manifest \in {Staged(p).manifest, NoManifest}
      BY <2>2 DEF syncTree, Trees
    <3>2. QED
      BY <2>2, <2>3, <3>1 DEF NoManifest
  <2>6. j.create => ~serving
    BY <2>1, <2>4 DEF SnapInv, Excluded, LockedBy
  <2>7. QED
    BY <1>b, <2>1, <2>4, <2>5, <2>6
<1>10. ASSUME NEW p \in Commands, Rename(p) PROVE Rest
  <2>1. /\ job[p].pc = "rename" /\ job[p] \in Jobs /\ UNCHANGED <<linked, serverVars, historyVars>>
        /\ \A q \in Commands : job'[q] = IF q = p THEN [job[p] EXCEPT !.pc = "parent"] ELSE job[q]
        /\ published' = published \cup job[p].to
        /\ \A d \in Places : tree'[d] = IF d \in job[p].to THEN job[p].staging ELSE tree[d]
    BY <1>10, <1>a, <1>t DEF Rename, Advance, TypeInv, TypeOK
  <2>2. /\ [job[p] EXCEPT !.pc = "parent"].create = job[p].create
        /\ [job[p] EXCEPT !.pc = "parent"].staging = job[p].staging
        /\ [job[p] EXCEPT !.pc = "parent"].pc = "parent"
    BY <2>1 DEF Jobs
  <2>a. \A q \in Commands :
          /\ job'[q].create = job[q].create /\ job'[q].staging = job[q].staging
          /\ job'[q] = job[q] \/ (job[q].pc = "rename" /\ job'[q].pc = "parent")
    BY <2>1, <2>2
  <2>3. Excluded' /\ CopiesData' /\ StagingVerified'
    <3>1. Excluded'
      BY <2>1, <2>a DEF SnapInv, Excluded, LockedBy, serverVars
    <3>2. CopiesData'
      BY <2>1, <2>a DEF SnapInv, CopiesData, serverVars
    <3>3. StagingVerified'
      BY <2>1, <2>a DEF SnapInv, StagingVerified, OfMoment, serverVars
    <3>4. QED
      BY <3>1, <3>2, <3>3
  <2>c. /\ \A m \in job[p].staging.manifest : OfMoment(m, job[p].staging.torn)
        /\ job[p].staging.synced
    BY <2>1 DEF SnapInv, StagingVerified
  <2>4. ManifestsQuiet' /\ PublishedSynced'
    <3>1. \A d \in Places : \A m \in tree'[d].manifest : OfMoment(m, tree'[d].torn)
      BY <2>1, <2>c DEF SnapInv, ManifestsQuiet
    <3>2. PublishedSynced'
      BY <2>1, <2>c, <1>t DEF SnapInv, PublishedSynced, TypeInv, TypeOK
    <3>3. QED
      BY <2>1, <3>1, <3>2 DEF ManifestsQuiet, OfMoment, serverVars
  <2>5. PublishedTreesAreSnapshots'
    <3> SUFFICES ASSUME NEW d \in published'
                 PROVE  \E q \in quiet' : \A f \in Files \ tree'[d].torn :
                          <<d, f>> \notin damaged' => tree'[d].files[f] = q[f]
      BY DEF PublishedTreesAreSnapshots
    <3>1. d \in Places
      BY <1>t DEF TypeInv, TypeOK
    <3>2. CASE d \in job[p].to
      BY <2>1, <3>1, <3>2 DEF SnapInv, StagingVerified, OfMoment, serverVars
    <3>3. CASE d \notin job[p].to
      BY <2>1, <3>1, <3>3 DEF SnapInv, PublishedTreesAreSnapshots, serverVars, historyVars
    <3>4. QED
      BY <3>2, <3>3
  <2>6. QED
    BY <2>3, <2>4, <2>5
<1>11. ASSUME NEW p \in Commands, syncParent(p) PROVE Rest
  <2>1. /\ \A q \in Commands : job'[q] = IF q = p THEN Idle ELSE job[q]
        /\ UNCHANGED <<serverVars, published, tree, damaged>> /\ Idle.pc = "idle"
    BY <1>11, <1>t DEF syncParent, TypeInv, TypeOK, Idle
  <2>2. Excluded' /\ CopiesData' /\ StagingVerified'
    BY <2>1 DEF SnapInv, Excluded, CopiesData, StagingVerified, OfMoment, LockedBy, serverVars
  <2>3. QED
    BY <2>1, <2>2 DEF SnapInv, ManifestsQuiet, OfMoment, PublishedSynced, PublishedTreesAreSnapshots,
                      serverVars
<1>12. ASSUME NEW p \in Commands, Fail(p) PROVE Rest
  BY <1>12, <1>b, IdleType DEF Fail, Idle
<1>13. CASE Crash
  <2>1. /\ \A p \in Commands : job'[p] = Idle
        /\ data' = data /\ data \in quiet' /\ quiet \subseteq quiet' /\ ~serving'
        /\ published' \subseteq published /\ damaged' = damaged /\ Idle.pc = "idle"
    BY <1>13 DEF Crash, historyVars, Idle
  <2>2. PICK gone \in SUBSET (published \ linked), lost \in SUBSET Files :
          /\ published' = published \ gone
          /\ tree' = [d \in Places |->
                       IF d \in gone THEN EmptyTree
                       ELSE IF tree[d].synced THEN tree[d]
                       ELSE [tree[d] EXCEPT !.files =
                                [f \in Files |-> IF f \in lost THEN NoFile ELSE @[f]]]]
    BY <1>13 DEF Crash
  <2>3. \A d \in Places :
           \/ tree'[d].manifest = {}
           \/ tree'[d].manifest = tree[d].manifest /\ tree'[d].torn = tree[d].torn
    BY <2>2, <1>t DEF TypeInv, TypeOK, Trees, EmptyTree, NoManifest
  <2>4. \A d \in published' : tree'[d] = tree[d]
    BY <2>2, <1>t DEF SnapInv, PublishedSynced, TypeInv, TypeOK
  <2>5. Excluded' /\ CopiesData' /\ StagingVerified'
    BY <2>1 DEF Excluded, CopiesData, StagingVerified, OfMoment, LockedBy
  <2>6. ManifestsQuiet' /\ PublishedSynced' /\ PublishedTreesAreSnapshots'
    BY <2>1, <2>3, <2>4 DEF SnapInv, ManifestsQuiet, OfMoment, PublishedSynced, PublishedTreesAreSnapshots
  <2>7. QED
    BY <2>5, <2>6
<1>14. ASSUME NEW d \in Places, NEW f \in Files, NEW c \in {NoFile, Rotten}, Damage(d, f, c)
       PROVE  Rest
  <2>1. /\ tree' = [tree EXCEPT ![d] = [tree[d] EXCEPT !.files[f] = c]]
        /\ damaged' = damaged \cup {<<d, f>>} /\ UNCHANGED <<serverVars, published, job>>
    BY <1>14, <1>t DEF Damage, TypeInv, TypeOK
  <2>2. /\ [tree[d] EXCEPT !.files[f] = c].manifest = tree[d].manifest
        /\ [tree[d] EXCEPT !.files[f] = c].torn = tree[d].torn
        /\ [tree[d] EXCEPT !.files[f] = c].synced = tree[d].synced
        /\ \A g \in Files \ {f} : [tree[d] EXCEPT !.files[f] = c].files[g] = tree[d].files[g]
    BY <1>t DEF TypeInv, TypeOK, Trees
  <2>3. \A e \in Places : /\ tree'[e].manifest = tree[e].manifest
                          /\ tree'[e].torn = tree[e].torn
                          /\ tree'[e].synced = tree[e].synced
                          /\ \A g \in Files : <<e, g>> \notin damaged' =>
                                tree'[e].files[g] = tree[e].files[g]
    BY <2>1, <2>2, <1>t DEF TypeInv, TypeOK
  <2>4. Excluded' /\ CopiesData' /\ StagingVerified'
    BY <2>1 DEF SnapInv, Excluded, CopiesData, StagingVerified, OfMoment, LockedBy, serverVars
  <2>5. ManifestsQuiet' /\ PublishedSynced'
    BY <2>1, <2>3, <1>t DEF SnapInv, ManifestsQuiet, OfMoment, PublishedSynced, serverVars, TypeInv, TypeOK
  <2>6. PublishedTreesAreSnapshots'
    BY <2>1, <2>3, <1>t DEF SnapInv, PublishedTreesAreSnapshots, serverVars, TypeInv, TypeOK
  <2>7. QED
    BY <2>4, <2>5, <2>6
<1>15. CASE UNCHANGED vars
  <2>1. Excluded' /\ CopiesData' /\ StagingVerified'
    BY <1>15 DEF vars, SnapInv, Excluded, CopiesData, StagingVerified, OfMoment, LockedBy, serverVars
  <2>2. QED
    BY <1>15, <2>1 DEF vars, SnapInv, ManifestsQuiet, OfMoment, PublishedSynced,
                       PublishedTreesAreSnapshots, serverVars, placeVars, historyVars
<1>16. QED
  BY <1>1, <1>2, <1>3, <1>4, <1>5, <1>6, <1>7, <1>8, <1>9, <1>10, <1>11, <1>12, <1>13,
     <1>14, <1>15 DEF Next

LEMMA SnapHolds == Spec => []SnapInv
  BY SnapInit, SnapNext, PTL DEF Spec

\* Every published tree is one quiet state of the data directory, file for
\* file, except for what the storage damaged in it and what a request that
\* outlived its server changed after it was copied: whatever servers, commands
\* and crashes come between the steps of Create and Restore.
THEOREM BackupsAreSnapshots == Spec => []PublishedTreesAreSnapshots
<1>1. SnapInv => PublishedTreesAreSnapshots
  BY DEF SnapInv
<1>2. QED
  BY <1>1, SnapHolds, PTL

-----------------------------------------------------------------------------
(***************************************************************************)
(* Why a reported tree stays                                               *)
(***************************************************************************)

\* Between the rename and the report the destination is the staged tree.
RenamedThere ==
    \A p \in Commands : job[p].pc = "parent" =>
        \A d \in job[p].to :
            /\ d \in published
            /\ \A f \in Files : <<d, f>> \notin damaged =>
                  tree[d].files[f] = job[p].staging.files[f]

\* What was reported survives a crash, its entry being on disk.
ReportedLinked == reported \subseteq linked

StayInv == SnapInv /\ RenamedThere /\ ReportedLinked /\ ReportedTreesStay

LEMMA StayNext == StayInv /\ [Next]_vars => StayInv'
<1> SUFFICES ASSUME StayInv, [Next]_vars PROVE RenamedThere' /\ ReportedLinked' /\ ReportedTreesStay'
  BY SnapNext DEF StayInv
<1>t. TypeInv /\ TypeInv'
  BY TypeNext DEF StayInv, SnapInv
<1>a. \A p \in Commands : job[p] \in Jobs
  BY <1>t DEF TypeInv, TypeOK, Jobs
<1> DEFINE Rest == RenamedThere' /\ ReportedLinked' /\ ReportedTreesStay'
\* A step that leaves the places and the reports alone and brings no command
\* to its report.
<1>b. ASSUME UNCHANGED <<placeVars, historyVars>>,
             \A p \in Commands : job'[p] = job[p] \/ job'[p].pc # "parent"
      PROVE  Rest
  BY <1>b DEF StayInv, RenamedThere, ReportedLinked, ReportedTreesStay, placeVars, historyVars
<1>1. CASE StartServer \/ StopServer \/ \E f \in Files : Write(f) \/ Delete(f)
  BY <1>1, <1>b DEF StartServer, StopServer, Write, Delete
<1>1a. ASSUME NEW f \in Files, NEW c \in {NoFile, writes + 1}, Straggle(f, c) PROVE Rest
  <2>1. \A p \in Commands : job'[p] = job[p] \/ job'[p].pc # "parent"
    BY <1>1a, <1>a, Straggled
  <2>2. QED
    BY <1>1a, <1>b, <2>1 DEF Straggle
<1>2. ASSUME NEW p \in Commands, NEW d \in Places, Create(p, d) PROVE Rest
  <2>1. \A q \in Commands : job'[q] = job[q] \/ job'[q].pc = "check"
    BY <1>2, <1>t DEF Create, Begin, TypeInv, TypeOK, Idle
  <2>2. QED
    BY <1>2, <1>b, <2>1 DEF Create
<1>3. ASSUME NEW p \in Commands, NEW s \in Places, NEW d \in Places, Restore(p, s, d) PROVE Rest
  <2>1. \A q \in Commands : job'[q] = job[q] \/ job'[q].pc = "check"
    BY <1>3, <1>t DEF Restore, Begin, TypeInv, TypeOK, Idle
  <2>2. QED
    BY <1>3, <1>b, <2>1 DEF Restore
<1>4. ASSUME NEW p \in Commands, Stage(p) PROVE Rest
  <2>1. \A q \in Commands : job'[q] = job[q] \/ job'[q].pc = "copy"
    BY <1>4, <1>t, <1>a DEF Stage, TypeInv, TypeOK, Jobs
  <2>2. QED
    BY <1>4, <1>b, <2>1 DEF Stage
<1>5. ASSUME NEW p \in Commands, NEW f \in Files, CopyFile(p, f) PROVE Rest
  <2>1. \A q \in Commands : job'[q] = job[q] \/ job'[q].pc = "copy"
    BY <1>5, <1>t, <1>a DEF CopyFile, TypeInv, TypeOK, Jobs
  <2>2. QED
    BY <1>5, <1>b, <2>1 DEF CopyFile
<1>6. ASSUME NEW p \in Commands, VerifyStaging(p) PROVE Rest
  <2>1. \A q \in Commands : job'[q] = job[q] \/ job'[q].pc = "rename"
    BY <1>6, <1>t, <1>a DEF VerifyStaging, TypeInv, TypeOK, Jobs
  <2>2. QED
    BY <1>6, <1>b, <2>1 DEF VerifyStaging
<1>7. ASSUME NEW p \in Commands, Rename(p) PROVE Rest
  <2>1. /\ job[p].pc = "rename" /\ job[p] \in Jobs /\ UNCHANGED <<linked, historyVars>>
        /\ \A q \in Commands : job'[q] = IF q = p THEN [job[p] EXCEPT !.pc = "parent"] ELSE job[q]
        /\ published' = published \cup job[p].to /\ job[p].to \cap published = {}
        /\ \A d \in Places : tree'[d] = IF d \in job[p].to THEN job[p].staging ELSE tree[d]
    BY <1>7, <1>a, <1>t DEF Rename, Advance, TypeInv, TypeOK
  <2>2. /\ [job[p] EXCEPT !.pc = "parent"].to = job[p].to
        /\ [job[p] EXCEPT !.pc = "parent"].staging = job[p].staging
    BY <2>1 DEF Jobs
  <2>3. \A d \in published : tree'[d] = tree[d]
    BY <2>1, <1>t DEF TypeInv, TypeOK
  <2>4. RenamedThere'
    <3> SUFFICES ASSUME NEW q \in Commands, job'[q].pc = "parent", NEW d \in job'[q].to
                 PROVE  /\ d \in published'
                        /\ \A f \in Files : <<d, f>> \notin damaged' =>
                              tree'[d].files[f] = job'[q].staging.files[f]
      BY DEF RenamedThere
    <3>1. CASE q = p
      BY <2>1, <2>2, <3>1 DEF Jobs
    <3>2. CASE q # p
      BY <2>1, <2>3, <3>2 DEF StayInv, RenamedThere, historyVars
    <3>3. QED
      BY <3>1, <3>2
  <2>5. ReportedLinked' /\ ReportedTreesStay'
    BY <2>1, <2>3 DEF StayInv, ReportedLinked, ReportedTreesStay, historyVars
  <2>6. QED
    BY <2>4, <2>5
<1>8. ASSUME NEW p \in Commands, syncParent(p) PROVE Rest
  <2>1. /\ job[p].pc = "parent" /\ job[p] \in Jobs /\ UNCHANGED <<published, tree, damaged>>
        /\ \A q \in Commands : job'[q] = IF q = p THEN Idle ELSE job[q]
        /\ linked' = linked \cup (job[p].to \cap published)
        /\ reported' = reported \cup job[p].to
        /\ \A d \in Places : promised'[d] = IF d \in job[p].to THEN job[p].staging.files
                                             ELSE promised[d]
    BY <1>8, <1>a, <1>t DEF syncParent, TypeInv, TypeOK
  <2>2. RenamedThere'
    BY <2>1 DEF StayInv, RenamedThere, Idle
  <2>3. ReportedLinked'
    BY <2>1 DEF StayInv, RenamedThere, ReportedLinked
  <2>4. ReportedTreesStay'
    <3> SUFFICES ASSUME NEW d \in reported'
                 PROVE  /\ d \in published'
                        /\ \A f \in Files : <<d, f>> \notin damaged' =>
                              tree'[d].files[f] = promised'[d][f]
      BY DEF ReportedTreesStay
    <3>1. d \in Places
      BY <1>t DEF TypeInv, TypeOK
    <3>2. CASE d \in job[p].to
      BY <2>1, <3>1, <3>2 DEF StayInv, RenamedThere
    <3>3. CASE d \notin job[p].to
      BY <2>1, <3>1, <3>3 DEF StayInv, ReportedTreesStay
    <3>4. QED
      BY <3>2, <3>3
  <2>5. QED
    BY <2>2, <2>3, <2>4
<1>9. ASSUME NEW p \in Commands, Fail(p) PROVE Rest
  <2>1. \A q \in Commands : job'[q] = job[q] \/ job'[q].pc = "idle"
    BY <1>9, <1>t DEF Fail, TypeInv, TypeOK, Idle
  <2>2. QED
    BY <1>9, <1>b, <2>1 DEF Fail
<1>10. CASE Crash
  <2>1. /\ \A p \in Commands : job'[p].pc = "idle"
        /\ published \cap linked \subseteq published' /\ UNCHANGED <<linked, historyVars>>
    BY <1>10 DEF Crash, Idle
  <2>2. \A d \in published' : tree'[d] = tree[d]
    BY <1>10, <1>t DEF Crash, StayInv, SnapInv, PublishedSynced, TypeInv, TypeOK
  <2>3. RenamedThere'
    BY <2>1 DEF RenamedThere
  <2>4. ReportedLinked' /\ ReportedTreesStay'
    BY <2>1, <2>2 DEF StayInv, ReportedLinked, ReportedTreesStay, historyVars
  <2>5. QED
    BY <2>3, <2>4
<1>11. ASSUME NEW d \in Places, NEW f \in Files, NEW c \in {NoFile, Rotten}, Damage(d, f, c)
       PROVE  Rest
  <2>1. /\ tree' = [tree EXCEPT ![d] = [tree[d] EXCEPT !.files[f] = c]]
        /\ damaged' = damaged \cup {<<d, f>>}
        /\ UNCHANGED <<published, linked, job, reported, promised>>
    BY <1>11, <1>t DEF Damage, TypeInv, TypeOK
  <2>2. \A g \in Files \ {f} : [tree[d] EXCEPT !.files[f] = c].files[g] = tree[d].files[g]
    BY <1>t DEF TypeInv, TypeOK, Trees
  <2>3. \A e \in Places : \A g \in Files : <<e, g>> \notin damaged' =>
            tree'[e].files[g] = tree[e].files[g]
    BY <2>1, <2>2, <1>t DEF TypeInv, TypeOK
  <2>4. RenamedThere'
    BY <2>1, <2>3, <1>a DEF StayInv, RenamedThere, Jobs
  <2>5. ReportedLinked' /\ ReportedTreesStay'
    BY <2>1, <2>3, <1>t DEF StayInv, ReportedLinked, ReportedTreesStay, TypeInv, TypeOK
  <2>6. QED
    BY <2>4, <2>5
<1>12. CASE UNCHANGED vars
  BY <1>12, <1>b DEF vars
<1>13. QED
  BY <1>1, <1>1a, <1>2, <1>3, <1>4, <1>5, <1>6, <1>7, <1>8, <1>9, <1>10, <1>11, <1>12 DEF Next

\* A place that Create or Restore has reported as done is there for good, with
\* the files it was given, whichever commands are run later with the same
\* destination and whenever the machine crashes.
THEOREM ReportsHold == Spec => []ReportedTreesStay
<1>1. Init => StayInv
  BY SnapInit DEF Init, StayInv, RenamedThere, ReportedLinked, ReportedTreesStay, Idle
<1>2. StayInv => ReportedTreesStay
  BY DEF StayInv
<1>3. QED
  BY <1>1, <1>2, StayNext, PTL DEF Spec
=============================================================================

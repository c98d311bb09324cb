------------------------------- MODULE Backup -------------------------------
(***************************************************************************)
(* Offline backup and restore (internal/backup/backup.go, the maintenance  *)
(* commands of cmd/stiva).  Create copies the data directory under a read  *)
(* lock on stiva.db, which a running server holds exclusively; Restore     *)
(* copies a verified backup.  Both publish through a staging directory     *)
(* that is verified, synced and renamed into place.                        *)
(*                                                                         *)
(* Several commands run at once, beside a server that comes and goes.  A   *)
(* server that stops closes stiva.db before its process ends: a request    *)
(* that outlived the shutdown's deadline may change other files until it   *)
(* does.  The machine may crash between any two steps and forgets what no  *)
(* fsync has reached; the storage that holds a published tree may damage   *)
(* it.                                                                     *)
(*                                                                         *)
(* A file's content is the number of the write that made it, and its       *)
(* checksum is its content.  Directories, links and special files, which   *)
(* the code creates or refuses, are left out; so is the refusal of a       *)
(* destination inside the data directory: Places are outside it.  A        *)
(* damaged manifest, which makes Verify fail, is not told from a damaged   *)
(* file.                                                                   *)
(*                                                                         *)
(* Definitions marked FAULTY are variants no action uses: each is a bug    *)
(* this code could plausibly have, kept to show which property notices it. *)
(***************************************************************************)
EXTENDS Integers, FiniteSets

CONSTANTS
    Files,        \* the paths in a data directory
    Database,     \* stiva.db
    Places,       \* destinations of backup and restore
    Commands,     \* processes running a maintenance command
    MaxWrites,    \* bound on the writes of servers and of their late requests
    MaxLate,      \* bound on what the requests left by one server change
    MaxDamage     \* bound on the files damaged

ASSUME BackupAssumption ==
    /\ IsFiniteSet(Files) /\ Database \in Files
    /\ MaxWrites \in Nat \ {0} /\ MaxLate \in Nat /\ MaxDamage \in Nat

NoFile == 0
Rotten == -1
Content == {NoFile, Rotten} \cup (1..(MaxWrites + 1))

NoManifest == {}
Manifests == {NoManifest} \cup {{m} : m \in [Files -> Content]}

\* torn is a history: the files a late request changed after they were copied.
Trees == [files : [Files -> Content], manifest : Manifests, synced : BOOLEAN,
          torn : SUBSET Files]
EmptyTree ==
    [files |-> [f \in Files |-> NoFile], manifest |-> NoManifest, synced |-> FALSE,
     torn |-> {}]

VARIABLES
    data,         \* the data directory
    serving,      \* a server has stiva.db open
    late,         \* what requests that outlived a server have yet to change
    writes,       \* the writes so far
    quiet,        \* what the data directory was while nobody served it (history)
    published,    \* the places that exist
    tree,         \* tree[d]: the directory at d
    linked,       \* the places whose parent directory has been synced
    job,          \* job[p]: what each command is doing
    reported,     \* the places a command reported as done (history)
    promised,     \* promised[d]: the files reported there (history)
    damaged       \* what the storage has damaged (history)

serverVars == <<data, serving, late, writes, quiet>>
placeVars == <<published, tree, linked>>
historyVars == <<reported, promised, damaged>>
vars == <<serverVars, placeVars, job, historyVars>>

Idle == [pc |-> "idle", create |-> FALSE, from |-> {}, to |-> {}, todo |-> {},
         staging |-> EmptyTree]

Init ==
    /\ data = [f \in Files |-> IF f = Database THEN 1 ELSE NoFile]
    /\ serving = FALSE /\ late = 0 /\ writes = 1 /\ quiet = {data}
    /\ published = {} /\ tree = [d \in Places |-> EmptyTree] /\ linked = {}
    /\ job = [p \in Commands |-> Idle]
    /\ reported = {} /\ promised = [d \in Places |-> EmptyTree.files] /\ damaged = {}

----------------------------------------------------------------------------
(* The server, which holds stiva.db, and what it leaves running.           *)

(* FAULTY: stiva.db is opened to see that no server runs, and closed. *)
LockedToCheck(p) == job[p].pc = "check" /\ job[p].create

(* The lock of bbolt on stiva.db: shared by backups, exclusive to a server. *)
LockedBy(p) == job[p].pc # "idle" /\ job[p].create

StartServer ==
    /\ ~serving /\ \A p \in Commands : ~LockedBy(p)
    /\ serving' = TRUE
    /\ UNCHANGED <<data, late, writes, quiet, placeVars, job, historyVars>>

(* MetadataStore.Close, after the requests or at the deadline. *)
StopServer ==
    /\ serving /\ serving' = FALSE
    /\ late' \in late..MaxLate
    /\ quiet' = quiet \cup {data}
    /\ UNCHANGED <<data, writes, placeVars, job, historyVars>>

Write(f) ==
    /\ serving /\ writes <= MaxWrites
    /\ writes' = writes + 1
    /\ data' = [data EXCEPT ![f] = writes + 1]
    /\ UNCHANGED <<serving, late, quiet, placeVars, job, historyVars>>

Delete(f) ==
    /\ serving /\ f # Database /\ data[f] # NoFile
    /\ data' = [data EXCEPT ![f] = NoFile]
    /\ UNCHANGED <<serving, late, writes, quiet, placeVars, job, historyVars>>

(* A late request writes or removes a file.  It has no use of stiva.db any *)
(* more, and a command that runs takes no notice of it.                    *)
Straggle(f, c) ==
    /\ late > 0 /\ f # Database /\ writes <= MaxWrites
    /\ c # data[f]
    /\ late' = late - 1
    /\ writes' = writes + 1
    /\ data' = [data EXCEPT ![f] = c]
    /\ quiet' = IF serving THEN quiet ELSE quiet \cup {data'}
    /\ job' = [p \in Commands |->
                 IF job[p].pc = "copy" /\ job[p].create /\ f \notin job[p].todo
                 THEN [job[p] EXCEPT !.staging.torn = @ \cup {f}] ELSE job[p]]
    /\ UNCHANGED <<serving, placeVars, historyVars>>

----------------------------------------------------------------------------
(* Verify: the manifest lists exactly the files there are, with their      *)
(* checksums, and the central database is among them.                      *)

Verify(t) == t.manifest = {t.files} /\ t.files[Database] # NoFile

----------------------------------------------------------------------------
(* The two commands.  Either ends early, when something fails or refuses,  *)
(* through Fail below.                                                     *)

Begin(p, create, from, d) ==
    job' = [job EXCEPT ![p] = [Idle EXCEPT !.pc = "check", !.create = create,
                                           !.from = from, !.to = {d}]]

(* Create opens stiva.db first and keeps it open until it returns. *)
Create(p, d) ==
    /\ job[p].pc = "idle" /\ ~serving
    /\ Begin(p, TRUE, {}, d)
    /\ UNCHANGED <<serverVars, placeVars, historyVars>>

Restore(p, s, d) ==
    /\ job[p].pc = "idle"
    /\ s \in published /\ Verify(tree[s])
    /\ Begin(p, FALSE, {s}, d)
    /\ UNCHANGED <<serverVars, placeVars, historyVars>>

(* publish: the destination must not exist; a staging directory beside it. *)
Stage(p) ==
    /\ job[p].pc = "check" /\ job[p].to \cap published = {}
    /\ job' = [job EXCEPT ![p].pc = "copy", ![p].todo = Files]
    /\ UNCHANGED <<serverVars, placeVars, historyVars>>

(* One file of the walk, read as it is now. *)
Source(p) ==
    IF job[p].create THEN data ELSE tree[CHOOSE s \in Places : s \in job[p].from].files

CopyFile(p, f) ==
    /\ job[p].pc = "copy" /\ f \in job[p].todo
    /\ job' = [job EXCEPT ![p].todo = @ \ {f},
                          ![p].staging.files[f] = Source(p)[f]]
    /\ UNCHANGED <<serverVars, placeVars, historyVars>>

(* A backup is given a manifest of what was staged; a restore has copied   *)
(* the one of its source, and what was torn there.                         *)
Staged(p) ==
    IF job[p].create
    THEN [job[p].staging EXCEPT !.manifest = {job[p].staging.files}]
    ELSE [job[p].staging EXCEPT !.manifest = UNION {tree[s].manifest : s \in job[p].from},
                                !.torn = UNION {tree[s].torn : s \in job[p].from}]

syncTree(t) == [t EXCEPT !.synced = TRUE]

(* The staged copy is verified again and synced.  A restored directory     *)
(* loses its manifest.                                                     *)
VerifyStaging(p) ==
    /\ job[p].pc = "copy" /\ job[p].todo = {} /\ Verify(Staged(p))
    /\ job' = [job EXCEPT
                 ![p].pc = "rename",
                 ![p].staging =
                    syncTree(IF job[p].create THEN Staged(p)
                             ELSE [Staged(p) EXCEPT !.manifest = NoManifest])]
    /\ UNCHANGED <<serverVars, placeVars, historyVars>>

Advance(p, from, to) ==
    /\ job[p].pc = from
    /\ job' = [job EXCEPT ![p].pc = to]

(* FAULTY: what is at the destination by now is replaced. *)
RenameReplacing(p) ==
    /\ Advance(p, "rename", "parent")
    /\ published' = published \cup job[p].to
    /\ tree' = [d \in Places |-> IF d \in job[p].to THEN job[p].staging ELSE tree[d]]
    /\ linked' = linked \ job[p].to
    /\ UNCHANGED <<serverVars, historyVars>>

(* os.Rename refuses a destination that has come to exist. *)
Rename(p) ==
    /\ Advance(p, "rename", "parent")
    /\ job[p].to \cap published = {}
    /\ published' = published \cup job[p].to
    /\ tree' = [d \in Places |-> IF d \in job[p].to THEN job[p].staging ELSE tree[d]]
    /\ UNCHANGED <<linked, serverVars, historyVars>>

(* syncDir(parent), and the command reports success. *)
syncParent(p) ==
    /\ job[p].pc = "parent"
    /\ linked' = linked \cup (job[p].to \cap published)
    /\ reported' = reported \cup job[p].to
    /\ promised' = [d \in Places |->
                       IF d \in job[p].to THEN job[p].staging.files ELSE promised[d]]
    /\ job' = [job EXCEPT ![p] = Idle]
    /\ UNCHANGED <<serverVars, published, tree, damaged>>

(* An error or a kill at any point: the lock goes with the process, and    *)
(* what is left of the staging directory is nobody's backup.               *)
Fail(p) ==
    /\ job[p].pc # "idle"
    /\ job' = [job EXCEPT ![p] = Idle]
    /\ UNCHANGED <<serverVars, placeVars, historyVars>>

----------------------------------------------------------------------------
(* The machine and its storage.                                            *)

(* A crash ends every process.  A place whose entry was never synced may   *)
(* be gone, and any file of a tree that was never synced may be.           *)
Crash ==
    /\ job' = [p \in Commands |-> Idle]
    /\ serving' = FALSE /\ late' = 0 /\ quiet' = quiet \cup {data}
    /\ \E gone \in SUBSET (published \ linked), lost \in SUBSET Files :
          /\ published' = published \ gone
          /\ tree' = [d \in Places |->
                     IF d \in gone THEN EmptyTree
                     ELSE IF tree[d].synced THEN tree[d]
                     ELSE [tree[d] EXCEPT !.files =
                              [f \in Files |-> IF f \in lost THEN NoFile ELSE @[f]]]]
    /\ UNCHANGED <<data, writes, linked, historyVars>>

Damage(d, f, c) ==
    /\ d \in published /\ Cardinality(damaged) < MaxDamage
    /\ tree[d].files[f] # c
    /\ tree' = [tree EXCEPT ![d].files[f] = c]
    /\ damaged' = damaged \cup {<<d, f>>}
    /\ UNCHANGED <<serverVars, published, linked, job, reported, promised>>

----------------------------------------------------------------------------

Next ==
    \/ StartServer \/ StopServer
    \/ \E f \in Files : \/ Write(f) \/ Delete(f)
                       \/ \E c \in {NoFile, writes + 1} : Straggle(f, c)
    \/ \E p \in Commands :
          \/ \E d \in Places : Create(p, d)
          \/ \E s, d \in Places : s # d /\ Restore(p, s, d)
          \/ Stage(p) \/ \E f \in Files : CopyFile(p, f)
          \/ VerifyStaging(p) \/ Rename(p) \/ syncParent(p) \/ Fail(p)
    \/ Crash
    \/ \E d \in Places, f \in Files, c \in {NoFile, Rotten} : Damage(d, f, c)

Spec == Init /\ [][Next]_vars

TypeOK ==
    /\ data \in [Files -> Content] /\ serving \in BOOLEAN
    /\ late \in 0..MaxLate /\ writes \in 1..(MaxWrites + 1)
    /\ quiet \subseteq [Files -> Content]
    /\ published \subseteq Places /\ tree \in [Places -> Trees] /\ linked \subseteq Places
    /\ job \in [Commands -> [pc : {"idle", "check", "copy", "rename", "parent"},
                             create : BOOLEAN, from : SUBSET Places, to : SUBSET Places,
                             todo : SUBSET Files, staging : Trees]]
    /\ reported \subseteq Places /\ promised \in [Places -> [Files -> Content]]
    /\ damaged \subseteq Places \X Files

----------------------------------------------------------------------------
(* What a backup is for.                                                   *)

(* Every published tree is the data directory as it was at one moment when *)
(* no server had stiva.db, file for file, except for what the storage has  *)
(* damaged in that tree itself and for what a late request changed after   *)
(* it had been copied: "Holding the central bbolt read lock excludes a     *)
(* running server for the entire copy" (backup.go:1), "Verify before       *)
(* copying and again on the staged copy to detect source changes during    *)
(* restoration" (backup.go:118).  A server that starts, a source that      *)
(* changes and a crash at any step make no exception.                      *)
PublishedTreesAreSnapshots ==
    \A d \in published :
        \E q \in quiet :
            \A f \in Files \ tree[d].torn :
                <<d, f>> \notin damaged => tree[d].files[f] = q[f]

(* What a command reported as done stays: the place is there and has the   *)
(* files it was given, whatever commands are run later with the same       *)
(* destination ("Restore never overwrites an existing destination",        *)
(* backup.go:118) and whatever crashes; only damage changes it.            *)
ReportedTreesStay ==
    \A d \in reported :
        /\ d \in published
        /\ \A f \in Files : <<d, f>> \notin damaged => tree[d].files[f] = promised[d][f]

=============================================================================

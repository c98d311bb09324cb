------------------------- MODULE ReplicationOutbox -------------------------
(***************************************************************************)
(* Durable replication of one bucket (internal/storage: outbox.go,         *)
(* sync.go): every transaction that changes an object marks its key with a *)
(* new revision, and a reconciler delivers the present state of marked     *)
(* keys to the mirror, page by page, with a few workers, removing a mark   *)
(* only if it still has the revision the delivery started from.            *)
(*                                                                         *)
(* The state of a key is the number of times it was changed and what is    *)
(* current: an object, one encrypted with a customer key (SSE-C), or none, *)
(* with or without a delete marker.  A worker reads the record and opens   *)
(* the file under the key lock: one step.  The mirror is external: it      *)
(* applies a request before the answer to it, or before the error, or not  *)
(* at all.                                                                 *)
(*                                                                         *)
(* Definitions marked FAULTY are variants no action uses: each is a bug    *)
(* this code could plausibly have, kept to show which property notices it. *)
(***************************************************************************)
EXTENDS Integers, FiniteSets

CONSTANTS
    NumKeys,    \* object keys, in the order of the database
    Workers,    \* delivery workers of a page
    PageSize,   \* marks read at once
    MaxWrites,  \* bound on changes of each key
    MaxCrashes  \* bound on crashes

ASSUME OutboxAssumption ==
    /\ NumKeys \in Nat \ {0} /\ PageSize \in Nat \ {0}
    /\ MaxWrites \in Nat /\ MaxCrashes \in Nat

Keys == 1..NumKeys
NoMark == 0

Kinds == {"object", "ssec", "gone"}

VARIABLES
    local,      \* local[k]: how often k has changed, and what it is
    mark,       \* mark[k]: revision of the pending mark
    seq,        \* last revision handed out
    replica,    \* replica[k]: the state last applied by the mirror
    seeded,     \* the backfill of this run is done
    phase,      \* of the reconciler
    after,      \* the last key of the page before
    jobs,       \* jobs: pendingReplica items not taken yet
    worker,     \* worker[w]: the delivery it is at
    crashes     \* crashes so far

journal == <<local, mark, seq>>
scan == <<phase, after, jobs>>
vars == <<journal, replica, seeded, scan, worker, crashes>>

Free == [at |-> "free", key |-> 0, rev |-> NoMark, image |-> [n |-> 0, kind |-> "gone"]]

\* Objects may be older than the mirror, which starts without them.
Init ==
    /\ local \in [Keys -> {[n |-> 0, kind |-> "gone"], [n |-> 0, kind |-> "object"]}]
    /\ mark = [k \in Keys |-> NoMark]
    /\ seq = 0
    /\ replica = [k \in Keys |-> [n |-> 0, kind |-> "gone"]]
    /\ seeded = FALSE
    /\ phase = "waiting" /\ after = 0 /\ jobs = {}
    /\ worker = [w \in Workers |-> Free]
    /\ crashes = 0

\* What prepareSyncRequest sends for a record: PUT, or DELETE for a marker or
\* a key without a record.
Image(rec) == [n |-> rec.n, kind |-> IF rec.kind = "object" THEN "object" ELSE "gone"]

-----------------------------------------------------------------------------
(***************************************************************************)
(* Marking                                                                 *)
(***************************************************************************)

\* markReplication: each key of S gets a revision of its own.
markReplication(S) ==
    /\ mark' = [k \in Keys |-> IF k \in S THEN seq + Cardinality({j \in S : j <= k})
                               ELSE mark[k]]
    /\ seq' = seq + Cardinality(S)

\* A PUT, a DELETE or an expiry commits: PutObjectMeta and DeleteObjectMeta
\* mark the key in the same transaction.
Write(k, kind) ==
    /\ local[k].n < MaxWrites
    /\ local' = [local EXCEPT ![k] = [n |-> @.n + 1, kind |-> kind]]
    /\ markReplication({k})
    /\ UNCHANGED <<replica, seeded, scan, worker, crashes>>

\* seedReplication: every start marks everything that has a current record,
\* delete markers included.
seedReplication ==
    /\ phase = "waiting" /\ ~seeded
    /\ \E markers \in SUBSET {k \in Keys : local[k].kind = "gone"} :
         markReplication({k \in Keys : local[k].kind # "gone"} \cup markers)
    /\ seeded' = TRUE
    /\ UNCHANGED <<local, replica, scan, worker, crashes>>

-----------------------------------------------------------------------------
(***************************************************************************)
(* reconcilePending.  A backfill that failed does not hold it up.          *)
(***************************************************************************)

\* FAULTY: a scan goes on where the last one ended.
StartScanResumes ==
    /\ phase = "waiting"
    /\ phase' = "paging"
    /\ UNCHANGED <<journal, replica, seeded, after, jobs, worker, crashes>>

StartScan ==
    /\ phase = "waiting"
    /\ phase' = "paging" /\ after' = 0
    /\ UNCHANGED <<journal, replica, seeded, jobs, worker, crashes>>

\* The next marks in key order, at most PageSize.
Page ==
    LET rest == {k \in Keys : k > after /\ mark[k] # NoMark}
    IN  {k \in rest : Cardinality({j \in rest : j < k}) < PageSize}

ReadPage ==
    /\ phase = "paging"
    /\ \/ Page = {} /\ phase' = "waiting" /\ UNCHANGED after
       \/ phase' = "delivering" /\ after' \in {k \in Page : \A j \in Page : j <= k}
    /\ jobs' = {[key |-> k, rev |-> mark[k]] : k \in Page}
    /\ UNCHANGED <<journal, replica, seeded, worker, crashes>>

\* FAULTY: the next page does not wait for the workers.
PageDoneEarly ==
    /\ phase = "delivering" /\ jobs = {}
    /\ phase' = "paging"
    /\ UNCHANGED <<journal, replica, seeded, after, jobs, worker, crashes>>

\* workers.Wait
PageDone ==
    /\ phase = "delivering" /\ jobs = {}
    /\ \A w \in Workers : worker[w] = Free
    /\ phase' = "paging"
    /\ UNCHANGED <<journal, replica, seeded, after, jobs, worker, crashes>>

(***************************************************************************)
(* deliverPending                                                          *)
(***************************************************************************)
Take(w) ==
    /\ worker[w] = Free
    /\ \E item \in jobs :
         /\ worker' = [worker EXCEPT ![w] =
                         [at |-> "taken", key |-> item.key, rev |-> item.rev, image |-> Free.image]]
         /\ jobs' = jobs \ {item}
    /\ UNCHANGED <<journal, replica, seeded, phase, after, crashes>>

\* Under the key lock the record is read and the file opened.  An SSE-C
\* object cannot be read: the mark is kept for a retry.
Prepare(w) ==
    LET k == worker[w].key
    IN  /\ worker[w].at = "taken"
        /\ \/ /\ local[k].kind # "ssec"
              /\ worker' = [worker EXCEPT ![w].at = "sent", ![w].image = Image(local[k])]
           \/ /\ local[k].kind = "ssec"
              /\ worker' = [worker EXCEPT ![w] = Free]
        /\ UNCHANGED <<journal, replica, seeded, scan, crashes>>

Applied(w) == [replica EXCEPT ![worker[w].key] = worker[w].image]

\* sendSyncRequest succeeds: the mirror has applied the request.
SendOk(w) ==
    /\ worker[w].at = "sent"
    /\ replica' = Applied(w)
    /\ worker' = [worker EXCEPT ![w].at = "sentOk"]
    /\ UNCHANGED <<journal, seeded, scan, crashes>>

\* It fails or times out: whether the mirror has applied it is unknown.  This
\* stands for a file that cannot be opened and a failed acknowledgement too.
SendFails(w) ==
    /\ worker[w].at = "sent"
    /\ replica' \in {replica, Applied(w)}
    /\ worker' = [worker EXCEPT ![w] = Free]
    /\ UNCHANGED <<journal, seeded, scan, crashes>>

\* FAULTY: the revision is not compared.
AcknowledgeAny(w) ==
    /\ worker[w].at = "sentOk"
    /\ mark' = [mark EXCEPT ![worker[w].key] = NoMark]
    /\ worker' = [worker EXCEPT ![w] = Free]
    /\ UNCHANGED <<local, seq, replica, seeded, scan, crashes>>

\* The mark goes unless the key has been marked again.
Acknowledge(w) ==
    LET k == worker[w].key
    IN  /\ worker[w].at = "sentOk"
        /\ mark' = [mark EXCEPT ![k] = IF @ = worker[w].rev THEN NoMark ELSE @]
        /\ worker' = [worker EXCEPT ![w] = Free]
        /\ UNCHANGED <<local, seq, replica, seeded, scan, crashes>>

\* The process stops and starts again; what was being sent may have arrived.
Crash ==
    /\ crashes < MaxCrashes
    /\ crashes' = crashes + 1
    /\ \E arrived \in SUBSET {w \in Workers : worker[w].at = "sent"} :
         replica' = [k \in Keys |->
            IF \E w \in arrived : worker[w].key = k
            THEN worker[CHOOSE w \in arrived : worker[w].key = k].image
            ELSE replica[k]]
    /\ seeded' = FALSE
    /\ phase' = "waiting" /\ after' = 0 /\ jobs' = {}
    /\ worker' = [w \in Workers |-> Free]
    /\ UNCHANGED journal

Reconcile == StartScan \/ ReadPage \/ PageDone

Deliver(w) == Take(w) \/ Prepare(w) \/ SendOk(w) \/ SendFails(w) \/ Acknowledge(w)

Next ==
    \/ \E k \in Keys, kind \in Kinds : Write(k, kind)
    \/ seedReplication
    \/ Reconcile
    \/ \E w \in Workers : Deliver(w)
    \/ Crash

Spec == Init /\ [][Next]_vars

\* The reconciler and its workers keep running, reading the database succeeds
\* now and then, and so does a request for a key that is sent again and again.
Fairness ==
    /\ WF_vars(Reconcile)
    /\ SF_vars(seedReplication)
    /\ \A w \in Workers : WF_vars(Deliver(w))
    /\ \A k \in Keys : SF_vars(\E w \in Workers : worker[w].key = k /\ SendOk(w))

FairSpec == Spec /\ Fairness

-----------------------------------------------------------------------------
(***************************************************************************)
(* Properties                                                              *)
(***************************************************************************)
States == [n : Nat, kind : Kinds]

\* Every variable keeps its type, and no mark has a revision never handed out.
TypeOK ==
    /\ local \in [Keys -> States]
    /\ seq \in Nat /\ mark \in [Keys -> 0..seq]
    /\ replica \in [Keys -> States]
    /\ seeded \in BOOLEAN
    /\ phase \in {"waiting", "paging", "delivering"}
    /\ after \in 0..NumKeys
    /\ jobs \subseteq [key : Keys, rev : 1..seq]
    /\ worker \in [Workers -> [at : {"free", "taken", "sent", "sentOk"},
                               key : 0..NumKeys, rev : 0..seq, image : States]]
    /\ crashes \in 0..MaxCrashes

\* "Revisions prevent an old delivery clearing new work": a key without a mark
\* is on the mirror as it is here, however writes, deliveries, failures and
\* crashes were interleaved, once the backfill has run.
CleanMeansMirrored ==
    seeded => \A k \in Keys : mark[k] = NoMark => replica[k] = Image(local[k])

\* "preserving per-key ordering": no delivery takes the mirror back to an
\* earlier state of a key.
MirrorNeverGoesBack ==
    [][\A k \in Keys : replica'[k].n >= replica[k].n]_vars

\* Every change reaches the mirror in the end, even beside objects that can
\* never be sent.
EventuallyMirrored ==
    \A k \in Keys :
        <>[](local[k].kind = "ssec" \/ (mark[k] = NoMark /\ replica[k] = Image(local[k])))
=============================================================================

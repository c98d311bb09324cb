---------------------- MODULE ReplicationOutboxProofs ----------------------
(***************************************************************************)
(* Proofs about ReplicationOutbox, for any number of keys and workers, any *)
(* page size and any number of writes and crashes: an unmarked key is on   *)
(* the mirror as it is here, and the mirror never goes back.               *)
(***************************************************************************)
EXTENDS ReplicationOutbox, FiniteSetTheorems, TLAPS

Busy(w) == worker[w].at # "free"

\* Pages do not overlap: outside a page nothing is queued or being delivered.
PagesApart == phase # "delivering" => jobs = {} /\ \A w \in Workers : ~Busy(w)

\* A key has one delivery at a time, queued or with a worker.
OneDelivery ==
    /\ \A i, j \in jobs : i.key = j.key => i = j
    /\ \A w \in Workers : Busy(w) => worker[w].key \in Keys /\ \A i \in jobs : i.key # worker[w].key
    /\ \A v, w \in Workers : Busy(v) /\ Busy(w) /\ worker[v].key = worker[w].key => v = w

\* Its mark stays until it is acknowledged.
StillMarked ==
    /\ \A i \in jobs : mark[i.key] # NoMark
    /\ \A w \in Workers : Busy(w) => mark[worker[w].key] # NoMark

\* What was sent under a revision is the state of the key as long as the mark
\* has that revision, and a request that succeeded has been applied.
SentCurrent ==
    \A w \in Workers :
        /\ worker[w].at \in {"sent", "sentOk"} /\ mark[worker[w].key] = worker[w].rev =>
             worker[w].image = Image(local[worker[w].key])
        /\ worker[w].at = "sentOk" => replica[worker[w].key] = worker[w].image

\* The mirror is not ahead of the bucket, nor of what is being sent to it.
MirrorBehind ==
    /\ \A k \in Keys : replica[k].n <= local[k].n
    /\ \A w \in Workers : worker[w].at = "sent" => /\ replica[worker[w].key].n <= worker[w].image.n
                                                   /\ worker[w].image.n <= local[worker[w].key].n

\* Before the backfill, objects without a mark may be missing from the mirror.
Clean ==
    \A k \in Keys : mark[k] = NoMark =>
        \/ replica[k] = Image(local[k])
        \/ ~seeded /\ local[k].kind # "gone"

OutboxInv ==
    /\ TypeOK /\ PagesApart /\ OneDelivery /\ StillMarked /\ SentCurrent /\ MirrorBehind /\ Clean

LEMMA ImageType == ASSUME NEW rec \in States PROVE Image(rec) \in States /\ Image(rec).n = rec.n
  BY DEF Image, States, Kinds

LEMMA FreeType ==
    ASSUME seq \in Nat
    PROVE  Free \in [at : {"free", "taken", "sent", "sentOk"}, key : 0..NumKeys,
                     rev : 0..seq, image : States]
  BY OutboxAssumption DEF Free, States, Kinds, NoMark

LEMMA OutboxInit == Init => OutboxInv
<1> SUFFICES ASSUME Init PROVE OutboxInv
  OBVIOUS
<1> USE OutboxAssumption DEF Init
<1>1. \A w \in Workers : worker[w] = Free /\ ~Busy(w)
  BY DEF Busy, Free
<1>2. TypeOK
  <2>1. [n |-> 0, kind |-> "gone"] \in States /\ [n |-> 0, kind |-> "object"] \in States
    BY DEF States, Kinds
  <2>2. local \in [Keys -> States] /\ replica \in [Keys -> States]
    BY <2>1
  <2>3. mark \in [Keys -> 0..seq]
    BY DEF NoMark
  <2>4. worker \in [Workers -> [at : {"free", "taken", "sent", "sentOk"}, key : 0..NumKeys,
                               rev : 0..seq, image : States]]
    BY FreeType
  <2>5. seq \in Nat /\ after \in 0..NumKeys /\ crashes \in 0..MaxCrashes
    BY DEF Init
  <2>6. jobs \subseteq [key : Keys, rev : 1..seq] /\ seeded \in BOOLEAN
    BY DEF Init
  <2>7. phase \in {"waiting", "paging", "delivering"}
    BY DEF Init
  <2> HIDE DEF Init
  <2>8. QED
    BY <2>2, <2>3, <2>4, <2>5, <2>6, <2>7 DEF TypeOK
<1>3. PagesApart /\ OneDelivery /\ StillMarked
  BY <1>1 DEF PagesApart, OneDelivery, StillMarked
<1>4. SentCurrent
  BY <1>1 DEF SentCurrent, Busy
<1>5. MirrorBehind
  BY <1>1 DEF MirrorBehind, Busy
<1>6. Clean
  BY DEF Clean, Image
<1>7. QED
  BY <1>2, <1>3, <1>4, <1>5, <1>6 DEF OutboxInv

\* Marking gives each key of S a revision above all earlier ones.
LEMMA Marks ==
    ASSUME seq \in Nat, mark \in [Keys -> 0..seq], NEW S \in SUBSET Keys, markReplication(S)
    PROVE  /\ seq' \in Nat /\ seq <= seq'
           /\ mark' \in [Keys -> 0..seq']
           /\ \A k \in S : mark'[k] > seq
           /\ \A k \in Keys \ S : mark'[k] = mark[k]
<1>1. IsFiniteSet(Keys)
  BY FS_Interval, OutboxAssumption DEF Keys
<1>2. IsFiniteSet(S) /\ Cardinality(S) \in Nat
  BY <1>1, FS_Subset, FS_CardinalityType
<1>3. ASSUME NEW k \in S
      PROVE  /\ Cardinality({j \in S : j <= k}) \in 1..Cardinality(S)
  <2> DEFINE below == {j \in S : j <= k}
  <2>1. below \subseteq S /\ k \in below
    BY DEF Keys
  <2>2. IsFiniteSet(below) /\ Cardinality(below) \in Nat /\ Cardinality(below) <= Cardinality(S)
    BY <1>2, <2>1, FS_Subset, FS_CardinalityType
  <2>3. Cardinality(below) # 0
    BY <2>1, <2>2, FS_EmptySet
  <2>4. QED
    BY <1>2, <2>2, <2>3
<1>4. seq' = seq + Cardinality(S)
  BY DEF markReplication
<1>5. ASSUME NEW k \in Keys
      PROVE  /\ k \in S => mark'[k] = seq + Cardinality({j \in S : j <= k})
             /\ k \notin S => mark'[k] = mark[k]
  BY DEF markReplication
<1>6. \A k \in Keys : mark'[k] \in 0..seq'
  <2> TAKE k \in Keys
  <2>1. CASE k \in S
    <3>1. PICK c \in 1..Cardinality(S) : c = Cardinality({j \in S : j <= k})
      BY <1>3, <2>1
    <3>2. mark'[k] = seq + c
      BY <1>5, <2>1, <3>1
    <3>3. QED
      BY <1>2, <1>4, <3>2
  <2>2. CASE k \notin S
    <3>1. mark[k] \in 0..seq /\ mark'[k] = mark[k]
      BY <1>5, <2>2
    <3>2. QED
      BY <1>2, <1>4, <3>1
  <2>3. QED
    BY <2>1, <2>2
<1>7. \A k \in S : mark'[k] > seq
  <2> TAKE k \in S
  <2>1. PICK c \in 1..Cardinality(S) : c = Cardinality({j \in S : j <= k})
    BY <1>3
  <2>2. mark'[k] = seq + c
    BY <1>5, <2>1
  <2>3. QED
    BY <1>2, <2>1, <2>2
<1>8. mark' = [k \in Keys |-> mark'[k]]
  BY DEF markReplication
<1>9. mark' \in [Keys -> 0..seq']
  BY <1>6, <1>8
<1>10. seq' \in Nat /\ seq <= seq'
  BY <1>2, <1>4
<1>11. QED
  BY <1>5, <1>7, <1>9, <1>10

WorkerType == [at : {"free", "taken", "sent", "sentOk"}, key : 0..NumKeys,
               rev : 0..seq, image : States]

\* What a step of one worker leaves alone.
LEMMA OtherWorkers ==
    ASSUME TypeOK, NEW w \in Workers, NEW x, worker' = [worker EXCEPT ![w] = x]
    PROVE  worker'[w] = x /\ \A v \in Workers \ {w} : worker'[v] = worker[v]
  BY DEF TypeOK

-----------------------------------------------------------------------------
(***************************************************************************)
(* Every action preserves the invariant                                    *)
(***************************************************************************)
LEMMA WriteInv ==
    ASSUME OutboxInv, NEW k \in Keys, NEW kind \in Kinds, Write(k, kind)
    PROVE  OutboxInv'
<1> USE DEF OutboxInv
<1>1. /\ seq' \in Nat /\ seq <= seq' /\ mark' \in [Keys -> 0..seq'] /\ mark'[k] > seq
      /\ \A j \in Keys \ {k} : mark'[j] = mark[j]
  BY Marks DEF Write, TypeOK
<1>2. UNCHANGED <<replica, seeded, phase, after, jobs, worker, crashes>>
  BY DEF Write, scan
<1>3. /\ local' \in [Keys -> States]
      /\ local'[k].n = local[k].n + 1
      /\ \A j \in Keys \ {k} : local'[j] = local[j]
  BY DEF Write, TypeOK, States
<1>4. seq \in Nat /\ \A w \in Workers : worker[w].rev \in 0..seq
  BY DEF TypeOK
<1>5. TypeOK'
  <2>1. jobs' \subseteq [key : Keys, rev : 1..seq']
    BY <1>1, <1>2, <1>4 DEF TypeOK
  <2>2. ASSUME NEW w \in Workers PROVE worker[w] \in WorkerType'
    BY <1>1, <1>4 DEF TypeOK, WorkerType
  <2>3. worker' \in [Workers -> WorkerType']
    BY <1>2, <2>2 DEF TypeOK
  <2>4. QED
    BY <1>1, <1>2, <1>3, <2>1, <2>3 DEF TypeOK, WorkerType
<1>6. PagesApart' /\ OneDelivery'
  BY <1>2 DEF PagesApart, OneDelivery, Busy
<1>7. \A j \in Keys : mark[j] # NoMark => mark'[j] # NoMark
  BY <1>1, <1>4 DEF NoMark, TypeOK
<1>8. StillMarked'
  <2>1. \A i \in jobs : i.key \in Keys
    BY DEF TypeOK
  <2>2. QED
    BY <1>2, <1>7, <2>1 DEF StillMarked, Busy, OneDelivery
<1>9. SentCurrent'
  <2> SUFFICES ASSUME NEW w \in Workers, worker[w].at \in {"sent", "sentOk"}
               PROVE  /\ mark'[worker[w].key] = worker[w].rev =>
                           worker[w].image = Image(local'[worker[w].key])
                      /\ worker[w].at = "sentOk" => replica[worker[w].key] = worker[w].image
    BY <1>2 DEF SentCurrent, Image
  <2>1. worker[w].key \in Keys
    BY DEF OneDelivery, Busy
  <2>2. CASE worker[w].key = k
    BY <1>1, <1>4, <2>2 DEF SentCurrent
  <2>3. CASE worker[w].key # k
    BY <1>1, <1>3, <2>1, <2>3 DEF SentCurrent
  <2>4. QED
    BY <2>2, <2>3
<1>10. MirrorBehind'
  <2>1. \A j \in Keys : local[j].n \in Nat /\ replica[j].n \in Nat /\ local[j].n <= local'[j].n
    BY <1>3 DEF TypeOK, States
  <2>2. \A w \in Workers : worker[w].image.n \in Nat
    BY DEF TypeOK, States
  <2>3. \A w \in Workers : worker[w].at = "sent" => worker[w].key \in Keys
    BY DEF OneDelivery, Busy
  <2>4. \A j \in Keys : replica[j].n <= local'[j].n
    <3> TAKE j \in Keys
    <3>1. replica[j].n <= local[j].n
      BY DEF MirrorBehind
    <3>2. QED
      BY <2>1, <3>1, <1>3 DEF TypeOK, States
  <2>5. \A w \in Workers : worker[w].at = "sent" => worker[w].image.n <= local'[worker[w].key].n
    <3> SUFFICES ASSUME NEW w \in Workers, worker[w].at = "sent"
                 PROVE  worker[w].image.n <= local'[worker[w].key].n
      OBVIOUS
    <3>1. worker[w].image.n <= local[worker[w].key].n /\ worker[w].key \in Keys
      BY <2>3 DEF MirrorBehind
    <3>2. local'[worker[w].key].n \in Nat
      BY <1>3, <3>1 DEF States
    <3>3. QED
      BY <2>1, <2>2, <3>1, <3>2
  <2>6. QED
    BY <1>2, <2>4, <2>5 DEF MirrorBehind
<1>11. Clean'
  <2>1. mark'[k] # NoMark
    BY <1>1, <1>4 DEF NoMark
  <2>2. QED
    BY <1>1, <1>2, <1>3, <2>1 DEF Clean, Image
<1>12. QED
  BY <1>5, <1>6, <1>8, <1>9, <1>10, <1>11

LEMMA SeedInv == OutboxInv /\ seedReplication => OutboxInv'
<1> SUFFICES ASSUME OutboxInv, seedReplication PROVE OutboxInv'
  OBVIOUS
<1> USE DEF OutboxInv
<1>1. PICK markers \in SUBSET {k \in Keys : local[k].kind = "gone"} :
        markReplication({k \in Keys : local[k].kind # "gone"} \cup markers)
  BY DEF seedReplication
<1> DEFINE S == {k \in Keys : local[k].kind # "gone"} \cup markers
<1>2. S \in SUBSET Keys
  OBVIOUS
<1>3. markReplication(S)
  BY <1>1
<1> HIDE DEF S
<1>4. /\ seq' \in Nat /\ seq <= seq' /\ mark' \in [Keys -> 0..seq']
      /\ \A k \in S : mark'[k] > seq
      /\ \A k \in Keys \ S : mark'[k] = mark[k]
  BY <1>2, <1>3, Marks DEF TypeOK
<1>5. UNCHANGED <<local, replica, phase, after, jobs, worker, crashes>> /\ seeded'
  BY DEF seedReplication, scan
<1>6. jobs = {} /\ \A w \in Workers : ~Busy(w)
  BY DEF PagesApart, seedReplication
<1>7. TypeOK'
  <2>1. ASSUME NEW w \in Workers PROVE worker[w] \in WorkerType'
    BY <1>4 DEF TypeOK, WorkerType
  <2>2. worker' \in [Workers -> WorkerType']
    BY <1>5, <2>1 DEF TypeOK
  <2>3. QED
    BY <1>4, <1>5, <1>6, <2>2 DEF TypeOK, WorkerType
<1>8. PagesApart' /\ OneDelivery' /\ StillMarked'
  BY <1>5, <1>6 DEF PagesApart, OneDelivery, StillMarked, Busy
<1>9. SentCurrent' /\ MirrorBehind'
  BY <1>5, <1>6 DEF SentCurrent, MirrorBehind, Busy
<1>10. Clean'
  <2> SUFFICES ASSUME NEW k \in Keys, mark'[k] = NoMark
               PROVE  replica[k] = Image(local[k])
    BY <1>5 DEF Clean, Image
  <2>1. k \notin S
    BY <1>4 DEF NoMark, TypeOK
  <2>2. mark[k] = NoMark /\ local[k].kind = "gone"
    BY <1>4, <2>1 DEF S
  <2>3. QED
    BY <2>2 DEF Clean
<1>11. QED
  BY <1>7, <1>8, <1>9, <1>10

LEMMA ReconcileInv == OutboxInv /\ Reconcile => OutboxInv'
<1> SUFFICES ASSUME OutboxInv, Reconcile PROVE OutboxInv'
  OBVIOUS
<1> USE DEF OutboxInv
<1>1. UNCHANGED <<local, mark, seq, replica, seeded, worker, crashes>>
  BY DEF Reconcile, StartScan, ReadPage, PageDone, journal
<1>2. CASE StartScan \/ PageDone
  <2>1. /\ jobs' = jobs /\ jobs = {} /\ phase' = "paging" /\ after' \in 0..NumKeys
        /\ \A w \in Workers : ~Busy(w)
    BY <1>2, OutboxAssumption DEF StartScan, PageDone, PagesApart, Busy, Free, TypeOK
  <2>2. TypeOK'
    BY <1>1, <2>1 DEF TypeOK
  <2>3. PagesApart' /\ OneDelivery' /\ StillMarked'
    BY <1>1, <2>1 DEF PagesApart, OneDelivery, StillMarked, Busy
  <2>4. SentCurrent' /\ MirrorBehind' /\ Clean'
    BY <1>1 DEF SentCurrent, MirrorBehind, Clean, Image
  <2>5. QED
    BY <2>2, <2>3, <2>4
<1>3. CASE ReadPage
  <2>1. \A w \in Workers : ~Busy(w)
    BY <1>3 DEF ReadPage, PagesApart
  <2>2. Page \subseteq Keys /\ \A k \in Page : mark[k] # NoMark
    BY DEF Page
  <2>3. jobs' = {[key |-> k, rev |-> mark[k]] : k \in Page}
    BY <1>3 DEF ReadPage
  <2>4. jobs' \subseteq [key : Keys, rev : 1..seq]
    BY <2>2, <2>3 DEF TypeOK, NoMark
  <2>5. \A i \in jobs' : i.key \in Page
    BY <2>3
  <2>6. after' \in 0..NumKeys
    <3>1. after' = after \/ after' \in Page
      BY <1>3 DEF ReadPage
    <3>2. after \in 0..NumKeys
      BY DEF TypeOK
    <3>3. CASE after' = after
      BY <3>2, <3>3
    <3>4. CASE after' \in Page
      <4>1. after' \in 1..NumKeys
        BY <2>2, <3>4 DEF Keys
      <4>2. QED
        BY <4>1, OutboxAssumption
    <3>5. QED
      BY <3>1, <3>3, <3>4
  <2>7. phase' \in {"waiting", "paging", "delivering"} /\ (phase' # "delivering" => jobs' = {})
    BY <1>3, <2>3 DEF ReadPage
  <2>8. TypeOK'
    BY <1>1, <2>4, <2>6, <2>7 DEF TypeOK
  <2>9. PagesApart'
    BY <1>1, <2>1, <2>7 DEF PagesApart, Busy
  <2>10. OneDelivery'
    BY <1>1, <2>1, <2>3 DEF OneDelivery, Busy
  <2>11. StillMarked'
    BY <1>1, <2>1, <2>2, <2>5 DEF StillMarked, Busy
  <2>12. SentCurrent' /\ MirrorBehind' /\ Clean'
    BY <1>1 DEF SentCurrent, MirrorBehind, Clean, Image
  <2>13. QED
    BY <2>8, <2>9, <2>10, <2>11, <2>12
<1>4. QED
  BY <1>2, <1>3 DEF Reconcile

LEMMA TakeInv == ASSUME OutboxInv, NEW w \in Workers, Take(w) PROVE OutboxInv'
<1> USE DEF OutboxInv
<1>1. PICK item \in jobs :
        /\ worker' = [worker EXCEPT ![w] =
                        [at |-> "taken", key |-> item.key, rev |-> item.rev, image |-> Free.image]]
        /\ jobs' = jobs \ {item}
  BY DEF Take
<1> DEFINE taken == [at |-> "taken", key |-> item.key, rev |-> item.rev, image |-> Free.image]
<1>2. UNCHANGED <<local, mark, seq, replica, seeded, phase, after, crashes>>
  BY DEF Take, journal
<1>3. item.key \in Keys /\ item.rev \in 1..seq /\ seq \in Nat
  BY DEF TypeOK
<1>4. taken.at = "taken" /\ taken.key = item.key /\ taken \in WorkerType
  <2>2. Free.image \in States
    BY DEF Free, States, Kinds
  <2>3. item.key \in 0..NumKeys /\ item.rev \in 0..seq
    BY <1>3, OutboxAssumption DEF Keys
  <2>4. QED
    BY <2>2, <2>3 DEF WorkerType
<1>5. worker'[w] = taken /\ \A v \in Workers \ {w} : worker'[v] = worker[v]
  BY <1>1, OtherWorkers
<1>6. worker' \in [Workers -> WorkerType]
  BY <1>1, <1>4 DEF TypeOK, WorkerType
<1> HIDE DEF taken
<1>7. TypeOK'
  BY <1>1, <1>2, <1>6 DEF TypeOK, WorkerType
<1>8. phase = "delivering"
  BY DEF PagesApart
<1>9. PagesApart'
  BY <1>2, <1>8 DEF PagesApart
<1>10. OneDelivery'
  <2>1. \A i \in jobs' : i \in jobs /\ i.key # item.key
    BY <1>1 DEF OneDelivery
  <2>2. \A v \in Workers \ {w} : Busy(v) => worker[v].key # item.key
    BY DEF OneDelivery
  <2>3. QED
    BY <1>3, <1>4, <1>5, <2>1, <2>2 DEF OneDelivery, Busy
<1>11. StillMarked'
  BY <1>1, <1>2, <1>4, <1>5 DEF StillMarked, Busy
<1>12. SentCurrent' /\ MirrorBehind' /\ Clean'
  BY <1>2, <1>4, <1>5 DEF SentCurrent, MirrorBehind, Clean, Image
<1>13. QED
  BY <1>7, <1>9, <1>10, <1>11, <1>12

\* A worker that ends a delivery, whatever the mirror did with the request.
LEMMA FreeInv ==
    ASSUME OutboxInv, NEW w \in Workers, Busy(w),
           worker' = [worker EXCEPT ![w] = Free],
           UNCHANGED <<local, mark, seq, seeded, phase, after, jobs, crashes>>,
           \/ replica' = replica
           \/ worker[w].at = "sent" /\ replica' = Applied(w)
    PROVE  OutboxInv'
<1> USE DEF OutboxInv
<1>1. worker'[w] = Free /\ \A v \in Workers \ {w} : worker'[v] = worker[v]
  BY OtherWorkers
<1>2. Free.at = "free"
  BY DEF Free
<1>3. worker' \in [Workers -> WorkerType]
  BY FreeType DEF TypeOK, WorkerType
<1>4. phase = "delivering"
  BY DEF PagesApart
<1>5. PagesApart' /\ OneDelivery' /\ StillMarked'
  BY <1>1, <1>2, <1>4 DEF PagesApart, OneDelivery, StillMarked, Busy
<1>6. worker[w].key \in Keys /\ worker[w].image \in States
  BY DEF OneDelivery, TypeOK
<1>7. \A k \in Keys \ {worker[w].key} : replica'[k] = replica[k]
  BY DEF Applied, TypeOK
<1>8. \/ replica'[worker[w].key] = replica[worker[w].key]
      \/ worker[w].at = "sent" /\ replica'[worker[w].key] = worker[w].image
  BY <1>6 DEF Applied, TypeOK
<1>9. replica' \in [Keys -> States]
  BY <1>6 DEF Applied, TypeOK
<1>10. TypeOK'
  BY <1>3, <1>9 DEF TypeOK, WorkerType
<1>11. \A v \in Workers \ {w} : Busy(v) => worker[v].key \in Keys \ {worker[w].key}
  BY DEF OneDelivery
<1>12. SentCurrent'
  BY <1>1, <1>2, <1>7, <1>11 DEF SentCurrent, Image, Busy
<1>13. MirrorBehind'
  BY <1>1, <1>2, <1>6, <1>7, <1>8, <1>11 DEF MirrorBehind, Busy
<1>14. Clean'
  BY <1>6, <1>7 DEF Clean, Image, StillMarked
<1>15. QED
  BY <1>5, <1>10, <1>12, <1>13, <1>14

\* What is read under the key lock is the state the mark stands for.
LEMMA PrepareInv == ASSUME OutboxInv, NEW w \in Workers, Prepare(w) PROVE OutboxInv'
<1> USE DEF OutboxInv
<1> DEFINE k == worker[w].key
<1>1. UNCHANGED <<local, mark, seq, replica, seeded, phase, after, jobs, crashes>>
  BY DEF Prepare, journal, scan
<1>2. Busy(w) /\ k \in Keys
  BY DEF Prepare, Busy, OneDelivery
<1>3. CASE worker' = [worker EXCEPT ![w] = Free]
  BY <1>1, <1>2, <1>3, FreeInv
<1>4. CASE worker' = [worker EXCEPT ![w].at = "sent", ![w].image = Image(local[k])]
  <2>1. Image(local[k]) \in States /\ Image(local[k]).n = local[k].n
    BY <1>2, ImageType DEF TypeOK
  <2>2. worker[w] \in WorkerType
    BY DEF TypeOK, WorkerType
  <2>3. /\ worker'[w].at = "sent" /\ worker'[w].key = k /\ worker'[w].rev = worker[w].rev
        /\ worker'[w].image = Image(local[k]) /\ worker'[w] \in WorkerType
    BY <1>4, <2>1, <2>2 DEF TypeOK, WorkerType
  <2>4. \A v \in Workers \ {w} : worker'[v] = worker[v]
    BY <1>4 DEF TypeOK
  <2>5. worker' \in [Workers -> WorkerType]
    BY <1>4, <2>3, <2>4 DEF TypeOK, WorkerType
  <2>6. TypeOK'
    BY <1>1, <2>5 DEF TypeOK, WorkerType
  <2>7. phase = "delivering"
    BY <1>2 DEF PagesApart
  <2>8. PagesApart' /\ OneDelivery' /\ StillMarked'
    BY <1>1, <1>2, <2>3, <2>4, <2>7 DEF PagesApart, OneDelivery, StillMarked, Busy
  <2>9. SentCurrent'
    BY <1>1, <2>3, <2>4 DEF SentCurrent, Image
  <2>10. local[k].n \in Nat /\ replica[k].n <= local[k].n
    BY <1>2 DEF MirrorBehind, TypeOK, States
  <2>11. MirrorBehind'
    BY <1>1, <2>1, <2>3, <2>4, <2>10 DEF MirrorBehind
  <2>12. Clean'
    BY <1>1 DEF Clean, Image
  <2>13. QED
    BY <2>6, <2>8, <2>9, <2>11, <2>12
<1>5. QED
  BY <1>3, <1>4 DEF Prepare

LEMMA SendOkInv == ASSUME OutboxInv, NEW w \in Workers, SendOk(w) PROVE OutboxInv'
<1> USE DEF OutboxInv
<1> DEFINE k == worker[w].key
<1>1. UNCHANGED <<local, mark, seq, seeded, phase, after, jobs, crashes>>
  BY DEF SendOk, journal, scan
<1>2. Busy(w) /\ k \in Keys /\ worker[w].at = "sent"
  BY DEF SendOk, Busy, OneDelivery
<1>3. worker[w] \in WorkerType
  BY DEF TypeOK, WorkerType
<1>4. /\ worker'[w].at = "sentOk" /\ worker'[w].key = k /\ worker'[w].rev = worker[w].rev
      /\ worker'[w].image = worker[w].image /\ worker'[w] \in WorkerType
  BY <1>3 DEF SendOk, TypeOK, WorkerType
<1>5. \A v \in Workers \ {w} : worker'[v] = worker[v]
  BY DEF SendOk, TypeOK
<1>6. worker' \in [Workers -> WorkerType]
  BY <1>4, <1>5 DEF SendOk, TypeOK, WorkerType
<1>7. /\ replica' \in [Keys -> States] /\ replica'[k] = worker[w].image
      /\ \A j \in Keys \ {k} : replica'[j] = replica[j]
  BY <1>2, <1>3 DEF SendOk, Applied, TypeOK, WorkerType
<1>8. TypeOK'
  BY <1>1, <1>6, <1>7 DEF TypeOK, WorkerType
<1>9. phase = "delivering"
  BY <1>2 DEF PagesApart
<1>10. PagesApart' /\ OneDelivery' /\ StillMarked'
  BY <1>1, <1>2, <1>4, <1>5, <1>9 DEF PagesApart, OneDelivery, StillMarked, Busy
<1>11. \A v \in Workers \ {w} : Busy(v) => worker[v].key \in Keys \ {k}
  BY <1>2 DEF OneDelivery
<1>12. SentCurrent'
  BY <1>1, <1>2, <1>4, <1>5, <1>7, <1>11 DEF SentCurrent, Image, Busy
<1>13. MirrorBehind'
  BY <1>1, <1>2, <1>4, <1>5, <1>7, <1>11 DEF MirrorBehind, Busy
<1>14. Clean'
  BY <1>1, <1>2, <1>7 DEF Clean, Image, StillMarked
<1>15. QED
  BY <1>8, <1>10, <1>12, <1>13, <1>14

\* A mark that still has the revision of the delivery is the only one removed.
LEMMA AcknowledgeInv == ASSUME OutboxInv, NEW w \in Workers, Acknowledge(w) PROVE OutboxInv'
<1> USE DEF OutboxInv
<1> DEFINE k == worker[w].key
<1>1. UNCHANGED <<local, seq, replica, seeded, phase, after, jobs, crashes>>
  BY DEF Acknowledge, scan
<1>2. Busy(w) /\ k \in Keys /\ worker[w].at = "sentOk"
  BY DEF Acknowledge, Busy, OneDelivery
<1>3. worker'[w] = Free /\ \A v \in Workers \ {w} : worker'[v] = worker[v]
  BY OtherWorkers DEF Acknowledge
<1>4. Free.at = "free"
  BY DEF Free
<1>5. worker' \in [Workers -> WorkerType]
  BY FreeType DEF Acknowledge, TypeOK, WorkerType
<1>6. /\ (mark'[k] = NoMark /\ mark[k] = worker[w].rev) \/ mark'[k] = mark[k]
      /\ \A j \in Keys \ {k} : mark'[j] = mark[j]
  BY <1>2 DEF Acknowledge, TypeOK
<1>7. mark' \in [Keys -> 0..seq]
  <2>1. \A j \in Keys : mark'[j] \in 0..seq
    BY <1>6 DEF TypeOK, NoMark
  <2>2. QED
    BY <2>1 DEF Acknowledge, TypeOK
<1>8. TypeOK'
  BY <1>1, <1>5, <1>7 DEF TypeOK, WorkerType
<1>9. phase = "delivering"
  BY <1>2 DEF PagesApart
<1>10. PagesApart' /\ OneDelivery'
  BY <1>1, <1>3, <1>4, <1>9 DEF PagesApart, OneDelivery, Busy
<1>11. /\ \A i \in jobs : i.key \in Keys \ {k}
       /\ \A v \in Workers \ {w} : Busy(v) => worker[v].key \in Keys \ {k}
  BY <1>2 DEF OneDelivery, TypeOK
<1>12. StillMarked'
  BY <1>1, <1>3, <1>4, <1>6, <1>11 DEF StillMarked, Busy
<1>13. SentCurrent'
  BY <1>1, <1>3, <1>4, <1>6, <1>11 DEF SentCurrent, Image, Busy
<1>14. MirrorBehind'
  BY <1>1, <1>3, <1>4 DEF MirrorBehind
<1>15. Clean'
  <2>1. mark[k] = worker[w].rev => replica[k] = Image(local[k])
    BY <1>2 DEF SentCurrent
  <2>2. QED
    BY <1>1, <1>6, <2>1 DEF Clean, Image
<1>16. QED
  BY <1>8, <1>10, <1>12, <1>13, <1>14, <1>15

\* Nothing is lost with the process: what was under way is still marked.
LEMMA CrashInv == OutboxInv /\ Crash => OutboxInv'
<1> SUFFICES ASSUME OutboxInv, Crash PROVE OutboxInv'
  OBVIOUS
<1> USE DEF OutboxInv
<1>1. /\ UNCHANGED <<local, mark, seq>> /\ seeded' = FALSE /\ phase' = "waiting" /\ after' = 0
      /\ jobs' = {} /\ worker' = [w \in Workers |-> Free]
  BY DEF Crash, journal
<1>2. crashes' \in 0..MaxCrashes
  BY OutboxAssumption DEF Crash, TypeOK
<1>3. PICK arrived \in SUBSET {w \in Workers : worker[w].at = "sent"} :
        replica' = [k \in Keys |->
            IF \E w \in arrived : worker[w].key = k
            THEN worker[CHOOSE w \in arrived : worker[w].key = k].image
            ELSE replica[k]]
  BY DEF Crash
<1>4. ASSUME NEW k \in Keys
      PROVE  \/ replica'[k] = replica[k]
             \/ \E w \in Workers : worker[w].at = "sent" /\ worker[w].key = k
                                  /\ replica'[k] = worker[w].image
  <2>1. CASE \E w \in arrived : worker[w].key = k
    <3> DEFINE w == CHOOSE v \in arrived : worker[v].key = k
    <3>1. w \in arrived /\ worker[w].key = k
      BY <2>1
    <3>2. replica'[k] = worker[w].image
      BY <1>3, <2>1
    <3>3. QED
      BY <3>1, <3>2
  <2>2. CASE ~\E w \in arrived : worker[w].key = k
    BY <1>3, <2>2
  <2>3. QED
    BY <2>1, <2>2
<1>5. \A w \in Workers : worker'[w] = Free /\ Free.at = "free"
  BY <1>1 DEF Free
<1>6. TypeOK'
  <2>1. \A k \in Keys : replica'[k] \in States
    BY <1>4 DEF TypeOK
  <2>2. replica' \in [Keys -> States]
    BY <1>3, <2>1
  <2>3. worker' \in [Workers -> WorkerType]
    BY <1>1, FreeType DEF TypeOK, WorkerType
  <2>4. QED
    <3>1. after' \in 0..NumKeys /\ jobs' \subseteq [key : Keys, rev : 1..seq]
      BY <1>1, OutboxAssumption
    <3>2. QED
      BY <1>1, <1>2, <2>2, <2>3, <3>1 DEF TypeOK, WorkerType
<1>7. PagesApart' /\ OneDelivery' /\ StillMarked' /\ SentCurrent'
  BY <1>1, <1>5 DEF PagesApart, OneDelivery, StillMarked, SentCurrent, Busy
<1>8. MirrorBehind'
  <2>1. ASSUME NEW k \in Keys PROVE replica'[k].n <= local[k].n
    BY <1>4 DEF MirrorBehind
  <2>2. QED
    BY <1>1, <1>5, <2>1 DEF MirrorBehind
<1>9. Clean'
  <2> SUFFICES ASSUME NEW k \in Keys, mark[k] = NoMark
               PROVE  replica'[k] = Image(local[k]) \/ local[k].kind # "gone"
    BY <1>1 DEF Clean, Image
  <2>1. replica'[k] = replica[k]
    BY <1>4 DEF StillMarked, Busy
  <2>2. QED
    BY <2>1 DEF Clean
<1>10. QED
  BY <1>6, <1>7, <1>8, <1>9

-----------------------------------------------------------------------------
(***************************************************************************)
(* Results                                                                 *)
(***************************************************************************)

LEMMA DeliverInv == ASSUME OutboxInv, NEW w \in Workers, Deliver(w) PROVE OutboxInv'
<1>1. CASE SendFails(w)
  <2>1. Busy(w) /\ worker' = [worker EXCEPT ![w] = Free]
    BY <1>1 DEF SendFails, Busy
  <2>2. UNCHANGED <<local, mark, seq, seeded, phase, after, jobs, crashes>>
    BY <1>1 DEF SendFails, journal, scan
  <2>3. replica' = replica \/ (worker[w].at = "sent" /\ replica' = Applied(w))
    BY <1>1 DEF SendFails
  <2>4. QED
    BY <2>1, <2>2, <2>3, FreeInv
<1>2. QED
  BY <1>1, TakeInv, PrepareInv, SendOkInv, AcknowledgeInv DEF Deliver

LEMMA OutboxNext == OutboxInv /\ [Next]_vars => OutboxInv'
<1> SUFFICES ASSUME OutboxInv, [Next]_vars PROVE OutboxInv'
  OBVIOUS
<1>1. CASE Next
  BY <1>1, WriteInv, SeedInv, ReconcileInv, DeliverInv, CrashInv DEF Next
<1>2. CASE UNCHANGED vars
  BY <1>2 DEF vars, journal, scan, OutboxInv, TypeOK, PagesApart, OneDelivery, StillMarked,
              SentCurrent, MirrorBehind, Clean, Busy, Image
<1>3. QED
  BY <1>1, <1>2

\* reconcilePending and deliverPending keep the invariant from every start on.
THEOREM OutboxInvariant == Spec => []OutboxInv
<1>1. QED
  BY OutboxInit, OutboxNext, PTL DEF Spec

\* The revision comparison of deliverPending suffices: a key that has lost its
\* mark is on the mirror in its present state, whatever raced with the delivery.
THEOREM MirrorClean == Spec => []CleanMeansMirrored
<1>1. OutboxInv => CleanMeansMirrored
  BY DEF OutboxInv, Clean, CleanMeansMirrored
<1>2. QED
  BY <1>1, OutboxInvariant, PTL

\* One delivery per key and pages that do not overlap keep sendSyncRequest from
\* taking the mirror back to an earlier state.
THEOREM MirrorMonotonic == Spec => MirrorNeverGoesBack
<1> DEFINE Forward == \A k \in Keys : replica'[k].n >= replica[k].n
<1>1. OutboxInv /\ [Next]_vars => [Forward]_vars
  <2> SUFFICES ASSUME OutboxInv, Next, NEW k \in Keys
               PROVE  replica'[k].n >= replica[k].n
    BY DEF vars
  <2> USE DEF OutboxInv
  <2>1. replica[k].n \in Nat
    BY DEF TypeOK, States
  <2>2. CASE replica'[k] = replica[k]
    BY <2>1, <2>2
  <2>3. CASE \E w \in Workers : worker[w].at = "sent" /\ worker[w].key = k
                              /\ replica'[k] = worker[w].image
    <3>1. PICK w \in Workers : worker[w].at = "sent" /\ worker[w].key = k
                              /\ replica'[k] = worker[w].image
      BY <2>3
    <3>2. replica[k].n <= worker[w].image.n /\ worker[w].image.n \in Nat
      BY <3>1 DEF MirrorBehind, TypeOK, States
    <3>3. QED
      BY <2>1, <3>1, <3>2
  <2>4. replica'[k] = replica[k] \/ \E w \in Workers : worker[w].at = "sent" /\ worker[w].key = k
                                                     /\ replica'[k] = worker[w].image
    <3>1. CASE \E w \in Workers : SendOk(w) \/ SendFails(w)
      <4>1. PICK w \in Workers : worker[w].at = "sent" /\ replica' \in {replica, Applied(w)}
        BY <3>1 DEF SendOk, SendFails
      <4>2. QED
        BY <4>1 DEF Applied, TypeOK
    <3>2. CASE Crash
      <4>1. PICK arrived \in SUBSET {w \in Workers : worker[w].at = "sent"} :
              replica' = [j \in Keys |->
                IF \E w \in arrived : worker[w].key = j
                THEN worker[CHOOSE w \in arrived : worker[w].key = j].image
                ELSE replica[j]]
        BY <3>2 DEF Crash
      <4>2. CASE \E w \in arrived : worker[w].key = k
        <5> DEFINE w == CHOOSE v \in arrived : worker[v].key = k
        <5>1. w \in arrived /\ worker[w].key = k
          BY <4>2
        <5>2. replica'[k] = worker[w].image
          BY <4>1, <4>2
        <5>3. QED
          BY <5>1, <5>2
      <4>3. CASE ~\E w \in arrived : worker[w].key = k
        BY <4>1, <4>3
      <4>4. QED
        BY <4>2, <4>3
    <3>3. CASE replica' = replica
      BY <3>3
    <3>4. QED
      BY <3>1, <3>2, <3>3 DEF Next, Write, seedReplication, Reconcile, StartScan, ReadPage,
                              PageDone, Deliver, Take, Prepare, Acknowledge
  <2>5. QED
    BY <2>2, <2>3, <2>4
<1>2. QED
  BY <1>1, OutboxInvariant, PTL DEF Spec, MirrorNeverGoesBack
=============================================================================

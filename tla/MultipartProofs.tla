-------------------------- MODULE MultipartProofs --------------------------
(***************************************************************************)
(* Proofs about Multipart, for any number of uploads, parts, handlers,     *)
(* crashes and failures.                                                   *)
(***************************************************************************)
EXTENDS Multipart, FiniteSetTheorems, TLAPS

Locals == [op : {"none", "create", "part", "complete", "abort"}, u : Uploads \cup {0},
           n : Parts \cup {NoPart}, file : Files \cup {NoPart}, meta : Records,
           todo : SUBSET Parts, out : [Parts -> Contents \cup {NoPart}]]

Creating == {"record", "count"}
Pending == {"temp", "rename", "read", "write"}
Ending == {"copy", "delete", "discount", "unlink", "rmdir"}
Where == {"idle", "retire"} \cup Creating \cup Pending \cup Ending

TypeInv ==
    /\ record \in [Uploads -> Records \cup {NoRecord}]
    /\ disk \in [Uploads -> SUBSET Files]
    /\ started \subseteq Uploads /\ dirs \subseteq started /\ torn \subseteq started
    /\ old \subseteq Uploads /\ batch \subseteq old
    /\ ids \in 0..MaxFiles /\ gauge \in Int /\ crashes \in Nat /\ failures \in Nat
    /\ redo \in [Uploads -> Nat]
    /\ object \in [Parts -> Contents \cup {NoPart}]
    /\ published \in [Uploads -> Nat]
    /\ uploadLock \in [Uploads -> Procs \cup {NoProc}]
    /\ pc \in [Procs -> Where]
    /\ loc \in [Procs -> Locals]
    /\ \A u \in Uploads : /\ record[u] # NoRecord => u \in started
                          /\ disk[u] # {} => u \in dirs

\* What the locals of a handler are for.
Shape(p) ==
    /\ pc[p] = "idle" => loc[p] = Idle
    /\ pc[p] # "idle" => loc[p].u \in started
    /\ pc[p] \in Creating => loc[p].op = "create"
    /\ pc[p] \in Pending \cup {"retire"} =>
          /\ loc[p].op = "part" /\ loc[p].n \in Parts /\ loc[p].file \in Files
          /\ loc[p].file.path = partDataPath(loc[p].n, loc[p].file.id)
          /\ loc[p].file.id <= ids
    /\ pc[p] \in Ending => loc[p].op \in {"complete", "abort"}
    /\ pc[p] = "copy" => loc[p].op = "complete"

\* Who holds the lock of an upload.
Locked == {"write", "retire"} \cup Ending
Holds(p) ==
    /\ pc[p] \in Locked => uploadLock[loc[p].u] = p
    /\ \A u \in Uploads : uploadLock[u] = p => pc[p] \in Locked /\ loc[p].u = u

\* An upload that nobody knows of.
Unknown(u) == record[u] = NoRecord /\ published[u] = 0 /\ u \notin torn

\* What a handler knows of the record.
Knows(p) ==
    /\ pc[p] = "record" => /\ Unknown(loc[p].u)
                           /\ \A q \in Procs : loc[q].u = loc[p].u => q = p
    /\ pc[p] \in {"write", "copy"} => record[loc[p].u] = loc[p].meta
    /\ pc[p] = "retire" => record[loc[p].u] = [loc[p].meta EXCEPT ![loc[p].n] = loc[p].file]
    /\ pc[p] = "delete" => record[loc[p].u] # NoRecord
    /\ pc[p] = "discount" => record[loc[p].u] = NoRecord
    /\ pc[p] \in {"unlink", "rmdir"} =>
          /\ loc[p].u \in torn
          /\ loc[p].op = "complete" <=> record[loc[p].u] = NoRecord
    /\ pc[p] \in {"delete", "discount"} /\ loc[p].op = "abort" =>
          loc[p].u \in torn /\ loc[p].u \notin dirs

Recorded(u, n) == record[u] # NoRecord /\ record[u][n] # NoPart
Temp(f) == [f EXCEPT !.path = <<>>]

\* Files have names of their own ...
NamesInv ==
    /\ \A u \in Uploads : \A f \in disk[u] :
          f.id <= ids /\ (f.path = <<>> \/ \E n \in Parts : f.path = partDataPath(n, f.id))
    /\ \A u \in Uploads, n \in Parts : Recorded(u, n) =>
          /\ record[u][n].path = partDataPath(n, record[u][n].id) /\ record[u][n].id <= ids
          /\ \A f \in disk[u] : f.id = record[u][n].id => f = record[u][n]

\* ... and a part that is on its way has a new one.
Sends(p) == pc[p] \in Pending =>
    /\ \A q \in Procs : pc[q] \in Pending /\ loc[p].file.id = loc[q].file.id => p = q
    /\ \A n \in Parts : Recorded(loc[p].u, n) => record[loc[p].u][n].id # loc[p].file.id
    /\ \A f \in disk[loc[p].u] : f.id = loc[p].file.id =>
          /\ pc[p] # "temp"
          /\ f = IF pc[p] = "rename" THEN Temp(loc[p].file) ELSE loc[p].file

\* No entry loses its file: a replaced one is no longer recorded when it goes.
Replaced(p) == loc[p].meta[loc[p].n]

Keeps(p) ==
    /\ pc[p] \in {"read", "write"} /\ loc[p].u \notin torn => loc[p].file \in disk[loc[p].u]
    /\ pc[p] = "retire" /\ Replaced(p) # NoPart =>
          /\ Replaced(p).id <= ids
          /\ \A m \in Parts : Recorded(loc[p].u, m) => record[loc[p].u][m] # Replaced(p)
          /\ \A q \in Procs : pc[q] \in Pending /\ loc[q].u = loc[p].u =>
                loc[q].file.id # Replaced(p).id

\* What a Complete has copied is what it saw in the record.
Copies(p) == pc[p] = "copy" =>
    /\ \A n \in loc[p].todo : loc[p].meta[n] # NoPart
    /\ \A n \in Parts : loc[p].out[n] # NoPart => loc[p].out[n] = loc[p].meta[n].data

\* A published upload is published again only when its record has outlived it.
OnceInv ==
    \A u \in Uploads :
        /\ published[u] <= 1 + redo[u]
        /\ published[u] > redo[u] =>
              record[u] = NoRecord \/ \E p \in Procs : Finishing(p, u)

\* Every file has an entry, someone who will record or remove it, or its own
\* removal that failed.
Entry(u, f) == record[u] # NoRecord /\ \E n \in Parts : record[u][n] = f
Claims(p, u, f) ==
    /\ loc[p].u = u
    /\ \/ pc[p] \in {"rename", "read", "write"} /\ loc[p].file.id = f.id
       \/ pc[p] = "retire" /\ Replaced(p) = f
       \/ pc[p] \in {"discount", "unlink"} /\ loc[p].op = "complete"
Blamed(f) == f \in kept

LeftInv == crashes = 0 =>
    \A u \in Uploads : \A f \in disk[u] :
        Entry(u, f) \/ (\E p \in Procs : Claims(p, u, f)) \/ Blamed(f)

Proc(p) == Shape(p) /\ Holds(p) /\ Knows(p) /\ Sends(p) /\ Keeps(p) /\ Copies(p)

UploadInv ==
    /\ TypeInv
    /\ \A p \in Procs : Proc(p)
    /\ \A u \in Uploads \ started : Unknown(u)
    /\ NamesInv /\ PartsOnDisk /\ OnceInv /\ LeftInv /\ GaugeCounts

-----------------------------------------------------------------------------
LEMMA PathFacts ==
    /\ \A n, m, i, j : partDataPath(n, i) = partDataPath(m, j) => n = m /\ i = j
    /\ \A n, i : partDataPath(n, i) # <<>>
    /\ \A n \in Parts, i \in 1..MaxFiles :
          partDataPath(n, i) \in {<<>>} \cup (Parts \X (0..MaxFiles))
<1>1. \A n, m, i, j : partDataPath(n, i) = partDataPath(m, j) => n = m /\ i = j
  BY DEF partDataPath
<1>2. \A n, i : partDataPath(n, i) # <<>>
  BY DEF partDataPath
<1>3. \A n \in Parts, i \in 1..MaxFiles : partDataPath(n, i) \in Parts \X (0..MaxFiles)
  BY MultipartAssumption DEF partDataPath
<1>4. QED
  BY <1>1, <1>2, <1>3

LEMMA FileFacts ==
    ASSUME NEW f \in Files
    PROVE  /\ f.id \in 1..MaxFiles /\ f.data \in Contents /\ f # NoPart
           /\ Temp(f) \in Files /\ Temp(f).id = f.id /\ Temp(f).path = <<>>
  BY MultipartAssumption DEF Files, Temp

LEMMA IdleFacts ==
    /\ Idle \in Locals /\ Idle.u = 0 /\ 0 \notin Uploads /\ Idle.out = None
    /\ None \in Records /\ None \in [Parts -> Contents \cup {NoPart}]
    /\ \A n \in Parts : None[n] = NoPart
<1>1. /\ None \in Records /\ None \in [Parts -> Contents \cup {NoPart}]
      /\ \A n \in Parts : None[n] = NoPart
  BY DEF None, Records
<1>2. QED
  BY <1>1 DEF Idle, Locals, Uploads

LEMMA LocalFields ==
    ASSUME NEW l \in Locals
    PROVE  /\ l.op \in {"none", "create", "part", "complete", "abort"} /\ l.u \in Uploads \cup {0}
           /\ l.n \in Parts \cup {NoPart} /\ l.file \in Files \cup {NoPart} /\ l.meta \in Records
           /\ l.todo \in SUBSET Parts /\ l.out \in [Parts -> Contents \cup {NoPart}]
  BY DEF Locals

LEMMA ReturnEffect ==
    ASSUME TypeInv, NEW p \in Procs, Return(p)
    PROVE  /\ pc' \in [Procs -> Where] /\ loc' \in [Procs -> Locals]
           /\ uploadLock' \in [Uploads -> Procs \cup {NoProc}]
           /\ \A q \in Procs : pc'[q] = IF q = p THEN "idle" ELSE pc[q]
           /\ \A q \in Procs : loc'[q] = IF q = p THEN Idle ELSE loc[q]
           /\ \A u \in Uploads : uploadLock'[u] = IF uploadLock[u] = p THEN NoProc ELSE uploadLock[u]
  BY IdleFacts DEF Return, Go, TypeInv, Where

LEMMA UploadInit == Init => UploadInv
<1> SUFFICES ASSUME Init PROVE UploadInv
  OBVIOUS
<1>1. TypeInv
  <2>1. 0 \in 0..MaxFiles
    BY MultipartAssumption
  <2>2. QED
    BY <2>1, IdleFacts DEF Init, TypeInv, Where
<1>2. ASSUME NEW p \in Procs PROVE Proc(p)
  BY <1>2, MultipartAssumption DEF Init, Procs, Proc, Shape, Holds, Knows, Sends, Keeps, Copies, Creating, Pending, Ending, Locked
<1>3. /\ \A u \in Uploads : record[u] = NoRecord /\ disk[u] = {} /\ published[u] = 0 /\ u \notin torn
      /\ crashes = 0 /\ failures = 0 /\ \A u \in Uploads : redo[u] = 0
  BY DEF Init
<1>4. (\A u \in Uploads \ started : Unknown(u)) /\ NamesInv /\ PartsOnDisk /\ OnceInv /\ LeftInv
  BY <1>3 DEF Unknown, NamesInv, PartsOnDisk, Recorded, OnceInv, LeftInv
<1>5. GaugeCounts
  <2>1. /\ {u \in Uploads : record[u] # NoRecord} = {} /\ {p \in Procs : At(p, "count")} = {}
        /\ {p \in Procs : At(p, "discount")} = {} /\ gauge = 0
    BY DEF Init, At
  <2>2. Cardinality({}) = 0
    BY FS_EmptySet
  <2>3. QED
    BY <2>1, <2>2, SMTT(30) DEF GaugeCounts
<1>6. QED
  BY <1>1, <1>2, <1>4, <1>5 DEF UploadInv

(***************************************************************************)
(* What a step of a handler may do to the others.                          *)
(***************************************************************************)

\* It moves nobody else, takes no lock from them, and leaves the records alone
\* that it has not locked.
Apart(p) ==
    /\ \A q \in Procs \ {p} : pc'[q] = pc[q] /\ loc'[q] = loc[q]
    /\ \A u \in Uploads, q \in Procs \ {p} : uploadLock[u] = q <=> uploadLock'[u] = q
    /\ \A u \in Uploads : \/ record'[u] = record[u] \/ uploadLock[u] = p
                          \/ pc[p] = "record" /\ loc[p].u = u
    /\ \A u \in Uploads : published'[u] = published[u] \/ uploadLock[u] = p
    /\ ids' \in Nat /\ ids <= ids' /\ started \subseteq started' /\ started' \subseteq Uploads /\ torn \subseteq torn'
    /\ kept \subseteq kept'
    /\ \A u \in dirs' : u \in dirs \/ u \notin started
    /\ \A u \in torn' : u \in torn \/ record[u] # NoRecord \/ uploadLock[u] = p
    /\ \/ loc'[p].u \in {0, loc[p].u} \/ loc'[p].u \notin started
       \/ loc'[p].u \in Uploads /\ record[loc'[p].u] # NoRecord

\* It adds no file but its own, and removes no other unless it ends the upload.
OwnFiles(p) ==
    /\ \A u \in Uploads : \A f \in disk'[u] : f \notin disk[u] =>
          /\ u = loc[p].u
          /\ \/ pc[p] = "temp" /\ pc'[p] = "rename" /\ f = Temp(loc[p].file)
             \/ pc[p] = "rename" /\ pc'[p] = "read" /\ f = loc[p].file
    /\ \A u \in Uploads : \A f \in disk[u] : f \notin disk'[u] =>
          \/ u \in torn
          \/ u = loc[p].u /\ pc[p] \in Pending /\ record'[u] = record[u] /\ f.id = loc[p].file.id
          \/ u = loc[p].u /\ pc[p] = "retire" /\ f = Replaced(p)

\* It records no part but its own.
OwnEntry(p) ==
    \A u \in Uploads, n \in Parts : Recorded(u, n)' =>
        \/ Recorded(u, n) /\ record'[u][n] = record[u][n]
        \/ /\ pc[p] = "write" /\ pc'[p] = "retire" /\ u = loc[p].u /\ n = loc[p].n
           /\ record'[u][n] = loc[p].file /\ disk'[u] = disk[u]

\* A part on its way has a new file.
OwnPart(p) == pc'[p] \in Pending =>
    \/ pc[p] = "idle" /\ pc'[p] = "temp" /\ loc'[p].file.id = ids + 1 /\ loc'[p].u \in Uploads
    \/ /\ loc'[p].file = loc[p].file /\ loc'[p].u = loc[p].u
       /\ \/ pc[p] = "temp" /\ pc'[p] = "rename"
          \/ /\ pc[p] = "rename" /\ pc'[p] = "read"
             /\ \A f \in disk'[loc[p].u] : f.id = loc[p].file.id => f = loc[p].file
          \/ pc[p] = "read" /\ pc'[p] = "write"

Step(p) == Apart(p) /\ OwnFiles(p) /\ OwnEntry(p) /\ OwnPart(p)

\* Two handlers never hold the same lock.
LEMMA Exclusion ==
    ASSUME UploadInv, NEW p \in Procs, NEW q \in Procs, p # q, pc[q] \in Locked
    PROVE  uploadLock[loc[q].u] # p
  BY DEF UploadInv, Proc, Holds

\* Of others, a step leaves shape, locks and knowledge.
LEMMA OthersKnow ==
    ASSUME UploadInv, NEW p \in Procs, Apart(p), NEW q \in Procs, q # p
    PROVE  Shape(q)' /\ Holds(q)' /\ Knows(q)' /\ Copies(q)'
<1>a. Proc(q) /\ TypeInv /\ Proc(p) /\ pc'[q] = pc[q] /\ loc'[q] = loc[q]
  BY DEF UploadInv, Apart
<1>b. /\ pc[q] \in Locked => uploadLock[loc[q].u] = q
      /\ pc[q] # "idle" => loc[q].u \in started /\ loc[q].u \in Uploads
      /\ loc[q] \in Locals /\ loc[p] \in Locals /\ ids \in Nat
  BY <1>a, MultipartAssumption DEF Proc, Holds, Shape, TypeInv
<1>1. Shape(q)'
  <2>1. loc[q].file.id <= ids /\ loc[q].file \in Files => loc[q].file.id <= ids'
    <3>1. loc[q].file \in Files => loc[q].file.id \in Nat
      BY FileFacts
    <3>2. QED
      BY <3>1, <1>b DEF Apart
  <2>2. QED
    BY <1>a, <1>b, <2>1 DEF Apart, Proc, Shape
<1>2. Holds(q)'
  BY <1>a, <1>b DEF Apart, Proc, Holds, Locked, Ending
<1>3. pc[q] \in Locked => record'[loc[q].u] = record[loc[q].u]
  <2>1. pc[q] \in Locked => ~(pc[p] = "record" /\ loc[p].u = loc[q].u)
    BY <1>a DEF Proc, Knows, Locked, Ending
  <2>2. pc[q] \in Locked => uploadLock[loc[q].u] # p
    BY Exclusion
  <2>3. QED
    BY <1>b, <2>1, <2>2 DEF Apart, Locked, Ending
<1>4. pc[q] = "record" => Unknown(loc[q].u)' /\ \A r \in Procs : loc'[r].u = loc'[q].u => r = q
  <2> SUFFICES ASSUME pc[q] = "record"
               PROVE  Unknown(loc[q].u)' /\ \A r \in Procs : loc'[r].u = loc'[q].u => r = q
    OBVIOUS
  <2>1. Unknown(loc[q].u) /\ (\A r \in Procs : loc[r].u = loc[q].u => r = q) /\ loc[q].u \in Uploads /\ loc[q].u \in started
    BY <1>a, <1>b DEF Proc, Knows
  <2>2. uploadLock[loc[q].u] # p /\ loc[p].u # loc[q].u
    BY <1>a, <2>1 DEF Proc, Holds
  <2>3. Unknown(loc[q].u)'
    BY <1>a, <2>1, <2>2 DEF Apart, Unknown
  <2>4. loc'[p].u # loc[q].u
    BY <2>1, <2>2, IdleFacts DEF Apart, Unknown
  <2>5. QED
    BY <1>a, <2>1, <2>3, <2>4 DEF Apart
<1>5. pc[q] \in Locked /\ loc[q].u \notin dirs => loc[q].u \notin dirs'
  BY <1>b DEF Apart, Locked, Ending
<1>6. Knows(q)'
  <2> USE DEF Locked, Ending
  <2>1. /\ pc'[q] = "record" => Unknown(loc[q].u)' /\ \A r \in Procs : loc'[r].u = loc'[q].u => r = q
        /\ pc'[q] \in {"write", "copy"} => record'[loc'[q].u] = loc'[q].meta
        /\ pc'[q] = "retire" => record'[loc'[q].u] = [loc'[q].meta EXCEPT ![loc'[q].n] = loc'[q].file]
        /\ pc'[q] = "delete" => record'[loc'[q].u] # NoRecord
        /\ pc'[q] = "discount" => record'[loc'[q].u] = NoRecord
    BY <1>a, <1>3, <1>4 DEF Proc, Knows
  <2>2. /\ pc'[q] \in {"unlink", "rmdir"} => /\ loc'[q].u \in torn'
                                             /\ loc'[q].op = "complete" <=> record'[loc'[q].u] = NoRecord
        /\ pc'[q] \in {"delete", "discount"} /\ loc'[q].op = "abort" =>
              loc'[q].u \in torn' /\ loc'[q].u \notin dirs'
    BY <1>a, <1>3, <1>5 DEF Proc, Knows, Apart
  <2>3. QED
    BY <2>1, <2>2 DEF Knows
<1>7. Copies(q)'
  BY <1>a DEF Proc, Copies
<1>8. QED
  BY <1>1, <1>2, <1>6, <1>7

LEMMA StepTypes ==
    ASSUME UploadInv
    PROVE  /\ \A u \in Uploads : \A f \in disk[u] : f \in Files /\ f.id \in Nat
           /\ \A u \in Uploads, n \in Parts : Recorded(u, n) => record[u][n] \in Files /\ record[u][n].id \in Nat
           /\ \A p \in Procs : loc[p] \in Locals /\ pc[p] \in Where
           /\ \A p \in Procs : pc[p] # "idle" => loc[p].u \in Uploads /\ loc[p].u \in started
           /\ \A p \in Procs : pc[p] \in Pending \cup {"retire"} =>
                 /\ loc[p].op = "part" /\ loc[p].n \in Parts /\ loc[p].file \in Files
                 /\ loc[p].file.path = partDataPath(loc[p].n, loc[p].file.id)
                 /\ loc[p].file.id \in Nat /\ loc[p].file.id <= ids
           /\ ids \in Nat
<1>a. TypeInv /\ \A p \in Procs : Shape(p)
  BY DEF UploadInv, Proc
<1>b. \A f \in Files : f.id \in Nat
  BY FileFacts
<1>1. \A u \in Uploads : \A f \in disk[u] : f \in Files /\ f.id \in Nat
  BY <1>a, <1>b DEF TypeInv
<1>2. \A u \in Uploads, n \in Parts : Recorded(u, n) => record[u][n] \in Files /\ record[u][n].id \in Nat
  BY <1>a, <1>b DEF TypeInv, Recorded, Records
<1>3. \A p \in Procs : loc[p] \in Locals /\ pc[p] \in Where
  BY <1>a DEF TypeInv
<1>4. \A p \in Procs : pc[p] # "idle" => loc[p].u \in Uploads /\ loc[p].u \in started
  BY <1>a DEF TypeInv, Shape
<1>5. \A p \in Procs : pc[p] \in Pending \cup {"retire"} =>
                 /\ loc[p].op = "part" /\ loc[p].n \in Parts /\ loc[p].file \in Files
                 /\ loc[p].file.path = partDataPath(loc[p].n, loc[p].file.id)
                 /\ loc[p].file.id \in Nat /\ loc[p].file.id <= ids
  BY <1>a, <1>b DEF Shape
<1>6. ids \in Nat
  BY <1>a, MultipartAssumption DEF TypeInv
<1>7. QED
  BY <1>1, <1>2, <1>3, <1>4, <1>5, <1>6

LEMMA StepNames ==
    ASSUME UploadInv, NEW p \in Procs, Step(p)
    PROVE  NamesInv'
<1> USE StepTypes
<1>a. NamesInv /\ Proc(p) /\ ids' \in Nat /\ ids <= ids'
  BY DEF UploadInv, Step, Apart
<1>b. \A f \in Files : Temp(f).id = f.id /\ Temp(f).path = <<>>
  BY FileFacts
<1>1. ASSUME NEW u \in Uploads, NEW f \in disk'[u]
      PROVE  f.id <= ids' /\ (f.path = <<>> \/ \E n \in Parts : f.path = partDataPath(n, f.id))
  <2>1. CASE f \in disk[u]
    BY <2>1, <1>a DEF NamesInv
  <2>2. CASE f \notin disk[u]
    <3>1. pc[p] \in Pending /\ f \in {loc[p].file, Temp(loc[p].file)}
      BY <2>2, <1>1 DEF Step, OwnFiles, Pending
    <3>2. QED
      BY <1>a, <1>b, <3>1
  <2>3. QED
    BY <2>1, <2>2
<1>2. ASSUME NEW u \in Uploads, NEW n \in Parts, Recorded(u, n)'
      PROVE  /\ record'[u][n].path = partDataPath(n, record'[u][n].id) /\ record'[u][n].id <= ids'
             /\ \A f \in disk'[u] : f.id = record'[u][n].id => f = record'[u][n]
  <2>1. CASE Recorded(u, n) /\ record'[u][n] = record[u][n]
    <3>1. /\ record[u][n].path = partDataPath(n, record[u][n].id) /\ record[u][n].id <= ids
          /\ \A f \in disk[u] : f.id = record[u][n].id => f = record[u][n]
      BY <1>a, <2>1 DEF NamesInv
    <3>2. ASSUME NEW f \in disk'[u], f \notin disk[u] PROVE f.id # record[u][n].id
      <4>1. pc[p] \in Pending /\ f \in {loc[p].file, Temp(loc[p].file)} /\ u = loc[p].u
        BY <3>2 DEF Step, OwnFiles, Pending
      <4>2. record[u][n].id # loc[p].file.id
        BY <1>a, <2>1, <4>1 DEF Proc, Sends
      <4>3. QED
        BY <1>b, <4>1, <4>2
    <3>3. record[u][n].id <= ids'
      BY <1>a, <2>1, <3>1
    <3>4. QED
      BY <2>1, <3>1, <3>2, <3>3
  <2>2. CASE /\ pc[p] = "write" /\ u = loc[p].u /\ n = loc[p].n
             /\ record'[u][n] = loc[p].file /\ disk'[u] = disk[u]
    <3>1. pc[p] \in Pending
      BY <2>2 DEF Pending
    <3>2. loc[p].file.id <= ids'
      BY <1>a, <3>1
    <3>3. \A f \in disk[u] : f.id = loc[p].file.id => f = loc[p].file
      BY <1>a, <2>2, <3>1 DEF Proc, Sends
    <3>4. QED
      BY <2>2, <3>1, <3>2, <3>3
  <2>3. QED
    BY <1>2, <2>1, <2>2 DEF Step, OwnEntry
<1>3. QED
  BY <1>1, <1>2 DEF NamesInv

\* The other parts on their way keep their new names ...
LEMMA OthersSend ==
    ASSUME UploadInv, NEW p \in Procs, Step(p), NEW q \in Procs, q # p
    PROVE  Sends(q)'
<1> USE StepTypes
<1>a. Proc(q) /\ Proc(p) /\ NamesInv /\ pc'[q] = pc[q] /\ loc'[q] = loc[q]
  BY DEF UploadInv, Step, Apart
<1>b. \A f \in Files : Temp(f).id = f.id
  BY FileFacts
<1> SUFFICES ASSUME pc[q] \in Pending PROVE Sends(q)'
  BY <1>a DEF Sends
<1>1. pc[p] \in Pending => loc[p].file.id # loc[q].file.id
  BY <1>a DEF Proc, Sends
<1>2. ASSUME NEW r \in Procs, pc'[r] \in Pending, loc'[q].file.id = loc'[r].file.id PROVE q = r
  <2>1. CASE r = p
    <3>1. loc'[p].file.id = ids + 1 \/ (loc'[p].file = loc[p].file /\ pc[p] \in Pending)
      BY <1>2, <2>1 DEF Step, OwnPart, Pending
    <3>2. loc[q].file.id # ids + 1
      OBVIOUS
    <3>3. QED
      BY <1>a, <1>1, <1>2, <2>1, <3>1, <3>2
  <2>2. CASE r # p
    BY <1>a, <1>2, <2>2 DEF Step, Apart, Proc, Sends
  <2>3. QED
    BY <2>1, <2>2
<1>3. ASSUME NEW n \in Parts, Recorded(loc[q].u, n)' PROVE record'[loc[q].u][n].id # loc[q].file.id
  <2>1. \/ Recorded(loc[q].u, n) /\ record'[loc[q].u][n] = record[loc[q].u][n]
        \/ pc[p] \in Pending /\ record'[loc[q].u][n] = loc[p].file
    BY <1>3, <1>a DEF Step, OwnEntry, Pending
  <2>2. QED
    BY <1>1, <1>a, <2>1 DEF Proc, Sends
<1>4. ASSUME NEW f \in disk'[loc[q].u], f.id = loc[q].file.id
      PROVE  pc[q] # "temp" /\ f = IF pc[q] = "rename" THEN Temp(loc[q].file) ELSE loc[q].file
  <2>1. f \in disk[loc[q].u] \/ (pc[p] \in Pending /\ f \in {loc[p].file, Temp(loc[p].file)})
    BY <1>4 DEF Step, OwnFiles, Pending
  <2>2. f \in disk[loc[q].u]
    BY <1>1, <1>b, <1>4, <2>1
  <2>3. QED
    BY <1>a, <1>4, <2>2 DEF Proc, Sends
<1>5. QED
  BY <1>a, <1>2, <1>3, <1>4 DEF Sends

\* ... and so does the one that moves.
LEMMA OwnSend ==
    ASSUME UploadInv, NEW p \in Procs, Step(p)
    PROVE  Sends(p)'
<1> USE StepTypes
<1>a. Proc(p) /\ NamesInv
  BY DEF UploadInv, Step, Apart
<1>b. \A f \in Files : Temp(f).id = f.id
  BY FileFacts
<1> SUFFICES ASSUME pc'[p] \in Pending PROVE Sends(p)'
  BY DEF Sends
<1>1. \A q \in Procs : pc'[q] \in Pending /\ loc'[p].file.id = loc'[q].file.id => p = q
  <2> SUFFICES ASSUME NEW q \in Procs, q # p, pc[q] \in Pending PROVE loc'[p].file.id # loc[q].file.id
    BY DEF Step, Apart
  <2>1. loc'[p].file.id = ids + 1 \/ (loc'[p].file = loc[p].file /\ pc[p] \in Pending)
    BY DEF Step, OwnPart, Pending
  <2>2. loc[q].file.id # ids + 1
    OBVIOUS
  <2>3. QED
    BY <1>a, <2>1, <2>2 DEF Proc, Sends
<1>2. CASE pc[p] = "idle" /\ pc'[p] = "temp" /\ loc'[p].file.id = ids + 1 /\ loc'[p].u \in Uploads
  <2>1. ASSUME NEW u \in Uploads, NEW n \in Parts, Recorded(u, n)' PROVE record'[u][n].id # ids + 1
    <3>1. Recorded(u, n) /\ record'[u][n] = record[u][n]
      BY <2>1, <1>2 DEF Step, OwnEntry
    <3>2. record[u][n].id <= ids
      BY <1>a, <3>1 DEF NamesInv
    <3>3. QED
      BY <3>1, <3>2
  <2>2. ASSUME NEW u \in Uploads, NEW f \in disk'[u] PROVE f.id # ids + 1
    <3>1. f \in disk[u]
      BY <2>2, <1>2 DEF Step, OwnFiles
    <3>2. f.id <= ids
      BY <1>a, <3>1 DEF NamesInv
    <3>3. QED
      BY <3>1, <3>2
  <2>3. QED
    BY <1>1, <1>2, <2>1, <2>2 DEF Sends
<1>3. CASE /\ loc'[p].file = loc[p].file /\ loc'[p].u = loc[p].u
           /\ \/ pc[p] = "temp" /\ pc'[p] = "rename"
              \/ /\ pc[p] = "rename" /\ pc'[p] = "read"
                 /\ \A f \in disk'[loc[p].u] : f.id = loc[p].file.id => f = loc[p].file
              \/ pc[p] = "read" /\ pc'[p] = "write"
  <2>a. pc[p] \in Pending /\ loc[p].u \in Uploads
    BY <1>3 DEF Pending
  <2>1. ASSUME NEW n \in Parts, Recorded(loc[p].u, n)' PROVE record'[loc[p].u][n].id # loc[p].file.id
    <3>1. /\ Recorded(loc[p].u, n) /\ record'[loc[p].u][n] = record[loc[p].u][n]
      BY <1>3, <2>1, <2>a DEF Step, OwnEntry
    <3>2. QED
      BY <1>a, <2>a, <3>1 DEF Proc, Sends
  <2>2. ASSUME NEW f \in disk'[loc[p].u], f.id = loc[p].file.id
        PROVE  pc'[p] # "temp" /\ f = IF pc'[p] = "rename" THEN Temp(loc[p].file) ELSE loc[p].file
    <3>1. CASE f \in disk[loc[p].u]
      BY <1>a, <1>3, <2>a, <2>2, <3>1 DEF Proc, Sends
    <3>2. CASE f \notin disk[loc[p].u]
      BY <1>3, <2>a, <2>2, <3>2 DEF Step, OwnFiles
    <3>3. QED
      BY <3>1, <3>2
  <2>3. QED
    BY <1>1, <1>3, <2>1, <2>2 DEF Sends
<1>4. QED
  BY <1>2, <1>3 DEF Step, OwnPart

\* The file of an entry stays ...
LEMMA StepKeeps ==
    ASSUME UploadInv, NEW p \in Procs, Step(p)
    PROVE  PartsOnDisk'
<1> USE StepTypes
<1>a. Proc(p) /\ NamesInv /\ PartsOnDisk /\ torn \subseteq torn'
  BY DEF UploadInv, Step, Apart
<1> SUFFICES ASSUME NEW u \in Uploads, u \notin torn', NEW n \in Parts, Recorded(u, n)'
             PROVE  record'[u][n] \in disk'[u]
  BY DEF PartsOnDisk, Recorded
<1>1. CASE Recorded(u, n) /\ record'[u][n] = record[u][n]
  <2>1. record[u][n] \in disk[u] /\ record[u][n] # NoPart
    BY <1>a, <1>1 DEF PartsOnDisk, Recorded
  <2>2. ~(u = loc[p].u /\ pc[p] \in Pending /\ record[u][n].id = loc[p].file.id)
    BY <1>a, <1>1 DEF Proc, Sends
  <2>3. ~(u = loc[p].u /\ pc[p] = "retire" /\ record[u][n] = Replaced(p))
    BY <1>a, <1>1, <2>1 DEF Proc, Keeps
  <2>4. QED
    BY <1>a, <1>1, <2>1, <2>2, <2>3 DEF Step, OwnFiles
<1>2. CASE /\ pc[p] = "write" /\ u = loc[p].u
           /\ record'[u][n] = loc[p].file /\ disk'[u] = disk[u]
  BY <1>a, <1>2 DEF Proc, Keeps
<1>3. QED
  BY <1>1, <1>2 DEF Step, OwnEntry

\* ... and so do the files that others are about to record.
LEMMA OthersKeep ==
    ASSUME UploadInv, NEW p \in Procs, Step(p), NEW q \in Procs, q # p
    PROVE  Keeps(q)'
<1> USE StepTypes
<1>a. /\ Proc(q) /\ Proc(p) /\ NamesInv /\ pc'[q] = pc[q] /\ loc'[q] = loc[q]
      /\ torn \subseteq torn' /\ ids' \in Nat /\ ids <= ids'
  BY DEF UploadInv, Step, Apart
<1>1. ASSUME pc[q] \in {"read", "write"}, loc[q].u \notin torn'
      PROVE  loc[q].file \in disk'[loc[q].u]
  <2>a. pc[q] \in Pending /\ pc[q] \in Pending \cup {"retire"}
    BY <1>1 DEF Pending
  <2>1. loc[q].file \in disk[loc[q].u] /\ loc[q].u \in Uploads
    BY <1>a, <1>1 DEF Proc, Keeps
  <2>2. ~(pc[p] \in Pending /\ loc[q].file.id = loc[p].file.id)
    BY <1>a, <2>a DEF Proc, Sends
  <2>3. ~(loc[q].u = loc[p].u /\ pc[p] = "retire" /\ loc[q].file = Replaced(p))
    <3>1. loc[q].file # NoPart
      BY <2>a, FileFacts
    <3>2. QED
      BY <1>a, <2>a, <3>1 DEF Proc, Keeps
  <2>4. QED
    BY <1>a, <1>1, <2>1, <2>2, <2>3 DEF Step, OwnFiles
<1>2. ASSUME pc[q] = "retire", Replaced(q) # NoPart
      PROVE  /\ Replaced(q).id <= ids'
             /\ \A m \in Parts : Recorded(loc[q].u, m)' => record'[loc[q].u][m] # Replaced(q)
             /\ \A r \in Procs : pc'[r] \in Pending /\ loc'[r].u = loc[q].u =>
                  loc'[r].file.id # Replaced(q).id
  <2>a. /\ Replaced(q).id <= ids /\ Replaced(q) \in Files /\ Replaced(q).id \in Nat
        /\ \A m \in Parts : Recorded(loc[q].u, m) => record[loc[q].u][m] # Replaced(q)
        /\ \A r \in Procs : pc[r] \in Pending /\ loc[r].u = loc[q].u =>
             loc[r].file.id # Replaced(q).id
    <3>1. Replaced(q) \in Files
      BY <1>2, LocalFields DEF Replaced, Records
    <3>2. QED
      BY <1>a, <1>2, <3>1, FileFacts DEF Proc, Keeps
  <2>1. Replaced(q).id <= ids'
    BY <1>a, <2>a
  <2>2. ASSUME NEW m \in Parts, Recorded(loc[q].u, m)' PROVE record'[loc[q].u][m] # Replaced(q)
    <3>1. \/ Recorded(loc[q].u, m) /\ record'[loc[q].u][m] = record[loc[q].u][m]
          \/ pc[p] \in Pending /\ record'[loc[q].u][m] = loc[p].file /\ loc[p].u = loc[q].u
      BY <1>2, <2>2, <1>a DEF Step, OwnEntry, Pending
    <3>2. QED
      BY <2>a, <3>1
  <2>3. ASSUME NEW r \in Procs, pc'[r] \in Pending, loc'[r].u = loc[q].u
        PROVE  loc'[r].file.id # Replaced(q).id
    <3>1. CASE r = p
      <4>1. \/ loc'[p].file.id = ids + 1
            \/ loc'[p].file = loc[p].file /\ pc[p] \in Pending /\ loc'[p].u = loc[p].u
        BY <2>3, <3>1 DEF Step, OwnPart, Pending
      <4>2. Replaced(q).id # ids + 1
        BY <2>a
      <4>3. QED
        BY <2>a, <2>3, <3>1, <4>1, <4>2
    <3>2. CASE r # p
      BY <2>a, <2>3, <3>2 DEF Step, Apart
    <3>3. QED
      BY <3>1, <3>2
  <2>4. QED
    BY <2>1, <2>2, <2>3
<1>3. Replaced(q)' = Replaced(q)
  BY <1>a DEF Replaced
<1>4. QED
  BY <1>a, <1>1, <1>2, <1>3 DEF Keeps

\* An upload nobody has started stays unknown.
LEMMA StepUnknown ==
    ASSUME UploadInv, NEW p \in Procs, Apart(p)
    PROVE  \A u \in Uploads \ started' : Unknown(u)'
<1> SUFFICES ASSUME NEW u \in Uploads, u \notin started' PROVE Unknown(u)'
  OBVIOUS
<1>1. u \notin started /\ Unknown(u) /\ Proc(p)
  BY DEF UploadInv, Apart
<1>2. uploadLock[u] # p /\ ~(pc[p] = "record" /\ loc[p].u = u)
  BY <1>1, StepTypes DEF Proc, Holds, Locked, Ending
<1>3. QED
  BY <1>1, <1>2 DEF Apart, Unknown

\* With that, the step of a handler is right if it is right for that handler.
LEMMA StepInv ==
    ASSUME UploadInv, NEW p \in Procs, Step(p), TypeInv',
           Shape(p)', Holds(p)', Knows(p)', Keeps(p)', Copies(p)',
           OnceInv', LeftInv', GaugeCounts'
    PROVE  UploadInv'
<1>1. ASSUME NEW q \in Procs PROVE Proc(q)'
  <2>1. CASE q = p
    BY <2>1, OwnSend DEF Proc
  <2>2. CASE q # p
    BY <2>2, OthersKnow, OthersSend, OthersKeep DEF Proc, Step
  <2>3. QED
    BY <2>1, <2>2
<1>2. QED
  BY <1>1, StepUnknown, StepNames, StepKeeps DEF UploadInv, Step

\* The record of a published upload may outlive it once more.
Grows == redo' \in [Uploads -> Nat] /\ \A u \in Uploads : redo[u] <= redo'[u]

LEMMA SameGrows == TypeInv /\ redo' = redo => Grows
  BY DEF TypeInv, Grows

LEMMA InterruptedGrows ==
    ASSUME TypeInv, NEW S
    PROVE  /\ Interrupted(S) \in [Uploads -> Nat]
           /\ \A u \in Uploads : redo[u] <= Interrupted(S)[u]
           /\ \A u \in Uploads, p \in S : Finishing(p, u) => redo[u] < Interrupted(S)[u]
<1>1. \A u \in Uploads : redo[u] \in Nat
  BY DEF TypeInv
<1>2. QED
  BY <1>1 DEF Interrupted

LEMMA StepOnce ==
    ASSUME UploadInv, NEW p \in Procs, Apart(p), published' = published, crashes' = crashes,
           Grows,
           \A u \in Uploads : record[u] = NoRecord => record'[u] = NoRecord \/ published[u] = 0,
           \A u \in Uploads : Finishing(p, u) => record'[u] = NoRecord \/ redo[u] < redo'[u]
    PROVE  OnceInv'
<1> SUFFICES ASSUME NEW u \in Uploads
             PROVE  /\ published[u] <= 1 + redo'[u]
                    /\ published[u] > redo'[u] =>
                          record'[u] = NoRecord \/ \E q \in Procs : Finishing(q, u)'
  BY DEF OnceInv
<1>1. published[u] \in Nat /\ redo[u] \in Nat /\ redo'[u] \in Nat
  BY DEF UploadInv, TypeInv, Grows
<1>2. /\ published[u] <= 1 + redo[u]
      /\ published[u] > redo[u] =>
           record[u] = NoRecord \/ \E q \in Procs : Finishing(q, u)
  BY DEF UploadInv, OnceInv
<1>3. published[u] <= 1 + redo'[u]
  BY <1>1, <1>2 DEF Grows
<1>4. ASSUME published[u] > redo'[u]
      PROVE  record'[u] = NoRecord \/ \E q \in Procs : Finishing(q, u)'
  <2>1. published[u] > redo[u] /\ published[u] # 0 /\ ~(redo[u] < redo'[u])
    BY <1>1, <1>2, <1>4 DEF Grows
  <2>2. CASE record[u] = NoRecord
    BY <2>1, <2>2
  <2>3. ASSUME NEW q \in Procs, Finishing(q, u)
        PROVE  record'[u] = NoRecord \/ \E r \in Procs : Finishing(r, u)'
    <3>1. CASE q = p
      BY <2>1, <2>3, <3>1
    <3>2. CASE q # p
      <4>1. Finishing(q, u)'
        BY <2>3, <3>2 DEF Apart, Finishing
      <4>2. QED
        BY <4>1
    <3>3. QED
      BY <3>1, <3>2
  <2>4. QED
    BY <1>2, <2>1, <2>2, <2>3
<1>5. QED
  BY <1>3, <1>4

LEMMA StepLeft ==
    ASSUME UploadInv, NEW p \in Procs, Apart(p), crashes' = crashes,
           \A u \in Uploads : \A f \in disk'[u] :
              f \notin disk[u] \/ Entry(u, f) \/ Claims(p, u, f) =>
                 Entry(u, f)' \/ Claims(p, u, f)' \/ Blamed(f)'
    PROVE  LeftInv'
<1> SUFFICES ASSUME crashes = 0, NEW u \in Uploads, NEW f \in disk'[u]
             PROVE  Entry(u, f)' \/ (\E q \in Procs : Claims(q, u, f)') \/ Blamed(f)'
  BY DEF LeftInv
<1>1. CASE f \notin disk[u] \/ Entry(u, f) \/ Claims(p, u, f)
  BY <1>1
<1>2. ASSUME NEW q \in Procs, q # p, Claims(q, u, f) PROVE Claims(q, u, f)'
  BY <1>2 DEF Apart, Claims, Replaced
<1>3. Blamed(f) => Blamed(f)'
  BY DEF Apart, Blamed
<1>4. f \in disk[u] => Entry(u, f) \/ (\E q \in Procs : Claims(q, u, f)) \/ Blamed(f)
  BY DEF UploadInv, LeftInv
<1>5. QED
  BY <1>1, <1>2, <1>3, <1>4

-----------------------------------------------------------------------------
(***************************************************************************)
(* The gauge.                                                              *)
(***************************************************************************)
Active == {u \in Uploads : record[u] # NoRecord}
AtPoint(where) == {p \in Procs : At(p, where)}

LEMMA GaugeSets ==
    /\ IsFiniteSet(Active) /\ Cardinality(Active) \in Nat
    /\ \A w : IsFiniteSet(AtPoint(w)) /\ Cardinality(AtPoint(w)) \in Nat
    /\ GaugeCounts <=> gauge = Cardinality(Active) - Cardinality(AtPoint("count"))
                               + Cardinality(AtPoint("discount"))
<1>1. IsFiniteSet(Uploads) /\ IsFiniteSet(Procs)
  <2>1. IsFiniteSet(Uploads)
    BY MultipartAssumption, FS_Interval DEF Uploads
  <2>2. QED
    BY <2>1, MultipartAssumption, FS_AddElement DEF Procs
<1>2. IsFiniteSet(Active) /\ \A w : IsFiniteSet(AtPoint(w))
  BY <1>1, FS_Subset DEF Active, AtPoint
<1>3. QED
  BY <1>2, FS_CardinalityType DEF GaugeCounts, Active, AtPoint

\* A step that neither records, deletes, counts nor discounts an upload.
LEMMA StepQuiet ==
    ASSUME UploadInv, NEW p \in Procs, Apart(p), gauge' = gauge,
           \A u \in Uploads : record'[u] = NoRecord <=> record[u] = NoRecord,
           pc[p] \notin {"count", "discount"}, pc'[p] \notin {"count", "discount"}
    PROVE  GaugeCounts'
<1>1. /\ {u \in Uploads : record'[u] # NoRecord} = {u \in Uploads : record[u] # NoRecord}
      /\ {q \in Procs : pc'[q] = "count"} = {q \in Procs : pc[q] = "count"}
      /\ {q \in Procs : pc'[q] = "discount"} = {q \in Procs : pc[q] = "discount"}
  BY DEF Apart
<1>2. QED
  BY <1>1 DEF UploadInv, GaugeCounts, At

\* A handler arrives at a point, or leaves it.
LEMMA PointMoves ==
    ASSUME NEW p \in Procs, NEW w, \A q \in Procs \ {p} : pc'[q] = pc[q]
    PROVE  /\ pc[p] # w /\ pc'[p] = w => Cardinality(AtPoint(w)') = Cardinality(AtPoint(w)) + 1
           /\ pc[p] = w /\ pc'[p] # w => Cardinality(AtPoint(w)') = Cardinality(AtPoint(w)) - 1
           /\ pc[p] # w /\ pc'[p] # w => Cardinality(AtPoint(w)') = Cardinality(AtPoint(w))
<1>1. CASE pc[p] # w /\ pc'[p] = w
  <2>1. AtPoint(w)' = AtPoint(w) \cup {p} /\ p \notin AtPoint(w)
    BY <1>1 DEF AtPoint, At
  <2>2. QED
    BY <1>1, <2>1, GaugeSets, FS_AddElement
<1>2. CASE pc[p] = w /\ pc'[p] # w
  <2>1. AtPoint(w)' = AtPoint(w) \ {p} /\ p \in AtPoint(w)
    BY <1>2 DEF AtPoint, At
  <2>2. QED
    BY <1>2, <2>1, GaugeSets, FS_RemoveElement
<1>3. CASE pc[p] # w /\ pc'[p] # w
  <2>1. AtPoint(w)' = AtPoint(w)
    BY <1>3 DEF AtPoint, At
  <2>2. QED
    BY <1>3, <2>1
<1>4. QED
  BY <1>1, <1>2, <1>3

-----------------------------------------------------------------------------
(***************************************************************************)
(* A handler returns                                                       *)
(***************************************************************************)
LEMMA Returns ==
    ASSUME UploadInv, NEW p \in Procs, Return(p),
           UNCHANGED <<record, ids, started, published, crashes, object, old, batch>>,
           failures' \in Nat, Grows, kept \subseteq kept', gauge' \in Int,
           torn \subseteq torn', \A u \in torn' : u \in torn \/ (u \in Uploads /\ uploadLock[u] = p),
           dirs' \subseteq dirs, disk' \in [Uploads -> SUBSET Files],
           \A u \in Uploads : disk'[u] \subseteq disk[u] /\ (disk'[u] # {} => u \in dirs'),
           OwnFiles(p),
           \A u \in Uploads : Finishing(p, u) => redo[u] < redo'[u],
           \A u \in Uploads : \A f \in disk'[u] : Claims(p, u, f) => Entry(u, f) \/ Blamed(f)',
           GaugeCounts'
    PROVE  UploadInv'
<1>a. TypeInv /\ Proc(p)
  BY DEF UploadInv
<1>e. /\ pc' \in [Procs -> Where] /\ loc' \in [Procs -> Locals]
      /\ uploadLock' \in [Uploads -> Procs \cup {NoProc}]
      /\ \A q \in Procs : pc'[q] = IF q = p THEN "idle" ELSE pc[q]
      /\ \A q \in Procs : loc'[q] = IF q = p THEN Idle ELSE loc[q]
      /\ \A u \in Uploads : uploadLock'[u] = IF uploadLock[u] = p THEN NoProc ELSE uploadLock[u]
  BY <1>a, ReturnEffect
<1>b. NoProc \notin Procs
  BY MultipartAssumption DEF Procs
<1>1. TypeInv'
  <2>1. torn' \subseteq started
    BY <1>a, StepTypes DEF TypeInv, Proc, Holds, Locked, Ending
  <2>2. QED
    BY <1>a, <1>e, <2>1 DEF TypeInv, Grows
<1>2. Apart(p)
  <2>1. \A u \in Uploads, q \in Procs \ {p} : uploadLock[u] = q <=> uploadLock'[u] = q
    BY <1>b, <1>e
  <2>2. \A u \in torn' : u \in torn \/ record[u] # NoRecord \/ uploadLock[u] = p
    OBVIOUS
  <2>3. ids' \in Nat /\ ids <= ids' /\ started' \subseteq Uploads
    BY <1>a, StepTypes DEF TypeInv
  <2>4. loc'[p].u = 0
    BY <1>e, IdleFacts
  <2>5. QED
    BY <1>e, <2>1, <2>2, <2>3, <2>4 DEF Apart
<1>3. OwnEntry(p) /\ OwnPart(p)
  BY <1>e DEF OwnEntry, OwnPart, Recorded, Pending
<1>4. Shape(p)' /\ Holds(p)' /\ Knows(p)' /\ Keeps(p)' /\ Copies(p)'
  BY <1>b, <1>e DEF Shape, Holds, Knows, Keeps, Copies, Pending, Creating, Ending, Locked
<1>5. OnceInv'
  BY <1>2, StepOnce
<1>6. LeftInv'
  <2>1. \A u \in Uploads : \A f : Entry(u, f) => Entry(u, f)'
    BY DEF Entry
  <2>2. QED
    BY <1>2, <2>1, StepLeft
<1>7. QED
  BY <1>1, <1>2, <1>3, <1>4, <1>5, <1>6, StepInv DEF Step

LEMMA IncKeeps ==
    ASSUME UploadInv, NEW p \in Procs, IncActiveMultiparts(p)
    PROVE  UploadInv'
<1>a. TypeInv /\ Return(p) /\ pc[p] = "count" /\ gauge' = gauge + 1 /\ gauge \in Int
  BY DEF UploadInv, TypeInv, IncActiveMultiparts, At
<1>b. UNCHANGED <<record, dirs, disk, ids, object, published, started, old, torn, batch, crashes, failures, kept, redo>>
  BY DEF IncActiveMultiparts, store, history, faults
<1>1. OwnFiles(p)
  BY <1>b DEF OwnFiles
<1>2. GaugeCounts'
  <2>1. \A q \in Procs : pc'[q] = IF q = p THEN "idle" ELSE pc[q]
    BY <1>a, ReturnEffect
  <2>2. Cardinality(AtPoint("count")') = Cardinality(AtPoint("count")) - 1
    BY <1>a, <2>1, PointMoves
  <2>3. Cardinality(AtPoint("discount")') = Cardinality(AtPoint("discount"))
    BY <1>a, <2>1, PointMoves
  <2>4. Active' = Active
    BY <1>b DEF Active
  <2>5. (GaugeCounts <=> gauge = Cardinality(Active) - Cardinality(AtPoint("count"))
                                 + Cardinality(AtPoint("discount")))'
    BY GaugeSets, PTL
  <2>6. QED
    BY <1>a, <2>2, <2>3, <2>4, <2>5, GaugeSets DEF UploadInv
<1>3. QED
  BY <1>a, <1>b, <1>1, <1>2, Returns, SameGrows DEF Finishing, Claims, TypeInv

\* A handler that gives up without touching the gauge.
LEMMA GivesUp ==
    ASSUME UploadInv, NEW p \in Procs, Return(p), pc[p] \notin {"count", "discount"},
           UNCHANGED <<record, ids, gauge, started, published, torn, crashes, object, old, batch>>,
           failures' \in Nat, Grows, kept \subseteq kept',
           dirs' \subseteq dirs, disk' \in [Uploads -> SUBSET Files],
           \A u \in Uploads : disk'[u] \subseteq disk[u] /\ (disk'[u] # {} => u \in dirs'),
           OwnFiles(p),
           \A u \in Uploads : Finishing(p, u) => redo[u] < redo'[u],
           \A u \in Uploads : \A f \in disk'[u] : Claims(p, u, f) => Entry(u, f) \/ Blamed(f)'
    PROVE  UploadInv'
<1>a. TypeInv
  BY DEF UploadInv
<1>1. \A q \in Procs : pc'[q] = IF q = p THEN "idle" ELSE pc[q]
  BY <1>a, ReturnEffect
<1>2. GaugeCounts'
  <2>1. Cardinality(AtPoint("count")') = Cardinality(AtPoint("count"))
    BY <1>1, PointMoves
  <2>2. Cardinality(AtPoint("discount")') = Cardinality(AtPoint("discount"))
    BY <1>1, PointMoves
  <2>3. Active' = Active
    BY DEF Active
  <2>4. (GaugeCounts <=> gauge = Cardinality(Active) - Cardinality(AtPoint("count"))
                                 + Cardinality(AtPoint("discount")))'
    BY GaugeSets, PTL
  <2>5. QED
    BY <2>1, <2>2, <2>3, <2>4, GaugeSets DEF UploadInv
<1>3. QED
  BY <1>a, <1>2, Returns DEF TypeInv

LEMMA TempRefused ==
    ASSUME UploadInv, NEW p \in Procs, pc[p] \in {"temp", "rename", "copy"}, Return(p),
           pc[p] = "rename" => Own(p) = {},
           UNCHANGED <<record, dirs, disk, ids, gauge, object, history, batch, faults>>
    PROVE  UploadInv'
<1>a. /\ UNCHANGED <<record, dirs, disk, ids, gauge, object, published, started, old, torn, batch, crashes, failures, kept, redo>>
      /\ TypeInv
  BY DEF history, faults, UploadInv
<1>1. OwnFiles(p)
  BY <1>a DEF OwnFiles
<1>2. \A u \in Uploads : \A f \in disk'[u] : ~Claims(p, u, f)
  BY <1>a DEF Claims, Own
<1>3. QED
  BY <1>a, <1>1, <1>2, GivesUp, SameGrows DEF TypeInv, Finishing

LEMMA RetireKeeps ==
    ASSUME UploadInv, NEW p \in Procs, PartRetire(p)
    PROVE  UploadInv'
<1>a. /\ UNCHANGED <<record, dirs, ids, gauge, object, published, started, old, torn, batch, crashes, failures, kept, redo>>
      /\ TypeInv /\ pc[p] = "retire" /\ Return(p)
      /\ disk' = [disk EXCEPT ![loc[p].u] = @ \ {Replaced(p)}]
  BY DEF history, faults, UploadInv, PartRetire, At, Replaced
<1>b. loc[p].u \in Uploads /\ disk \in [Uploads -> SUBSET Files]
  BY <1>a, StepTypes DEF TypeInv
<1>c. \A u \in Uploads : disk'[u] = IF u = loc[p].u THEN disk[u] \ {Replaced(p)} ELSE disk[u]
  BY <1>a, <1>b
<1>1. OwnFiles(p)
  BY <1>a, <1>c DEF OwnFiles
<1>2. \A u \in Uploads : \A f \in disk'[u] : ~Claims(p, u, f)
  BY <1>a, <1>c DEF Claims
<1>3. disk' \in [Uploads -> SUBSET Files]
  BY <1>a, <1>b
<1>4. \A u \in Uploads : disk'[u] \subseteq disk[u] /\ (disk'[u] # {} => u \in dirs')
  BY <1>a, <1>c DEF TypeInv
<1>5. QED
  BY <1>a, <1>1, <1>2, <1>3, <1>4, GivesUp, SameGrows DEF TypeInv, Finishing

\* A part that cannot be recorded, or is not wanted any more, is removed.
LEMMA OwnRemoved ==
    ASSUME UploadInv, NEW p \in Procs, Return(p), pc[p] \in {"rename", "read", "write"},
           UNCHANGED <<record, dirs, ids, gauge, object, history, batch, crashes>>,
           failures' \in Nat, Grows, kept \subseteq kept',
           disk' = [disk EXCEPT ![loc[p].u] = @ \ Own(p)]
    PROVE  UploadInv'
<1>a. /\ UNCHANGED <<record, dirs, ids, gauge, object, published, started, old, torn, batch, crashes>>
      /\ TypeInv /\ pc[p] \in Pending
  BY DEF history, UploadInv, Pending
<1>b. loc[p].u \in Uploads /\ disk \in [Uploads -> SUBSET Files]
  BY <1>a, StepTypes DEF TypeInv
<1>c. \A u \in Uploads : disk'[u] = IF u = loc[p].u THEN disk[u] \ Own(p) ELSE disk[u]
  BY <1>a, <1>b
<1>1. OwnFiles(p)
  BY <1>a, <1>c DEF OwnFiles, Own
<1>2. ASSUME NEW u \in Uploads, NEW f \in disk'[u] PROVE ~Claims(p, u, f)
  <2>1. Claims(p, u, f) => u = loc[p].u /\ loc[p].file.id = f.id
    BY DEF Claims
  <2>2. u = loc[p].u => f \in disk[loc[p].u] /\ f \notin Own(p)
    BY <1>b, <1>c, <1>2
  <2>3. QED
    BY <2>1, <2>2 DEF Own
<1>3. disk' \in [Uploads -> SUBSET Files]
  BY <1>a, <1>b
<1>4. \A u \in Uploads : disk'[u] \subseteq disk[u] /\ (disk'[u] # {} => u \in dirs')
  BY <1>a, <1>c DEF TypeInv
<1>5. QED
  BY <1>a, <1>1, <1>2, <1>3, <1>4, GivesUp DEF TypeInv, Finishing

LEMMA FailKeeps ==
    ASSUME UploadInv, NEW p \in Procs, Fail(p)
    PROVE  UploadInv'
<1>a. /\ UNCHANGED <<record, dirs, ids, gauge, object, published, started, old, torn, batch, crashes>>
      /\ TypeInv /\ Return(p) /\ failures' = failures + 1 /\ failures \in Nat
      /\ pc[p] \in {"record", "rename", "read", "write", "copy", "delete", "unlink", "rmdir"}
      /\ disk' = [disk EXCEPT ![loc[p].u] = IF loc[p].op = "part" THEN @ \ Own(p) ELSE @]
      /\ kept' = IF loc[p].op = "part" THEN kept ELSE kept \cup Litter(p)
      /\ UNCHANGED <<record, dirs, ids, gauge, object, history, batch, crashes>>
  BY DEF history, UploadInv, TypeInv, Fail
<1>b. Shape(p) /\ Knows(p) /\ failures' \in Nat /\ redo' = Interrupted({p}) /\ Grows
  <2>1. Shape(p) /\ Knows(p)
    BY DEF UploadInv, Proc
  <2>2. failures' \in Nat /\ redo' = Interrupted({p})
    BY <1>a DEF Fail
  <2>3. QED
    BY <1>a, <2>1, <2>2, InterruptedGrows DEF Grows
<1>c. \A u \in Uploads : Finishing(p, u) => redo[u] < redo'[u]
  BY <1>a, <1>b, InterruptedGrows
<1>1. CASE pc[p] \in {"rename", "read", "write"}
  <2>1. loc[p].op = "part"
    BY <1>1, StepTypes DEF Pending
  <2>2. disk' = [disk EXCEPT ![loc[p].u] = @ \ Own(p)]
    BY <1>a, <2>1
  <2>3. QED
    BY <1>1, <1>a, <1>b, <2>2, OwnRemoved
<1>2. CASE pc[p] \in {"record", "copy", "delete", "unlink", "rmdir"}
  <2>1. loc[p].op # "part" /\ loc[p].u \in Uploads
    BY <1>2, <1>b, StepTypes DEF Shape, Creating, Ending
  <2>2. disk' = disk
    BY <1>a, <2>1 DEF TypeInv
  <2>3. OwnFiles(p)
    BY <2>2 DEF OwnFiles
  <2>4. ASSUME NEW u \in Uploads, NEW f \in disk'[u], Claims(p, u, f) PROVE Blamed(f)'
    <3>1. u = loc[p].u /\ pc[p] = "unlink" /\ loc[p].op = "complete"
      BY <1>2, <2>4 DEF Claims
    <3>2. f \in Litter(p)
      BY <2>2, <3>1 DEF Litter, At
    <3>3. QED
      BY <1>a, <3>1, <3>2 DEF Blamed
  <2>5. QED
    BY <1>2, <1>a, <1>b, <1>c, <2>2, <2>3, <2>4, GivesUp DEF TypeInv
<1>3. QED
  BY <1>a, <1>1, <1>2

\* What a request could not remove is accounted for.
LEMMA RemovalFailsKeeps ==
    ASSUME UploadInv, NEW p \in Procs, RemovalFails(p)
    PROVE  UploadInv'
<1>a. /\ UNCHANGED <<record, dirs, disk, ids, gauge, object, published, started, old, torn, batch, crashes>>
      /\ TypeInv /\ Return(p) /\ failures' = failures + 1 /\ failures \in Nat
      /\ pc[p] \in {"rename", "read", "write", "retire"} /\ kept' = kept \cup Litter(p) /\ redo' = redo
  BY DEF store, history, UploadInv, TypeInv, RemovalFails
<1>b. failures' \in Nat /\ Grows
  BY <1>a, SameGrows
<1>1. OwnFiles(p)
  BY <1>a DEF OwnFiles
<1>2. ASSUME NEW u \in Uploads, NEW f \in disk'[u], Claims(p, u, f) PROVE Blamed(f)'
  <2>a. u = loc[p].u /\ f \in disk[u] /\ f # NoPart
    BY <1>2, <1>a, FileFacts DEF Claims, TypeInv
  <2>1. CASE pc[p] = "retire"
    <3>1. Replaced(p) = f
      BY <1>2, <2>1 DEF Claims
    <3>2. f \in Litter(p)
      BY <2>a, <2>1, <3>1 DEF Litter, Replaced, At
    <3>3. QED
      BY <1>a, <3>2 DEF Blamed
  <2>2. CASE pc[p] # "retire"
    <3>1. pc[p] \in {"rename", "read", "write"} /\ loc[p].file.id = f.id
      BY <1>a, <1>2, <2>2 DEF Claims
    <3>2. f \in Litter(p)
      BY <2>a, <3>1 DEF Litter, Own, At
    <3>3. QED
      BY <1>a, <3>2 DEF Blamed
  <2>3. QED
    BY <2>1, <2>2
<1>3. QED
  BY <1>a, <1>b, <1>1, <1>2, GivesUp DEF TypeInv, Finishing

-----------------------------------------------------------------------------
(***************************************************************************)
(* A handler moves on                                                      *)
(***************************************************************************)
LEMMA GoEffect ==
    ASSUME TypeInv, NEW p \in Procs, NEW to \in Where, Go(p, to)
    PROVE  /\ pc' \in [Procs -> Where]
           /\ \A q \in Procs : pc'[q] = IF q = p THEN to ELSE pc[q]
  BY DEF Go, TypeInv

LEMMA LocEffect ==
    ASSUME TypeInv, NEW p \in Procs, NEW l \in Locals, loc' = [loc EXCEPT ![p] = l]
    PROVE  /\ loc' \in [Procs -> Locals]
           /\ \A q \in Procs : loc'[q] = IF q = p THEN l ELSE loc[q]
  BY DEF TypeInv

LEMMA CreateKeeps ==
    ASSUME UploadInv, NEW p \in Procs, CreateMultipartUpload(p)
    PROVE  UploadInv'
<1>a. TypeInv /\ pc[p] = "idle" /\ Go(p, "record") /\ "record" \in Where
  BY DEF UploadInv, CreateMultipartUpload, At, Where, Creating
<1>b. PICK u \in Uploads \ started :
        /\ started' = started \cup {u} /\ dirs' = dirs \cup {u}
        /\ loc' = [loc EXCEPT ![p] = [Idle EXCEPT !.op = "create", !.u = u]]
  BY DEF CreateMultipartUpload
<1>c. UNCHANGED <<record, disk, ids, gauge, object, published, old, torn, batch, uploadLock, crashes, failures, kept, redo>>
  BY DEF CreateMultipartUpload, locks, faults
<1>d. PICK l \in Locals : l = [Idle EXCEPT !.op = "create", !.u = u] /\ l.op = "create" /\ l.u = u
  <2>1. [Idle EXCEPT !.op = "create", !.u = u] \in Locals
    BY IdleFacts DEF Idle, Locals
  <2>2. QED
    BY <2>1 DEF Idle
<1>e. /\ pc' \in [Procs -> Where] /\ loc' \in [Procs -> Locals]
      /\ \A q \in Procs : pc'[q] = IF q = p THEN "record" ELSE pc[q]
      /\ \A q \in Procs : loc'[q] = IF q = p THEN l ELSE loc[q]
  BY <1>a, <1>b, <1>d, GoEffect, LocEffect
<1>f. Proc(p) /\ Unknown(u) /\ \A q \in Procs : loc[q].u # u
  <2>1. \A q \in Procs : pc[q] = "idle" => loc[q].u = 0
    BY IdleFacts DEF UploadInv, Proc, Shape
  <2>2. QED
    BY <2>1, IdleFacts DEF UploadInv, Proc, Shape
<1>1. TypeInv'
  BY <1>a, <1>b, <1>c, <1>e DEF TypeInv
<1>2. Apart(p)
  <2>1. ids \in Nat /\ ids <= ids
    BY StepTypes
  <2>2. started' \subseteq Uploads
    BY <1>a, <1>b DEF TypeInv
  <2>3. QED
    BY <1>b, <1>c, <1>d, <1>e, <2>1, <2>2 DEF Apart
<1>3. OwnFiles(p) /\ OwnEntry(p) /\ OwnPart(p)
  BY <1>c, <1>e DEF OwnFiles, OwnEntry, OwnPart, Recorded, Pending
<1>4. Shape(p)' /\ Holds(p)' /\ Keeps(p)' /\ Copies(p)'
  BY <1>a, <1>b, <1>c, <1>d, <1>e, <1>f
     DEF Proc, Shape, Holds, Keeps, Copies, Pending, Creating, Ending, Locked
<1>5. Knows(p)'
  <2>1. Unknown(loc[p].u)'
    BY <1>c, <1>d, <1>e, <1>f DEF Unknown
  <2>2. \A q \in Procs : loc'[q].u = loc'[p].u => q = p
    BY <1>d, <1>e, <1>f
  <2>3. QED
    BY <1>e, <2>1, <2>2 DEF Knows
<1>6. OnceInv' /\ LeftInv' /\ GaugeCounts'
  <2>1. failures \in Nat /\ Grows
    BY <1>a, <1>c, SameGrows DEF TypeInv
  <2>2. OnceInv'
    BY <1>a, <1>c, <1>2, <2>1, StepOnce DEF Finishing
  <2>3. \A v \in Uploads : \A f : Entry(v, f) => Entry(v, f)'
    BY <1>c DEF Entry
  <2>4. \A v \in Uploads : \A f : ~Claims(p, v, f)
    BY <1>a DEF Claims
  <2>5. LeftInv'
    BY <1>c, <1>2, <2>1, <2>3, <2>4, StepLeft
  <2>6. GaugeCounts'
    BY <1>a, <1>c, <1>e, <1>2, StepQuiet
  <2>7. QED
    BY <2>2, <2>5, <2>6
<1>7. QED
  BY <1>1, <1>2, <1>3, <1>4, <1>5, <1>6, StepInv DEF Step

\* A step between the points where an upload is recorded, counted or published.
LEMMA QuietStep ==
    ASSUME UploadInv, NEW p \in Procs, Step(p), TypeInv',
           Shape(p)', Holds(p)', Knows(p)', Keeps(p)', Copies(p)',
           UNCHANGED <<gauge, published, crashes, failures, kept, redo>>,
           \A u \in Uploads : record'[u] = NoRecord <=> record[u] = NoRecord,
           pc[p] \notin {"count", "discount", "delete"}, pc'[p] \notin {"count", "discount"},
           \A u \in Uploads : \A f \in disk'[u] :
              f \notin disk[u] \/ Entry(u, f) \/ Claims(p, u, f) =>
                 Entry(u, f)' \/ Claims(p, u, f)' \/ Blamed(f)'
    PROVE  UploadInv'
<1>1. failures \in Nat /\ Grows /\ Apart(p)
  BY SameGrows DEF UploadInv, TypeInv, Step
<1>2. OnceInv'
  BY <1>1, StepOnce DEF Finishing
<1>3. LeftInv'
  BY <1>1, StepLeft
<1>4. GaugeCounts'
  BY <1>1, StepQuiet
<1>5. QED
  BY <1>2, <1>3, <1>4, StepInv

LEMMA UploadPartKeeps ==
    ASSUME UploadInv, NEW p \in Procs, NEW u \in Uploads, NEW n \in Parts, NEW data \in Contents,
           UploadPart(p, u, n, data)
    PROVE  UploadInv'
<1>a. TypeInv /\ pc[p] = "idle" /\ Go(p, "temp") /\ "temp" \in Where /\ record[u] # NoRecord /\ u \in started
  BY DEF UploadInv, TypeInv, UploadPart, At, Where, Pending
<1>b. ids' = ids + 1 /\ ids \in Nat /\ ids' \in 1..MaxFiles /\ ids' \in 0..MaxFiles
  BY <1>a, MultipartAssumption DEF UploadPart, TypeInv
<1>c. UNCHANGED <<record, dirs, disk, gauge, object, published, started, old, torn, batch, uploadLock, crashes, failures, kept, redo>>
  BY DEF UploadPart, store, history, locks, faults
<1>d. PICK file : file = [id |-> ids + 1, path |-> partDataPath(n, ids + 1), data |-> data]
  OBVIOUS
<1>f. file \in Files /\ file.id = ids + 1 /\ file.path = partDataPath(n, file.id)
  BY <1>b, <1>d, PathFacts DEF Files
<1>g. PICK l \in Locals : /\ l = [Idle EXCEPT !.op = "part", !.u = u, !.n = n, !.file = file]
                          /\ l.op = "part" /\ l.u = u /\ l.n = n /\ l.file = file
  <2>1. [Idle EXCEPT !.op = "part", !.u = u, !.n = n, !.file = file] \in Locals
    BY <1>f, IdleFacts DEF Idle, Locals
  <2>2. QED
    BY <2>1 DEF Idle
<1>h. loc' = [loc EXCEPT ![p] = l]
  BY <1>d, <1>g DEF UploadPart
<1>e. /\ pc' \in [Procs -> Where] /\ loc' \in [Procs -> Locals]
      /\ \A q \in Procs : pc'[q] = IF q = p THEN "temp" ELSE pc[q]
      /\ \A q \in Procs : loc'[q] = IF q = p THEN l ELSE loc[q]
  BY <1>a, <1>h, GoEffect, LocEffect
<1>1. TypeInv'
  BY <1>a, <1>b, <1>c, <1>e DEF TypeInv
<1>2. Apart(p)
  <2>1. ids' \in Nat /\ ids <= ids'
    BY <1>b
  <2>2. started \subseteq Uploads
    BY <1>a DEF TypeInv
  <2>3. QED
    BY <1>a, <1>c, <1>e, <1>g, <2>1, <2>2 DEF Apart
<1>3. OwnFiles(p) /\ OwnEntry(p) /\ OwnPart(p)
  BY <1>a, <1>c, <1>e, <1>f, <1>g DEF OwnFiles, OwnEntry, OwnPart, Recorded, Pending
<1>4. Shape(p)'
  <2>1. loc'[p].file.id <= ids'
    <3>1. loc'[p].file.id = ids + 1
      BY <1>e, <1>f, <1>g
    <3>2. ids + 1 <= ids'
      BY <1>b
    <3>3. QED
      BY <3>1, <3>2
  <2>2. QED
    BY <1>a, <1>c, <1>e, <1>f, <1>g, <2>1 DEF Shape, Pending, Creating, Ending
<1>5. Holds(p)' /\ Knows(p)' /\ Keeps(p)' /\ Copies(p)'
  <2>1. Holds(p)
    BY DEF UploadInv, Proc
  <2>2. QED
    BY <1>a, <1>c, <1>e, <2>1 DEF Holds, Knows, Keeps, Copies, Pending, Creating, Ending, Locked
<1>6. \A v \in Uploads : \A f : (Entry(v, f) => Entry(v, f)') /\ ~Claims(p, v, f)
  BY <1>a, <1>c DEF Entry, Claims
<1>7. QED
  BY <1>a, <1>c, <1>e, <1>1, <1>2, <1>3, <1>4, <1>5, <1>6, QuietStep DEF Step

LEMMA PartTempKeeps ==
    ASSUME UploadInv, NEW p \in Procs, PartTemp(p)
    PROVE  UploadInv'
<1>a. TypeInv /\ pc[p] = "temp" /\ "rename" \in Where /\ Proc(p) /\ pc[p] \in Pending
  BY DEF UploadInv, PartTemp, At, Where, Pending
<1>b. loc[p].u \in Uploads /\ loc[p].u \in started /\ loc[p].file \in Files
  BY <1>a, StepTypes
<1>1. CASE Return(p) /\ UNCHANGED disk
  BY <1>1, <1>a, TempRefused DEF PartTemp
<1>2. CASE /\ loc[p].u \in dirs /\ Go(p, "rename") /\ UNCHANGED <<uploadLock, loc>>
           /\ disk' = [disk EXCEPT ![loc[p].u] = @ \cup {Temp(loc[p].file)}]
  <2>a. UNCHANGED <<record, dirs, ids, gauge, object, published, started, old, torn, batch, uploadLock, loc, crashes, failures, kept, redo>>
    BY <1>2 DEF PartTemp, history, faults
  <2>b. pc' \in [Procs -> Where] /\ \A q \in Procs : pc'[q] = IF q = p THEN "rename" ELSE pc[q]
    BY <1>2, <1>a, GoEffect
  <2>c. Temp(loc[p].file) \in Files /\ Temp(loc[p].file).id = loc[p].file.id
    BY <1>b, FileFacts
  <2>d. /\ disk' \in [Uploads -> SUBSET Files]
        /\ \A u \in Uploads : disk'[u] = IF u = loc[p].u THEN disk[u] \cup {Temp(loc[p].file)} ELSE disk[u]
    BY <1>2, <1>a, <1>b, <2>c DEF TypeInv
  <2>1. TypeInv'
    BY <1>2, <1>a, <2>a, <2>b, <2>d DEF TypeInv
  <2>2. Apart(p)
    <3>1. ids \in Nat /\ ids <= ids /\ started \subseteq Uploads
      BY <1>a, StepTypes DEF TypeInv
    <3>2. QED
      BY <2>a, <2>b, <3>1 DEF Apart
  <2>3. OwnFiles(p) /\ OwnEntry(p) /\ OwnPart(p)
    BY <1>a, <2>a, <2>b, <2>d DEF OwnFiles, OwnEntry, OwnPart, Recorded, Pending
  <2>4. Shape(p)' /\ Holds(p)' /\ Knows(p)' /\ Keeps(p)' /\ Copies(p)'
    BY <1>a, <2>a, <2>b DEF Proc, Shape, Holds, Knows, Keeps, Copies, Pending, Creating, Ending, Locked
  <2>5. ASSUME NEW u \in Uploads, NEW f \in disk'[u],
               f \notin disk[u] \/ Entry(u, f) \/ Claims(p, u, f)
        PROVE  Entry(u, f)' \/ Claims(p, u, f)'
    <3>1. Entry(u, f) => Entry(u, f)'
      BY <2>a DEF Entry
    <3>2. ~Claims(p, u, f)
      BY <1>a DEF Claims
    <3>3. f \notin disk[u] => Claims(p, u, f)'
      BY <2>5, <2>a, <2>b, <2>c, <2>d DEF Claims
    <3>4. QED
      BY <2>5, <3>1, <3>2, <3>3
  <2>6. QED
    BY <1>a, <2>a, <2>b, <2>1, <2>2, <2>3, <2>4, <2>5, QuietStep DEF Step
<1>3. QED
  BY <1>1, <1>2 DEF PartTemp, Temp

LEMMA PartRenameKeeps ==
    ASSUME UploadInv, NEW p \in Procs, PartRename(p)
    PROVE  UploadInv'
<1>a. TypeInv /\ pc[p] = "rename" /\ "read" \in Where /\ Proc(p) /\ NamesInv /\ pc[p] \in Pending
  BY DEF UploadInv, PartRename, At, Where, Pending
<1>b. /\ loc[p].u \in Uploads /\ loc[p].u \in started /\ loc[p].file \in Files
      /\ loc[p].file.path = partDataPath(loc[p].n, loc[p].file.id)
  BY <1>a, StepTypes
<1>1. CASE Own(p) = {} /\ Return(p) /\ UNCHANGED disk
  BY <1>1, <1>a, TempRefused DEF PartRename
<1>2. CASE /\ Own(p) # {} /\ Go(p, "read") /\ UNCHANGED <<locks, loc>>
           /\ disk' = [disk EXCEPT ![loc[p].u] =
                         {f \in @ \ Own(p) : f.path # loc[p].file.path} \cup {loc[p].file}]
  <2>a. UNCHANGED <<record, dirs, ids, gauge, object, published, started, old, torn, batch, uploadLock, loc, crashes, failures, kept, redo>>
    BY <1>2 DEF PartRename, history, locks, faults
  <2>b. pc' \in [Procs -> Where] /\ \A q \in Procs : pc'[q] = IF q = p THEN "read" ELSE pc[q]
    BY <1>2, <1>a, GoEffect
  <2>c. \A f \in disk[loc[p].u] : f.path = loc[p].file.path => f.id = loc[p].file.id
    BY <1>a, <1>b, PathFacts DEF NamesInv
  <2>d. /\ disk' \in [Uploads -> SUBSET Files]
        /\ \A u \in Uploads : u # loc[p].u => disk'[u] = disk[u]
        /\ \A f : f \in disk'[loc[p].u] <=>
              f = loc[p].file \/ (f \in disk[loc[p].u] /\ f.id # loc[p].file.id)
    <3>1. disk' \in [Uploads -> SUBSET Files]
      BY <1>2, <1>a, <1>b DEF TypeInv
    <3>2. \A u \in Uploads : disk'[u] = IF u = loc[p].u
              THEN {f \in disk[u] \ Own(p) : f.path # loc[p].file.path} \cup {loc[p].file} ELSE disk[u]
      BY <1>2, <1>b, <1>a DEF TypeInv
    <3>3. QED
      BY <1>b, <2>c, <3>1, <3>2 DEF Own
  <2>1. TypeInv'
    <3>1. loc[p].u \in dirs
      BY <1>2, <1>a, <1>b DEF Own, TypeInv
    <3>2. QED
      BY <1>a, <2>a, <2>b, <2>d, <3>1 DEF TypeInv
  <2>2. Apart(p)
    <3>1. ids \in Nat /\ ids <= ids /\ started \subseteq Uploads
      BY <1>a, StepTypes DEF TypeInv
    <3>2. QED
      BY <2>a, <2>b, <3>1 DEF Apart
  <2>3. OwnFiles(p) /\ OwnEntry(p) /\ OwnPart(p)
    <3>1. OwnFiles(p)
      BY <1>a, <1>b, <2>a, <2>b, <2>d DEF OwnFiles
    <3>2. OwnEntry(p)
      BY <2>a DEF OwnEntry, Recorded
    <3>3. OwnPart(p)
      BY <1>a, <1>b, <2>a, <2>b, <2>d DEF OwnPart
    <3>4. QED
      BY <3>1, <3>2, <3>3
  <2>4. Shape(p)' /\ Holds(p)' /\ Knows(p)' /\ Keeps(p)' /\ Copies(p)'
    <3>1. loc[p].file \in disk'[loc[p].u]
      BY <2>d
    <3>2. QED
      BY <1>a, <2>a, <2>b, <3>1 DEF Proc, Shape, Holds, Knows, Keeps, Copies, Pending, Creating, Ending, Locked
  <2>5. ASSUME NEW u \in Uploads, NEW f \in disk'[u],
               f \notin disk[u] \/ Entry(u, f) \/ Claims(p, u, f)
        PROVE  Entry(u, f)' \/ Claims(p, u, f)'
    <3>1. Entry(u, f) => Entry(u, f)'
      BY <2>a DEF Entry
    <3>2. Claims(p, u, f) => Claims(p, u, f)'
      BY <1>a, <2>a, <2>b DEF Claims
    <3>3. f \notin disk[u] => Claims(p, u, f)'
      BY <2>5, <2>a, <2>b, <2>d DEF Claims
    <3>4. QED
      BY <2>5, <3>1, <3>2, <3>3
  <2>6. QED
    BY <1>a, <2>a, <2>b, <2>1, <2>2, <2>3, <2>4, <2>5, QuietStep DEF Step
<1>3. QED
  BY <1>1, <1>2 DEF PartRename

\* Taking the lock of an upload that has a record.
LEMMA LockEffect ==
    ASSUME UploadInv, NEW p \in Procs, NEW u \in Uploads, lockUpload(p, u)
    PROVE  /\ uploadLock' \in [Uploads -> Procs \cup {NoProc}]
           /\ \A v \in Uploads : uploadLock'[v] = IF v = u THEN p ELSE uploadLock[v]
           /\ \A v \in Uploads, q \in Procs \ {p} : uploadLock[v] = q <=> uploadLock'[v] = q
<1>1. uploadLock \in [Uploads -> Procs \cup {NoProc}] /\ NoProc \notin Procs
  BY MultipartAssumption DEF UploadInv, TypeInv, Procs
<1>2. QED
  BY <1>1 DEF lockUpload

LEMMA PartReadKeeps ==
    ASSUME UploadInv, NEW p \in Procs, PartRead(p)
    PROVE  UploadInv'
<1>a. TypeInv /\ pc[p] = "read" /\ "write" \in Where /\ Proc(p) /\ pc[p] \in Pending
  BY DEF UploadInv, PartRead, At, Where, Pending
<1>b. loc[p].u \in Uploads /\ loc[p].u \in started /\ loc[p].file \in Files /\ loc[p] \in Locals
  BY <1>a, StepTypes
<1>1. CASE Return(p) /\ disk' = [disk EXCEPT ![loc[p].u] = @ \ Own(p)]
  <2>1. UNCHANGED <<record, dirs, ids, gauge, object, history, batch, crashes, failures, kept, redo>>
    BY DEF PartRead, faults
  <2>2. failures' \in Nat /\ Grows
    BY <1>a, <2>1, SameGrows DEF TypeInv
  <2>3. UNCHANGED <<record, dirs, ids, gauge, object, history, batch, crashes>>
    BY <2>1
  <2>4. QED
    BY <1>1, <1>a, <2>1, <2>2, <2>3, OwnRemoved
<1>2. CASE /\ record[loc[p].u] # NoRecord /\ lockUpload(p, loc[p].u) /\ Go(p, "write")
           /\ loc' = [loc EXCEPT ![p].meta = record[loc[p].u]] /\ UNCHANGED disk
  <2>a. UNCHANGED <<record, dirs, disk, ids, gauge, object, published, started, old, torn, batch, crashes, failures, kept, redo>>
    BY <1>2 DEF PartRead, history, faults
  <2>b. pc' \in [Procs -> Where] /\ \A q \in Procs : pc'[q] = IF q = p THEN "write" ELSE pc[q]
    BY <1>2, <1>a, GoEffect
  <2>c. record[loc[p].u] \in Records
    BY <1>2, <1>a, <1>b DEF TypeInv
  <2>d. PICK l \in Locals : /\ l = [loc[p] EXCEPT !.meta = record[loc[p].u]] /\ l.meta = record[loc[p].u]
                            /\ l.op = loc[p].op /\ l.u = loc[p].u /\ l.n = loc[p].n /\ l.file = loc[p].file
    <3>1. [loc[p] EXCEPT !.meta = record[loc[p].u]] \in Locals
      BY <1>b, <2>c DEF Locals
    <3>2. QED
      BY <1>b, <3>1 DEF Locals
  <2>e. loc' \in [Procs -> Locals] /\ \A q \in Procs : loc'[q] = IF q = p THEN l ELSE loc[q]
    <3>1. loc' = [loc EXCEPT ![p] = l]
      BY <1>2, <2>d
    <3>2. QED
      BY <1>a, <3>1, LocEffect
  <2>f. /\ uploadLock' \in [Uploads -> Procs \cup {NoProc}]
        /\ \A v \in Uploads : uploadLock'[v] = IF v = loc[p].u THEN p ELSE uploadLock[v]
        /\ \A v \in Uploads, q \in Procs \ {p} : uploadLock[v] = q <=> uploadLock'[v] = q
    BY <1>2, <1>b, LockEffect
  <2>1. TypeInv'
    BY <1>a, <2>a, <2>b, <2>e, <2>f DEF TypeInv
  <2>2. Apart(p)
    <3>1. ids \in Nat /\ ids <= ids /\ started \subseteq Uploads
      BY <1>a, StepTypes DEF TypeInv
    <3>2. QED
      BY <2>a, <2>b, <2>d, <2>e, <2>f, <3>1 DEF Apart
  <2>3. OwnFiles(p) /\ OwnEntry(p) /\ OwnPart(p)
    BY <1>a, <2>a, <2>b, <2>d, <2>e DEF OwnFiles, OwnEntry, OwnPart, Recorded
  <2>4. Shape(p)' /\ Knows(p)' /\ Keeps(p)' /\ Copies(p)'
    BY <1>a, <2>a, <2>b, <2>d, <2>e DEF Proc, Shape, Knows, Keeps, Copies, Pending, Creating, Ending
  <2>5. Holds(p)'
    <3>1. pc[p] \notin Locked /\ pc'[p] \in Locked
      BY <1>a, <2>b DEF Locked, Ending
    <3>2. \A v \in Uploads : uploadLock[v] # p
      BY <1>a, <3>1 DEF Proc, Holds
    <3>3. QED
      BY <1>b, <2>d, <2>e, <2>f, <3>1, <3>2 DEF Holds
  <2>6. ASSUME NEW u \in Uploads, NEW f \in disk'[u]
        PROVE  (Entry(u, f) => Entry(u, f)') /\ (Claims(p, u, f) => Claims(p, u, f)') /\ f \in disk[u]
    BY <1>a, <2>a, <2>b, <2>d, <2>e DEF Claims, Entry
  <2>7. QED
    BY <1>a, <2>a, <2>b, <2>1, <2>2, <2>3, <2>4, <2>5, <2>6, QuietStep DEF Step
<1>3. QED
  BY <1>1, <1>2 DEF PartRead

LEMMA PartWriteKeeps ==
    ASSUME UploadInv, NEW p \in Procs, PartWrite(p)
    PROVE  UploadInv'
<1>a. TypeInv /\ pc[p] = "write" /\ "retire" \in Where /\ Proc(p) /\ NamesInv /\ pc[p] \in Pending /\ Go(p, "retire")
  BY DEF UploadInv, PartWrite, At, Where, Pending
<1>b. /\ loc[p].u \in Uploads /\ loc[p].u \in started /\ loc[p].file \in Files /\ loc[p] \in Locals
      /\ loc[p].n \in Parts /\ loc[p].meta \in Records /\ loc[p].file # NoPart
  BY <1>a, StepTypes, LocalFields, FileFacts
<1>c. UNCHANGED <<dirs, disk, ids, gauge, object, published, started, old, torn, batch, uploadLock, loc, crashes, failures, kept, redo>>
  BY DEF PartWrite, history, locks, faults
<1>d. pc' \in [Procs -> Where] /\ \A q \in Procs : pc'[q] = IF q = p THEN "retire" ELSE pc[q]
  BY <1>a, GoEffect
<1>e. PICK m \in Records : /\ m = [loc[p].meta EXCEPT ![loc[p].n] = loc[p].file]
                           /\ \A n \in Parts : m[n] = IF n = loc[p].n THEN loc[p].file ELSE loc[p].meta[n]
  <2>1. [loc[p].meta EXCEPT ![loc[p].n] = loc[p].file] \in Records
    BY <1>b DEF Records
  <2>2. \A n \in Parts : [loc[p].meta EXCEPT ![loc[p].n] = loc[p].file][n] =
                            IF n = loc[p].n THEN loc[p].file ELSE loc[p].meta[n]
    BY <1>b DEF Records
  <2>3. QED
    BY <2>1, <2>2
<1>f. /\ record' \in [Uploads -> Records \cup {NoRecord}]
      /\ \A u \in Uploads : record'[u] = IF u = loc[p].u THEN m ELSE record[u]
  <2>1. record' = [record EXCEPT ![loc[p].u] = m]
    BY <1>e DEF PartWrite
  <2>2. QED
    BY <1>a, <2>1 DEF TypeInv
<1>g. record[loc[p].u] = loc[p].meta /\ record[loc[p].u] # NoRecord /\ m # NoRecord /\ uploadLock[loc[p].u] = p
  BY <1>a, <1>b, MultipartAssumption DEF Proc, Knows, Holds, Locked
<1>1. TypeInv'
  BY <1>a, <1>b, <1>c, <1>d, <1>f DEF TypeInv
<1>2. Apart(p)
  <2>1. ids \in Nat /\ ids <= ids /\ started \subseteq Uploads
    BY <1>a, StepTypes DEF TypeInv
  <2>2. QED
    BY <1>c, <1>d, <1>f, <1>g, <2>1 DEF Apart
<1>3. OwnFiles(p) /\ OwnEntry(p) /\ OwnPart(p)
  <2>1. OwnFiles(p) /\ OwnPart(p)
    BY <1>c, <1>d DEF OwnFiles, OwnPart, Pending
  <2>2. OwnEntry(p)
    BY <1>a, <1>b, <1>c, <1>d, <1>e, <1>f, <1>g DEF OwnEntry, Recorded
  <2>3. QED
    BY <2>1, <2>2
<1>4. Shape(p)' /\ Holds(p)' /\ Knows(p)' /\ Copies(p)'
  BY <1>a, <1>b, <1>c, <1>d, <1>e, <1>f DEF Proc, Shape, Holds, Knows, Copies, Pending, Creating, Ending, Locked
<1>5. Keeps(p)'
  <2> SUFFICES ASSUME Replaced(p) # NoPart
               PROVE  /\ Replaced(p).id <= ids
                      /\ \A n \in Parts : Recorded(loc[p].u, n)' => record'[loc[p].u][n] # Replaced(p)
                      /\ \A q \in Procs : pc'[q] \in Pending /\ loc[q].u = loc[p].u =>
                            loc[q].file.id # Replaced(p).id
    BY <1>c, <1>d DEF Keeps, Replaced
  <2>1. Recorded(loc[p].u, loc[p].n) /\ Replaced(p) = record[loc[p].u][loc[p].n]
    BY <1>b, <1>g DEF Recorded, Replaced
  <2>2. Replaced(p).id <= ids /\ Replaced(p).path = partDataPath(loc[p].n, Replaced(p).id)
    BY <1>a, <1>b, <2>1 DEF NamesInv
  <2>3. ASSUME NEW n \in Parts, Recorded(loc[p].u, n)' PROVE record'[loc[p].u][n] # Replaced(p)
    <3>1. CASE n = loc[p].n
      <4>1. record[loc[p].u][loc[p].n].id # loc[p].file.id
        BY <1>a, <1>b, <2>1 DEF Proc, Sends
      <4>2. QED
        BY <1>b, <1>e, <1>f, <2>1, <3>1, <4>1
    <3>2. CASE n # loc[p].n
      <4>1. Recorded(loc[p].u, n) /\ record'[loc[p].u][n] = record[loc[p].u][n]
        BY <1>b, <1>c, <1>e, <1>f, <1>g, <2>3, <3>2 DEF Recorded
      <4>2. record[loc[p].u][n].path = partDataPath(n, record[loc[p].u][n].id)
        BY <1>a, <1>b, <4>1 DEF NamesInv
      <4>3. QED
        BY <2>2, <3>2, <4>1, <4>2, PathFacts
    <3>3. QED
      BY <3>1, <3>2
  <2>4. ASSUME NEW q \in Procs, pc'[q] \in Pending, loc[q].u = loc[p].u
        PROVE  loc[q].file.id # Replaced(p).id
    <3>1. q # p /\ pc[q] \in Pending
      BY <1>d, <2>4 DEF Pending
    <3>2. Sends(q)
      BY DEF UploadInv, Proc
    <3>3. QED
      BY <1>b, <2>1, <2>4, <3>1, <3>2 DEF Sends
  <2>5. QED
    BY <2>2, <2>3, <2>4
<1>6. ASSUME NEW u \in Uploads, NEW f \in disk'[u],
             f \notin disk[u] \/ Entry(u, f) \/ Claims(p, u, f)
      PROVE  Entry(u, f)' \/ Claims(p, u, f)'
  <2>1. f \in disk[u]
    BY <1>c, <1>6
  <2>2. Entry(u, f) => Entry(u, f)' \/ Claims(p, u, f)'
    <3> SUFFICES ASSUME Entry(u, f) PROVE Entry(u, f)' \/ Claims(p, u, f)'
      OBVIOUS
    <3>1. PICK n \in Parts : record[u][n] = f
      BY DEF Entry
    <3>2. CASE u = loc[p].u /\ n = loc[p].n
      BY <1>c, <1>d, <1>g, <3>1, <3>2 DEF Claims, Replaced
    <3>3. CASE ~(u = loc[p].u /\ n = loc[p].n)
      <4>1. record'[u] # NoRecord /\ record'[u][n] = f
        BY <1>e, <1>f, <1>g, <3>1, <3>3 DEF Entry
      <4>2. QED
        BY <4>1 DEF Entry
    <3>4. QED
      BY <3>2, <3>3
  <2>3. Claims(p, u, f) => Entry(u, f)'
    <3> SUFFICES ASSUME Claims(p, u, f) PROVE Entry(u, f)'
      OBVIOUS
    <3>1. u = loc[p].u /\ f.id = loc[p].file.id
      BY <1>a DEF Claims
    <3>2. f = loc[p].file
      BY <1>a, <2>1, <3>1 DEF Proc, Sends
    <3>3. QED
      BY <1>b, <1>e, <1>f, <1>g, <3>1, <3>2, ZenonT(60) DEF Entry
  <2>4. QED
    BY <1>6, <2>1, <2>2, <2>3
<1>7. \A u \in Uploads : record'[u] = NoRecord <=> record[u] = NoRecord
  BY <1>f, <1>g
<1>8. QED
  BY <1>a, <1>c, <1>d, <1>1, <1>2, <1>3, <1>4, <1>5, <1>6, <1>7, QuietStep DEF Step

LEMMA CompleteKeeps ==
    ASSUME UploadInv, NEW p \in Procs, NEW u \in Uploads, NEW chosen \in SUBSET Parts,
           CompleteMultipartUpload(p, u, chosen)
    PROVE  UploadInv'
<1>a. /\ TypeInv /\ pc[p] = "idle" /\ "copy" \in Where /\ Proc(p) /\ Go(p, "copy") /\ lockUpload(p, u)
      /\ record[u] # NoRecord /\ \A n \in chosen : record[u][n] # NoPart
  BY DEF UploadInv, CompleteMultipartUpload, At, Where, Ending
<1>b. u \in started /\ record[u] \in Records
  BY <1>a DEF TypeInv
<1>c. UNCHANGED <<record, dirs, disk, ids, gauge, object, published, started, old, torn, batch, crashes, failures, kept, redo>>
  BY DEF CompleteMultipartUpload, store, history, faults
<1>d. PICK l \in Locals : /\ l = [Idle EXCEPT !.op = "complete", !.u = u, !.meta = record[u], !.todo = chosen]
                          /\ l.op = "complete" /\ l.u = u /\ l.meta = record[u] /\ l.todo = chosen /\ l.out = None
  <2>1. [Idle EXCEPT !.op = "complete", !.u = u, !.meta = record[u], !.todo = chosen] \in Locals
    BY <1>b, IdleFacts DEF Idle, Locals
  <2>2. QED
    BY <2>1 DEF Idle
<1>e. /\ pc' \in [Procs -> Where] /\ loc' \in [Procs -> Locals]
      /\ \A q \in Procs : pc'[q] = IF q = p THEN "copy" ELSE pc[q]
      /\ \A q \in Procs : loc'[q] = IF q = p THEN l ELSE loc[q]
  <2>1. loc' = [loc EXCEPT ![p] = l]
    BY <1>d DEF CompleteMultipartUpload
  <2>2. QED
    BY <1>a, <2>1, GoEffect, LocEffect
<1>f. /\ uploadLock' \in [Uploads -> Procs \cup {NoProc}]
      /\ \A v \in Uploads : uploadLock'[v] = IF v = u THEN p ELSE uploadLock[v]
      /\ \A v \in Uploads, q \in Procs \ {p} : uploadLock[v] = q <=> uploadLock'[v] = q
  BY <1>a, LockEffect
<1>1. TypeInv'
  BY <1>a, <1>c, <1>e, <1>f DEF TypeInv
<1>2. Apart(p)
  <2>1. ids \in Nat /\ ids <= ids /\ started \subseteq Uploads
    BY <1>a, StepTypes DEF TypeInv
  <2>2. QED
    BY <1>a, <1>c, <1>d, <1>e, <1>f, <2>1 DEF Apart
<1>3. OwnFiles(p) /\ OwnEntry(p) /\ OwnPart(p)
  BY <1>c, <1>e DEF OwnFiles, OwnEntry, OwnPart, Recorded, Pending
<1>4. Shape(p)' /\ Knows(p)' /\ Keeps(p)'
  BY <1>a, <1>b, <1>c, <1>d, <1>e DEF Shape, Knows, Keeps, Pending, Creating, Ending
<1>5. Holds(p)'
  <2>1. pc[p] \notin Locked /\ pc'[p] \in Locked
    BY <1>a, <1>e DEF Locked, Ending
  <2>2. \A v \in Uploads : uploadLock[v] # p
    BY <1>a, <2>1 DEF Proc, Holds
  <2>3. QED
    BY <1>d, <1>e, <1>f, <2>1, <2>2 DEF Holds
<1>6. Copies(p)'
  BY <1>a, <1>d, <1>e, IdleFacts, ZenonT(60) DEF Copies
<1>7. \A v \in Uploads : \A f : (Entry(v, f) => Entry(v, f)') /\ ~Claims(p, v, f)
  BY <1>a, <1>c DEF Entry, Claims
<1>8. QED
  BY <1>a, <1>c, <1>e, <1>1, <1>2, <1>3, <1>4, <1>5, <1>6, <1>7, QuietStep DEF Step

LEMMA CopyKeeps ==
    ASSUME UploadInv, NEW p \in Procs, CopyPart(p)
    PROVE  UploadInv'
<1>a. TypeInv /\ pc[p] = "copy" /\ Proc(p) /\ NamesInv
  BY DEF UploadInv, CopyPart, At
<1>b. /\ loc[p].u \in Uploads /\ loc[p].u \in started /\ loc[p] \in Locals
      /\ loc[p].todo \subseteq Parts /\ loc[p].meta \in Records /\ loc[p].out \in [Parts -> Contents \cup {NoPart}]
  BY <1>a, StepTypes, LocalFields
<1>1. CASE Return(p)
  BY <1>1, <1>a, TempRefused DEF CopyPart, store
<1>2. ASSUME NEW n \in loc[p].todo, NEW f \in Found(p, n), UNCHANGED <<pc, locks>>,
             loc' = [loc EXCEPT ![p].out[n] = f.data, ![p].todo = @ \ {n}]
      PROVE  UploadInv'
  <2>a. UNCHANGED <<record, dirs, disk, ids, gauge, object, published, started, old, torn, batch, uploadLock, pc, crashes, failures, kept, redo>>
    BY <1>2 DEF CopyPart, store, history, locks, faults
  <2>b. n \in Parts /\ f \in disk[loc[p].u] /\ f.path = loc[p].meta[n].path /\ f.data \in Contents
    BY <1>a, <1>b, <1>2, StepTypes, FileFacts DEF Found
  <2>c. PICK l \in Locals :
          /\ l = [loc[p] EXCEPT !.out[n] = f.data, !.todo = @ \ {n}]
          /\ l.op = loc[p].op /\ l.u = loc[p].u /\ l.n = loc[p].n /\ l.file = loc[p].file /\ l.meta = loc[p].meta
          /\ l.todo = loc[p].todo \ {n} /\ l.out = [loc[p].out EXCEPT ![n] = f.data]
    <3>1. [loc[p].out EXCEPT ![n] = f.data] \in [Parts -> Contents \cup {NoPart}]
      BY <1>b, <2>b
    <3>2. [loc[p] EXCEPT !.out[n] = f.data, !.todo = @ \ {n}] \in Locals
      BY <1>b, <3>1 DEF Locals
    <3>3. QED
      BY <1>b, <3>2 DEF Locals
  <2>d. loc' \in [Procs -> Locals] /\ \A q \in Procs : loc'[q] = IF q = p THEN l ELSE loc[q]
    <3>1. loc' = [loc EXCEPT ![p] = l]
      BY <1>2, <1>a, <2>c DEF TypeInv
    <3>2. QED
      BY <1>a, <3>1, LocEffect
  <2>1. TypeInv'
    BY <1>a, <2>a, <2>d DEF TypeInv
  <2>2. Apart(p)
    <3>1. ids \in Nat /\ ids <= ids /\ started \subseteq Uploads
      BY <1>a, StepTypes DEF TypeInv
    <3>2. QED
      BY <2>a, <2>c, <2>d, <3>1 DEF Apart
  <2>3. OwnFiles(p) /\ OwnEntry(p) /\ OwnPart(p)
    BY <1>a, <2>a DEF OwnFiles, OwnEntry, OwnPart, Recorded, Pending
  <2>4. Shape(p)' /\ Holds(p)' /\ Keeps(p)'
    BY <1>a, <2>a, <2>c, <2>d DEF Proc, Shape, Holds, Keeps, Pending, Creating, Ending, Locked
  <2>5. Knows(p)'
    BY <1>a, <2>a, <2>c, <2>d DEF Proc, Knows
  <2>6. f.data = loc[p].meta[n].data
    <3>1. loc[p].meta[n] # NoPart /\ record[loc[p].u] = loc[p].meta
      BY <1>a, <1>2 DEF Proc, Copies, Knows
    <3>2. Recorded(loc[p].u, n)
      BY <1>b, <3>1, MultipartAssumption DEF Recorded
    <3>3. /\ loc[p].meta[n].path = partDataPath(n, loc[p].meta[n].id)
          /\ \A g \in disk[loc[p].u] : g.id = loc[p].meta[n].id => g = loc[p].meta[n]
      BY <1>a, <1>b, <2>b, <3>1, <3>2 DEF NamesInv
    <3>4. f.id = loc[p].meta[n].id
      BY <1>a, <1>b, <2>b, <3>3, PathFacts DEF NamesInv
    <3>5. QED
      BY <2>b, <3>3, <3>4
  <2>7. Copies(p)'
    <3>1. \A k \in loc'[p].todo : loc'[p].meta[k] # NoPart
      BY <1>a, <2>c, <2>d DEF Proc, Copies
    <3>2. \A k \in Parts : loc'[p].out[k] = IF k = n THEN f.data ELSE loc[p].out[k]
      <4>1. \A k \in Parts : [loc[p].out EXCEPT ![n] = f.data][k] = IF k = n THEN f.data ELSE loc[p].out[k]
        BY <1>b
      <4>2. loc'[p].out = [loc[p].out EXCEPT ![n] = f.data]
        BY <2>c, <2>d
      <4>3. QED
        BY <4>1, <4>2
    <3>3. \A k \in Parts : loc'[p].out[k] # NoPart => loc'[p].out[k] = loc'[p].meta[k].data
      <4>1. loc'[p].meta = loc[p].meta
        BY <2>c, <2>d
      <4>2. \A k \in Parts : loc[p].out[k] # NoPart => loc[p].out[k] = loc[p].meta[k].data
        BY <1>a DEF Proc, Copies
      <4>3. QED
        BY <2>6, <3>2, <4>1, <4>2
    <3>4. QED
      BY <3>1, <3>3 DEF Copies
  <2>8. \A v \in Uploads : \A g : (Entry(v, g) => Entry(v, g)') /\ ~Claims(p, v, g)
    BY <1>a, <2>a DEF Entry, Claims
  <2>9. QED
    BY <1>a, <2>a, <2>1, <2>2, <2>3, <2>4, <2>5, <2>7, <2>8, QuietStep DEF Step
<1>3. QED
  BY <1>1, <1>2 DEF CopyPart

LEMMA CreateRecordKeeps ==
    ASSUME UploadInv, NEW p \in Procs, CreateRecord(p)
    PROVE  UploadInv'
<1>a. TypeInv /\ pc[p] = "record" /\ "count" \in Where /\ Proc(p) /\ Go(p, "count")
  BY DEF UploadInv, CreateRecord, At, Where, Creating
<1>b. loc[p].u \in Uploads /\ loc[p].u \in started /\ Unknown(loc[p].u)
  BY <1>a, StepTypes DEF Proc, Knows
<1>c. UNCHANGED <<dirs, disk, ids, gauge, object, published, started, old, torn, batch, uploadLock, loc, crashes, failures, kept, redo>>
  BY DEF CreateRecord, history, locks, faults
<1>d. pc' \in [Procs -> Where] /\ \A q \in Procs : pc'[q] = IF q = p THEN "count" ELSE pc[q]
  BY <1>a, GoEffect
<1>e. /\ record' \in [Uploads -> Records \cup {NoRecord}] /\ None # NoRecord
      /\ \A u \in Uploads : record'[u] = IF u = loc[p].u THEN None ELSE record[u]
  BY <1>a, IdleFacts, MultipartAssumption DEF CreateRecord, TypeInv
<1>1. TypeInv'
  BY <1>a, <1>b, <1>c, <1>d, <1>e DEF TypeInv
<1>2. Apart(p)
  <2>1. ids \in Nat /\ ids <= ids /\ started \subseteq Uploads
    BY <1>a, StepTypes DEF TypeInv
  <2>2. QED
    BY <1>a, <1>c, <1>d, <1>e, <2>1 DEF Apart
<1>3. OwnFiles(p) /\ OwnEntry(p) /\ OwnPart(p)
  BY <1>c, <1>d, <1>e, IdleFacts DEF OwnFiles, OwnEntry, OwnPart, Recorded, Pending
<1>4. Shape(p)' /\ Holds(p)' /\ Knows(p)' /\ Keeps(p)' /\ Copies(p)'
  BY <1>a, <1>c, <1>d DEF Proc, Shape, Holds, Knows, Keeps, Copies, Pending, Creating, Ending, Locked
<1>f. failures \in Nat /\ Grows
  BY <1>a, <1>c, SameGrows DEF TypeInv
<1>5. OnceInv'
  BY <1>a, <1>b, <1>c, <1>e, <1>f, <1>2, StepOnce DEF Finishing, Unknown
<1>6. LeftInv'
  <2>1. \A u \in Uploads : \A f : (Entry(u, f) => Entry(u, f)') /\ ~Claims(p, u, f)
    BY <1>a, <1>b, <1>e DEF Entry, Claims, Unknown
  <2>2. QED
    BY <1>c, <1>f, <1>2, <2>1, StepLeft
<1>7. GaugeCounts'
  <2>1. Cardinality(AtPoint("count")') = Cardinality(AtPoint("count")) + 1
    BY <1>a, <1>d, PointMoves
  <2>2. Cardinality(AtPoint("discount")') = Cardinality(AtPoint("discount"))
    BY <1>a, <1>d, PointMoves
  <2>3. Cardinality(Active') = Cardinality(Active) + 1
    <3>1. Active' = Active \cup {loc[p].u} /\ loc[p].u \notin Active
      BY <1>b, <1>e DEF Active, Unknown
    <3>2. QED
      BY <3>1, GaugeSets, FS_AddElement
  <2>4. (GaugeCounts <=> gauge = Cardinality(Active) - Cardinality(AtPoint("count"))
                                 + Cardinality(AtPoint("discount")))'
    BY GaugeSets, PTL
  <2>5. gauge' = gauge /\ gauge \in Int
    BY <1>a, <1>c DEF TypeInv
  <2>6. QED
    BY <2>1, <2>2, <2>3, <2>4, <2>5, GaugeSets DEF UploadInv
<1>8. QED
  BY <1>1, <1>2, <1>3, <1>4, <1>5, <1>6, <1>7, StepInv DEF Step

LEMMA PublishKeeps ==
    ASSUME UploadInv, NEW p \in Procs, Publish(p)
    PROVE  UploadInv'
<1>a. TypeInv /\ pc[p] = "copy" /\ "delete" \in Where /\ Proc(p) /\ Go(p, "delete") /\ object' = loc[p].out
  BY DEF UploadInv, Publish, At, Where, Ending
<1>b. /\ loc[p].u \in Uploads /\ loc[p].u \in started /\ uploadLock[loc[p].u] = p
      /\ loc[p].meta \in Records /\ loc[p].out \in [Parts -> Contents \cup {NoPart}]
      /\ record[loc[p].u] = loc[p].meta /\ record[loc[p].u] # NoRecord /\ loc[p].op = "complete"
  BY <1>a, StepTypes, LocalFields, MultipartAssumption DEF Proc, Knows, Holds, Shape, Locked, Ending
<1>c. UNCHANGED <<record, dirs, disk, ids, gauge, started, old, torn, batch, uploadLock, loc, crashes, failures, kept, redo>>
  BY DEF Publish, store, locks, faults
<1>d. pc' \in [Procs -> Where] /\ \A q \in Procs : pc'[q] = IF q = p THEN "delete" ELSE pc[q]
  BY <1>a, GoEffect
<1>e. /\ published' \in [Uploads -> Nat]
      /\ \A u \in Uploads : published'[u] = IF u = loc[p].u THEN published[u] + 1 ELSE published[u]
  <2>1. published \in [Uploads -> Nat] /\ published[loc[p].u] + 1 \in Nat
    BY <1>a, <1>b DEF TypeInv
  <2>2. published' = [published EXCEPT ![loc[p].u] = published[loc[p].u] + 1]
    BY DEF Publish
  <2>3. QED
    BY <2>1, <2>2
<1>1. TypeInv'
  BY <1>a, <1>b, <1>c, <1>d, <1>e DEF TypeInv
<1>2. Apart(p)
  <2>1. ids \in Nat /\ ids <= ids /\ started \subseteq Uploads
    BY <1>a, StepTypes DEF TypeInv
  <2>2. QED
    BY <1>b, <1>c, <1>d, <1>e, <2>1 DEF Apart
<1>3. OwnFiles(p) /\ OwnEntry(p) /\ OwnPart(p)
  BY <1>c, <1>d DEF OwnFiles, OwnEntry, OwnPart, Recorded, Pending
<1>4. Shape(p)' /\ Holds(p)' /\ Knows(p)' /\ Keeps(p)' /\ Copies(p)'
  BY <1>a, <1>b, <1>c, <1>d DEF Proc, Shape, Holds, Knows, Keeps, Copies, Pending, Creating, Ending, Locked
<1>f. failures \in Nat /\ Grows /\ crashes \in Nat
  BY <1>a, <1>c, SameGrows DEF TypeInv
<1>5. OnceInv'
  <2> SUFFICES ASSUME NEW u \in Uploads
               PROVE  /\ published'[u] <= 1 + redo[u]
                      /\ published'[u] > redo[u] =>
                            record[u] = NoRecord \/ \E q \in Procs : Finishing(q, u)'
    BY <1>c DEF OnceInv
  <2>a. published[u] \in Nat /\ redo[u] \in Nat
    BY <1>a DEF TypeInv
  <2>b. /\ published[u] <= 1 + redo[u]
        /\ published[u] > redo[u] =>
              record[u] = NoRecord \/ \E q \in Procs : Finishing(q, u)
    BY DEF UploadInv, OnceInv
  <2>1. CASE u = loc[p].u
    <3>1. \A q \in Procs : ~Finishing(q, u)
      BY <1>a, <1>b, <2>1 DEF Finishing, UploadInv, Proc, Holds, Locked, Ending
    <3>2. ~(published[u] > redo[u])
      BY <1>b, <2>b, <2>1, <3>1
    <3>3. published[u] + 1 <= 1 + redo[u]
      BY <1>f, <2>a, <3>2
    <3>4. Finishing(p, u)'
      BY <1>b, <1>c, <1>d, <2>1 DEF Finishing
    <3>5. QED
      BY <1>e, <2>1, <3>3, <3>4
  <2>2. CASE u # loc[p].u
    <3>1. published'[u] = published[u]
      BY <1>e, <2>2
    <3>2. ASSUME NEW q \in Procs, Finishing(q, u) PROVE Finishing(q, u)'
      BY <1>a, <1>c, <1>d, <3>2 DEF Finishing
    <3>3. QED
      BY <2>b, <3>1, <3>2
  <2>3. QED
    BY <2>1, <2>2
<1>6. LeftInv'
  <2>1. \A u \in Uploads : \A f : (Entry(u, f) => Entry(u, f)') /\ ~Claims(p, u, f)
    BY <1>a, <1>c DEF Entry, Claims
  <2>2. QED
    BY <1>c, <1>f, <1>2, <2>1, StepLeft
<1>7. GaugeCounts'
  BY <1>a, <1>c, <1>d, <1>2, StepQuiet
<1>8. QED
  BY <1>1, <1>2, <1>3, <1>4, <1>5, <1>6, <1>7, StepInv DEF Step

LEMMA AbortKeeps ==
    ASSUME UploadInv, NEW p \in Procs, NEW u \in Uploads, Abort(p, u), batch' \subseteq batch,
           UNCHANGED <<store, ids, gauge, object, published, started, old, faults>>
    PROVE  UploadInv'
<1>a. /\ TypeInv /\ pc[p] = "idle" /\ "unlink" \in Where /\ Proc(p) /\ Go(p, "unlink") /\ lockUpload(p, u)
      /\ record[u] # NoRecord /\ torn' = torn \cup {u}
  BY DEF UploadInv, Abort, At, Where, Ending
<1>b. u \in started
  BY <1>a DEF TypeInv
<1>c. UNCHANGED <<record, dirs, disk, ids, gauge, object, published, started, old, crashes, failures, kept, redo>>
  BY DEF store, faults
<1>d. PICK l \in Locals : l = [Idle EXCEPT !.op = "abort", !.u = u] /\ l.op = "abort" /\ l.u = u
  <2>1. [Idle EXCEPT !.op = "abort", !.u = u] \in Locals
    BY IdleFacts DEF Idle, Locals
  <2>2. QED
    BY <2>1 DEF Idle
<1>e. /\ pc' \in [Procs -> Where] /\ loc' \in [Procs -> Locals]
      /\ \A q \in Procs : pc'[q] = IF q = p THEN "unlink" ELSE pc[q]
      /\ \A q \in Procs : loc'[q] = IF q = p THEN l ELSE loc[q]
  <2>1. loc' = [loc EXCEPT ![p] = l]
    BY <1>d DEF Abort
  <2>2. QED
    BY <1>a, <2>1, GoEffect, LocEffect
<1>f. /\ uploadLock' \in [Uploads -> Procs \cup {NoProc}]
      /\ \A v \in Uploads : uploadLock'[v] = IF v = u THEN p ELSE uploadLock[v]
      /\ \A v \in Uploads, q \in Procs \ {p} : uploadLock[v] = q <=> uploadLock'[v] = q
  BY <1>a, LockEffect
<1>1. TypeInv'
  BY <1>a, <1>b, <1>c, <1>e, <1>f DEF TypeInv
<1>2. Apart(p)
  <2>1. ids \in Nat /\ ids <= ids /\ started \subseteq Uploads
    BY <1>a, StepTypes DEF TypeInv
  <2>2. QED
    BY <1>a, <1>c, <1>d, <1>e, <1>f, <2>1 DEF Apart
<1>3. OwnFiles(p) /\ OwnEntry(p) /\ OwnPart(p)
  BY <1>c, <1>e DEF OwnFiles, OwnEntry, OwnPart, Recorded, Pending
<1>4. Shape(p)' /\ Knows(p)' /\ Keeps(p)' /\ Copies(p)'
  BY <1>a, <1>b, <1>c, <1>d, <1>e DEF Shape, Knows, Keeps, Copies, Pending, Creating, Ending
<1>5. Holds(p)'
  <2>1. pc[p] \notin Locked /\ pc'[p] \in Locked
    BY <1>a, <1>e DEF Locked, Ending
  <2>2. \A v \in Uploads : uploadLock[v] # p
    BY <1>a, <2>1 DEF Proc, Holds
  <2>3. QED
    BY <1>d, <1>e, <1>f, <2>1, <2>2 DEF Holds
<1>6. \A v \in Uploads : \A f : (Entry(v, f) => Entry(v, f)') /\ ~Claims(p, v, f)
  BY <1>a, <1>c DEF Entry, Claims
<1>7. QED
  BY <1>a, <1>c, <1>e, <1>1, <1>2, <1>3, <1>4, <1>5, <1>6, QuietStep DEF Step

LEMMA DeleteKeeps ==
    ASSUME UploadInv, NEW p \in Procs, DeleteMultipartMeta(p)
    PROVE  UploadInv'
<1>a. TypeInv /\ pc[p] = "delete" /\ "discount" \in Where /\ Proc(p) /\ Go(p, "discount")
  BY DEF UploadInv, DeleteMultipartMeta, At, Where, Ending
<1>b. /\ loc[p].u \in Uploads /\ loc[p].u \in started /\ uploadLock[loc[p].u] = p
      /\ record[loc[p].u] # NoRecord /\ loc[p].op \in {"complete", "abort"}
      /\ loc[p].op = "abort" => loc[p].u \in torn /\ loc[p].u \notin dirs
  BY <1>a, StepTypes DEF Proc, Knows, Holds, Shape, Locked, Ending
<1>c. UNCHANGED <<dirs, disk, ids, gauge, object, published, started, old, torn, batch, uploadLock, loc, crashes, failures, kept, redo>>
  BY DEF DeleteMultipartMeta, history, locks, faults
<1>d. pc' \in [Procs -> Where] /\ \A q \in Procs : pc'[q] = IF q = p THEN "discount" ELSE pc[q]
  BY <1>a, GoEffect
<1>e. /\ record' \in [Uploads -> Records \cup {NoRecord}]
      /\ \A u \in Uploads : record'[u] = IF u = loc[p].u THEN NoRecord ELSE record[u]
  BY <1>a DEF DeleteMultipartMeta, TypeInv
<1>1. TypeInv'
  BY <1>a, <1>b, <1>c, <1>d, <1>e DEF TypeInv
<1>2. Apart(p)
  <2>1. ids \in Nat /\ ids <= ids /\ started \subseteq Uploads
    BY <1>a, StepTypes DEF TypeInv
  <2>2. QED
    BY <1>b, <1>c, <1>d, <1>e, <2>1 DEF Apart
<1>3. OwnFiles(p) /\ OwnEntry(p) /\ OwnPart(p)
  BY <1>c, <1>d, <1>e DEF OwnFiles, OwnEntry, OwnPart, Recorded, Pending
<1>4. Shape(p)' /\ Holds(p)' /\ Keeps(p)' /\ Copies(p)'
  BY <1>a, <1>c, <1>d DEF Proc, Shape, Holds, Keeps, Copies, Pending, Creating, Ending, Locked
<1>5. Knows(p)'
  BY <1>b, <1>c, <1>d, <1>e DEF Knows
<1>f. failures \in Nat /\ Grows
  BY <1>a, <1>c, SameGrows DEF TypeInv
<1>6. OnceInv'
  BY <1>a, <1>b, <1>c, <1>e, <1>f, <1>2, StepOnce DEF Finishing
<1>7. LeftInv'
  <2>1. ASSUME NEW u \in Uploads, NEW f \in disk[u], Entry(u, f) PROVE Entry(u, f)' \/ Claims(p, u, f)'
    <3>1. CASE u = loc[p].u
      <4>1. u \in dirs
        BY <1>a, <2>1 DEF TypeInv
      <4>2. QED
        BY <1>b, <1>c, <1>d, <3>1, <4>1 DEF Claims
    <3>2. CASE u # loc[p].u
      BY <1>e, <2>1, <3>2 DEF Entry
    <3>3. QED
      BY <3>1, <3>2
  <2>2. \A u \in Uploads : \A f : ~Claims(p, u, f)
    BY <1>a DEF Claims
  <2>3. QED
    BY <1>c, <1>f, <1>2, <2>1, <2>2, StepLeft
<1>8. GaugeCounts'
  <2>1. Cardinality(AtPoint("count")') = Cardinality(AtPoint("count"))
    BY <1>a, <1>d, PointMoves
  <2>2. Cardinality(AtPoint("discount")') = Cardinality(AtPoint("discount")) + 1
    BY <1>a, <1>d, PointMoves
  <2>3. Cardinality(Active') = Cardinality(Active) - 1
    <3>1. Active' = Active \ {loc[p].u} /\ loc[p].u \in Active
      BY <1>b, <1>e DEF Active
    <3>2. QED
      BY <3>1, GaugeSets, FS_RemoveElement
  <2>4. (GaugeCounts <=> gauge = Cardinality(Active) - Cardinality(AtPoint("count"))
                                 + Cardinality(AtPoint("discount")))'
    BY GaugeSets, PTL
  <2>5. gauge' = gauge /\ gauge \in Int
    BY <1>a, <1>c DEF TypeInv
  <2>6. QED
    BY <2>1, <2>2, <2>3, <2>4, <2>5, GaugeSets DEF UploadInv
<1>9. QED
  BY <1>1, <1>2, <1>3, <1>4, <1>5, <1>6, <1>7, <1>8, StepInv DEF Step

LEMMA DecKeeps ==
    ASSUME UploadInv, NEW p \in Procs, DecActiveMultiparts(p)
    PROVE  UploadInv'
<1>a. /\ TypeInv /\ pc[p] = "discount" /\ "unlink" \in Where /\ Proc(p)
      /\ gauge' = gauge - 1 /\ gauge \in Int /\ torn' = torn \cup {loc[p].u}
  BY DEF UploadInv, TypeInv, DecActiveMultiparts, At, Where, Ending
<1>b. /\ loc[p].u \in Uploads /\ loc[p].u \in started /\ uploadLock[loc[p].u] = p /\ record[loc[p].u] = NoRecord
  BY <1>a, StepTypes DEF Proc, Knows, Holds, Locked, Ending
<1>c. UNCHANGED <<record, dirs, disk, ids, object, published, started, old, batch, crashes, failures, kept, redo>>
  BY DEF DecActiveMultiparts, store, faults
<1>f. failures \in Nat /\ Grows
  BY <1>a, <1>c, SameGrows DEF TypeInv
<1>g. ASSUME \A q \in Procs \ {p} : pc'[q] = pc[q], pc'[p] \in {"idle", "unlink"} PROVE GaugeCounts'
  <2>1. Cardinality(AtPoint("count")') = Cardinality(AtPoint("count"))
    BY <1>a, <1>g, PointMoves
  <2>2. Cardinality(AtPoint("discount")') = Cardinality(AtPoint("discount")) - 1
    BY <1>a, <1>g, PointMoves
  <2>3. Active' = Active
    BY <1>c DEF Active
  <2>4. (GaugeCounts <=> gauge = Cardinality(Active) - Cardinality(AtPoint("count"))
                                 + Cardinality(AtPoint("discount")))'
    BY GaugeSets, PTL
  <2>5. QED
    BY <1>a, <2>1, <2>2, <2>3, <2>4, GaugeSets DEF UploadInv
<1>o. OwnFiles(p)
  BY <1>c DEF OwnFiles
<1>1. CASE loc[p].op = "complete" /\ Go(p, "unlink") /\ UNCHANGED <<locks, loc>>
  <2>a. UNCHANGED <<uploadLock, loc>>
    BY <1>1 DEF locks
  <2>b. pc' \in [Procs -> Where] /\ \A q \in Procs : pc'[q] = IF q = p THEN "unlink" ELSE pc[q]
    BY <1>1, <1>a, GoEffect
  <2>1. TypeInv'
    BY <1>a, <1>b, <1>c, <2>a, <2>b DEF TypeInv
  <2>2. Apart(p)
    <3>1. ids \in Nat /\ ids <= ids /\ started \subseteq Uploads
      BY <1>a, StepTypes DEF TypeInv
    <3>2. QED
      BY <1>a, <1>b, <1>c, <2>a, <2>b, <3>1 DEF Apart
  <2>3. OwnEntry(p) /\ OwnPart(p)
    BY <1>c, <2>b DEF OwnEntry, OwnPart, Recorded, Pending
  <2>4. Shape(p)' /\ Holds(p)' /\ Keeps(p)' /\ Copies(p)'
    BY <1>a, <1>c, <2>a, <2>b DEF Proc, Shape, Holds, Keeps, Copies, Pending, Creating, Ending, Locked
  <2>5. Knows(p)'
    BY <1>1, <1>a, <1>b, <1>c, <2>a, <2>b DEF Knows
  <2>6. OnceInv'
    BY <1>a, <1>c, <1>f, <2>2, StepOnce DEF Finishing
  <2>7. \A u \in Uploads : \A f : (Entry(u, f) => Entry(u, f)') /\ (Claims(p, u, f) => Claims(p, u, f)')
    BY <1>a, <1>c, <2>a, <2>b DEF Entry, Claims
  <2>8. LeftInv'
    BY <1>c, <1>f, <2>2, <2>7, StepLeft
  <2>9. GaugeCounts'
    BY <1>g, <2>b
  <2>10. QED
    BY <1>o, <2>1, <2>2, <2>3, <2>4, <2>5, <2>6, <2>8, <2>9, StepInv DEF Step
<1>2. CASE loc[p].op = "abort" /\ Return(p)
  <2>1. \A q \in Procs : pc'[q] = IF q = p THEN "idle" ELSE pc[q]
    BY <1>2, <1>a, ReturnEffect
  <2>2. GaugeCounts'
    BY <1>g, <2>1
  <2>3. \A u \in Uploads : \A f : ~Claims(p, u, f) /\ ~Finishing(p, u)
    BY <1>2, <1>a DEF Claims, Finishing
  <2>4. gauge' \in Int
    BY <1>a
  <2>5. disk' \in [Uploads -> SUBSET Files]
    BY <1>a, <1>c DEF TypeInv
  <2>6. \A u \in Uploads : disk'[u] \subseteq disk[u] /\ (disk'[u] # {} => u \in dirs')
    BY <1>a, <1>c DEF TypeInv
  <2>7. QED
    BY <1>2, <1>a, <1>b, <1>c, <1>f, <1>o, <2>2, <2>3, <2>4, <2>5, <2>6, Returns
<1>3. QED
  BY <1>1, <1>2 DEF DecActiveMultiparts

LEMMA UnlinkKeeps ==
    ASSUME UploadInv, NEW p \in Procs, UnlinkFiles(p)
    PROVE  UploadInv'
<1>a. TypeInv /\ pc[p] = "unlink" /\ "rmdir" \in Where /\ "unlink" \in Where /\ Proc(p)
  BY DEF UploadInv, UnlinkFiles, At, Where, Ending
<1>b. loc[p].u \in Uploads /\ loc[p].u \in started /\ loc[p].u \in torn
  BY <1>a, StepTypes DEF Proc, Knows
<1>c. UNCHANGED <<record, dirs, ids, gauge, object, published, started, old, torn, batch, uploadLock, loc, crashes, failures, kept, redo>>
  BY DEF UnlinkFiles, history, locks, faults
<1>d. PICK to \in {"unlink", "rmdir"} :
        /\ pc' \in [Procs -> Where] /\ \A q \in Procs : pc'[q] = IF q = p THEN to ELSE pc[q]
        /\ disk' \in [Uploads -> SUBSET Files]
        /\ \A u \in Uploads : disk'[u] \subseteq disk[u] /\ (u # loc[p].u => disk'[u] = disk[u])
        /\ to = "rmdir" => disk'[loc[p].u] = {}
  <2>1. ASSUME NEW f \in disk[loc[p].u], disk' = [disk EXCEPT ![loc[p].u] = @ \ {f}], UNCHANGED pc
        PROVE  /\ pc' \in [Procs -> Where] /\ \A q \in Procs : pc'[q] = IF q = p THEN "unlink" ELSE pc[q]
               /\ disk' \in [Uploads -> SUBSET Files]
               /\ \A u \in Uploads : disk'[u] \subseteq disk[u] /\ (u # loc[p].u => disk'[u] = disk[u])
    BY <1>a, <2>1 DEF TypeInv
  <2>2. ASSUME disk[loc[p].u] = {}, Go(p, "rmdir"), UNCHANGED disk
        PROVE  /\ pc' \in [Procs -> Where] /\ \A q \in Procs : pc'[q] = IF q = p THEN "rmdir" ELSE pc[q]
               /\ disk' \in [Uploads -> SUBSET Files]
               /\ \A u \in Uploads : disk'[u] \subseteq disk[u] /\ (u # loc[p].u => disk'[u] = disk[u])
               /\ disk'[loc[p].u] = {}
    BY <1>a, <2>2, GoEffect DEF TypeInv
  <2>3. QED
    BY <2>1, <2>2 DEF UnlinkFiles
<1>1. TypeInv'
  BY <1>a, <1>c, <1>d DEF TypeInv
<1>2. Apart(p)
  <2>1. ids \in Nat /\ ids <= ids /\ started \subseteq Uploads
    BY <1>a, StepTypes DEF TypeInv
  <2>2. QED
    BY <1>b, <1>c, <1>d, <2>1 DEF Apart
<1>3. OwnFiles(p) /\ OwnEntry(p) /\ OwnPart(p)
  BY <1>b, <1>c, <1>d DEF OwnFiles, OwnEntry, OwnPart, Recorded, Pending
<1>4. Shape(p)' /\ Holds(p)' /\ Knows(p)' /\ Keeps(p)' /\ Copies(p)'
  BY <1>a, <1>c, <1>d DEF Proc, Shape, Holds, Knows, Keeps, Copies, Pending, Creating, Ending, Locked
<1>5. ASSUME NEW u \in Uploads, NEW f \in disk'[u]
      PROVE  f \in disk[u] /\ (Entry(u, f) => Entry(u, f)') /\ (Claims(p, u, f) => Claims(p, u, f)')
  BY <1>a, <1>b, <1>c, <1>d, <1>5 DEF Entry, Claims
<1>6. QED
  BY <1>a, <1>c, <1>d, <1>1, <1>2, <1>3, <1>4, <1>5, QuietStep DEF Step

LEMMA RemoveDirKeeps ==
    ASSUME UploadInv, NEW p \in Procs, RemoveDir(p)
    PROVE  UploadInv'
<1>a. TypeInv /\ pc[p] = "rmdir" /\ "delete" \in Where /\ Proc(p)
  BY DEF UploadInv, RemoveDir, At, Where, Ending
<1>b. loc[p].u \in Uploads /\ loc[p].u \in started /\ loc[p].u \in torn
  BY <1>a, StepTypes DEF Proc, Knows
<1>c. /\ UNCHANGED <<record, disk, ids, gauge, object, published, started, old, torn, batch, crashes, failures, kept, redo>>
      /\ failures \in Nat /\ Grows
  BY <1>a, SameGrows DEF RemoveDir, history, faults, TypeInv
<1>d. /\ dirs' = dirs \/ (disk[loc[p].u] = {} /\ dirs' = dirs \ {loc[p].u})
      /\ \/ Return(p)
         \/ /\ loc[p].op = "abort" /\ dirs' = dirs \ {loc[p].u}
            /\ Go(p, "delete") /\ UNCHANGED <<locks, loc>>
  BY DEF RemoveDir
<1>e. \A u \in Uploads : disk'[u] = disk[u] /\ (disk'[u] # {} => u \in dirs')
  BY <1>a, <1>c, <1>d DEF TypeInv
<1>o. OwnFiles(p)
  BY <1>c DEF OwnFiles
<1>1. CASE Return(p)
  <2>1. \A u \in Uploads : \A f : ~Claims(p, u, f) /\ ~Finishing(p, u)
    BY <1>a DEF Claims, Finishing
  <2>2. dirs' \subseteq dirs /\ disk' \in [Uploads -> SUBSET Files]
    BY <1>a, <1>c, <1>d DEF TypeInv
  <2>3. QED
    BY <1>1, <1>a, <1>c, <1>e, <1>o, <2>1, <2>2, GivesUp
<1>2. CASE /\ loc[p].op = "abort" /\ dirs' = dirs \ {loc[p].u}
           /\ Go(p, "delete") /\ UNCHANGED <<locks, loc>>
  <2>a. UNCHANGED <<uploadLock, loc>>
    BY <1>2 DEF locks
  <2>b. pc' \in [Procs -> Where] /\ \A q \in Procs : pc'[q] = IF q = p THEN "delete" ELSE pc[q]
    BY <1>2, <1>a, GoEffect
  <2>1. TypeInv'
    BY <1>2, <1>a, <1>c, <1>e, <2>a, <2>b DEF TypeInv
  <2>2. Apart(p)
    <3>1. ids \in Nat /\ ids <= ids /\ started \subseteq Uploads
      BY <1>a, StepTypes DEF TypeInv
    <3>2. QED
      BY <1>2, <1>c, <2>a, <2>b, <3>1 DEF Apart
  <2>3. OwnEntry(p) /\ OwnPart(p)
    BY <1>c, <2>b DEF OwnEntry, OwnPart, Recorded, Pending
  <2>4. Shape(p)' /\ Holds(p)' /\ Keeps(p)' /\ Copies(p)'
    BY <1>a, <1>c, <2>a, <2>b DEF Proc, Shape, Holds, Keeps, Copies, Pending, Creating, Ending, Locked
  <2>5. Knows(p)'
    BY <1>2, <1>a, <1>b, <1>c, <2>a, <2>b DEF Proc, Knows
  <2>6. \A u \in Uploads : \A f : (Entry(u, f) => Entry(u, f)') /\ ~Claims(p, u, f)
    BY <1>a, <1>c DEF Entry, Claims
  <2>7. QED
    BY <1>a, <1>c, <1>o, <2>b, <2>1, <2>2, <2>3, <2>4, <2>5, <2>6, QuietStep DEF Step
<1>3. QED
  BY <1>1, <1>2, <1>d

-----------------------------------------------------------------------------
(***************************************************************************)
(* Time, the sweep's list, and a crash                                     *)
(***************************************************************************)
LEMMA Bystander ==
    ASSUME UploadInv,
           UNCHANGED <<record, dirs, disk, ids, gauge, object, published, started, torn, uploadLock,
                       pc, loc, crashes, failures, kept, redo>>,
           old' \subseteq Uploads, batch' \subseteq old'
    PROVE  UploadInv'
<1>1. TypeInv'
  BY DEF UploadInv, TypeInv
<1>2. ASSUME NEW p \in Procs PROVE Proc(p)'
  <2>1. Proc(p)
    BY DEF UploadInv
  <2>2. Shape(p)' /\ Holds(p)' /\ Copies(p)'
    BY <2>1 DEF Proc, Shape, Holds, Copies
  <2>3. Knows(p)'
    BY <2>1 DEF Proc, Knows, Unknown
  <2>4. Sends(p)' /\ Keeps(p)'
    BY <2>1 DEF Proc, Sends, Keeps, Recorded, Replaced
  <2>5. QED
    BY <2>2, <2>3, <2>4 DEF Proc
<1>3. (\A u \in Uploads \ started : Unknown(u))' /\ NamesInv' /\ PartsOnDisk'
  BY DEF UploadInv, Unknown, NamesInv, Recorded, PartsOnDisk
<1>4. OnceInv' /\ GaugeCounts'
  BY DEF UploadInv, OnceInv, Finishing, GaugeCounts, At
<1>5. LeftInv'
  <2>1. SUFFICES ASSUME crashes' = 0, NEW u \in Uploads, NEW f \in disk'[u]
                 PROVE  Entry(u, f)' \/ (\E p \in Procs : Claims(p, u, f)') \/ Blamed(f)'
    BY DEF LeftInv
  <2>2. crashes = 0 /\ f \in disk[u]
    BY <2>1
  <2>3. CASE Entry(u, f)
    BY <2>3 DEF Entry
  <2>4. ASSUME NEW p \in Procs, Claims(p, u, f) PROVE Claims(p, u, f)'
    BY <2>4 DEF Claims, Replaced
  <2>5. CASE Blamed(f)
    BY <2>5 DEF Blamed
  <2>6. QED
    BY <2>2, <2>3, <2>4, <2>5 DEF UploadInv, LeftInv
<1>6. QED
  BY <1>1, <1>2, <1>3, <1>4, <1>5 DEF UploadInv

LEMMA CrashKeeps == UploadInv /\ Crash => UploadInv'
<1> SUFFICES ASSUME UploadInv, Crash PROVE UploadInv'
  OBVIOUS
<1>a. /\ UNCHANGED <<record, dirs, ids, object, published, started, old, torn, failures, kept>>
      /\ crashes' = crashes + 1 /\ crashes \in Nat /\ failures \in Nat /\ batch' = {} /\ TypeInv
  BY DEF Crash, history, UploadInv, TypeInv
<1>b. \A p \in Procs : pc'[p] = "idle" /\ loc'[p] = Idle
  BY DEF Crash
<1>c. \A u \in Uploads : uploadLock'[u] = NoProc /\ disk'[u] = {f \in disk[u] : f.path # <<>>}
  BY DEF Crash
<1>d. NoProc \notin Procs
  BY MultipartAssumption DEF Procs
<1>e. redo' = Interrupted(Procs) /\ Grows
  <2>1. redo' = Interrupted(Procs)
    BY DEF Crash
  <2>2. QED
    BY <1>a, <2>1, InterruptedGrows DEF Grows
<1>1. gauge' = Cardinality(Active) /\ gauge' \in Int
  <2>1. gauge' = Cardinality(Active)
    BY DEF Crash, Active
  <2>2. QED
    BY <2>1, GaugeSets
<1>2. TypeInv'
  <2>1. pc' \in [Procs -> Where] /\ loc' \in [Procs -> Locals] /\ uploadLock' \in [Uploads -> Procs \cup {NoProc}]
    BY IdleFacts DEF Crash, Where
  <2>2. disk' \in [Uploads -> SUBSET Files]
    BY <1>a DEF Crash, TypeInv
  <2>3. crashes' \in Nat
    BY <1>a
  <2>4. \A u \in Uploads : disk'[u] # {} => u \in dirs
    BY <1>a, <1>c DEF TypeInv
  <2>5. QED
    BY <1>a, <1>e, <1>1, <2>1, <2>2, <2>3, <2>4 DEF TypeInv, Grows
<1>3. ASSUME NEW p \in Procs PROVE Proc(p)'
  BY <1>b, <1>c, <1>d
     DEF Proc, Shape, Holds, Knows, Sends, Keeps, Copies, Pending, Creating, Ending, Locked
<1>4. \A u \in Uploads \ started' : Unknown(u)'
  BY <1>a DEF UploadInv, Unknown
<1>5. NamesInv'
  BY <1>a, <1>c DEF UploadInv, NamesInv, Recorded
<1>6. PartsOnDisk'
  <2> SUFFICES ASSUME NEW u \in Uploads, u \notin torn, record[u] # NoRecord, NEW n \in Parts,
                      record[u][n] # NoPart
               PROVE  record[u][n] \in disk'[u]
    BY <1>a DEF PartsOnDisk
  <2>1. record[u][n] \in disk[u]
    BY DEF UploadInv, PartsOnDisk
  <2>2. record[u][n].path # <<>>
    BY PathFacts DEF UploadInv, NamesInv, Recorded
  <2>3. QED
    BY <1>c, <2>1, <2>2
<1>7. OnceInv'
  <2> SUFFICES ASSUME NEW u \in Uploads
               PROVE  published[u] <= 1 + redo'[u] /\ (published[u] > redo'[u] => record[u] = NoRecord)
    BY <1>a DEF OnceInv
  <2>1. /\ published[u] \in Nat /\ redo[u] \in Nat /\ redo'[u] \in Nat
        /\ published[u] <= 1 + redo[u] /\ redo[u] <= redo'[u]
    BY <1>a, <1>e DEF UploadInv, OnceInv, TypeInv, Grows
  <2>2. CASE \E p \in Procs : Finishing(p, u)
    <3>1. redo[u] < redo'[u]
      BY <1>a, <1>e, <2>2, InterruptedGrows
    <3>2. QED
      BY <2>1, <3>1
  <2>3. CASE \A p \in Procs : ~Finishing(p, u)
    <3>1. published[u] > redo[u] => record[u] = NoRecord
      BY <2>3 DEF UploadInv, OnceInv
    <3>2. QED
      BY <2>1, <3>1
  <2>4. QED
    BY <2>2, <2>3
<1>8. LeftInv'
  BY <1>a DEF LeftInv
<1>9. GaugeCounts'
  <2>1. AtPoint("count")' = {} /\ AtPoint("discount")' = {} /\ Active' = Active
    BY <1>a, <1>b DEF AtPoint, At, Active
  <2>2. Cardinality(AtPoint("count")') = 0 /\ Cardinality(AtPoint("discount")') = 0
    BY <2>1, FS_EmptySet
  <2>3. Cardinality(Active') = Cardinality(Active) /\ Cardinality(Active) \in Nat
    BY <2>1, GaugeSets
  <2>4. gauge' = Cardinality(Active') - Cardinality(AtPoint("count")') + Cardinality(AtPoint("discount")')
    BY <1>1, <2>2, <2>3
  <2>5. (GaugeCounts <=> gauge = Cardinality(Active) - Cardinality(AtPoint("count")) + Cardinality(AtPoint("discount")))'
    BY GaugeSets, PTL
  <2>6. QED
    BY <2>4, <2>5
<1>10. QED
  BY <1>2, <1>3, <1>4, <1>5, <1>6, <1>7, <1>8, <1>9 DEF UploadInv

-----------------------------------------------------------------------------
LEMMA ContinueKeeps ==
    ASSUME UploadInv, NEW p \in Procs, Continue(p)
    PROVE  UploadInv'
  BY CreateRecordKeeps, IncKeeps, PartTempKeeps, PartRenameKeeps, PartReadKeeps, PartWriteKeeps,
     RetireKeeps, CopyKeeps, PublishKeeps, DeleteKeeps, DecKeeps, UnlinkKeeps, RemoveDirKeeps
     DEF Continue

LEMMA RequestKeeps ==
    ASSUME UploadInv, NEW p \in Procs, Request(p)
    PROVE  UploadInv'
<1>1. ASSUME NEW u \in Uploads, AbortMultipartUpload(p, u) PROVE UploadInv'
  BY <1>1, AbortKeeps DEF AbortMultipartUpload
<1>2. QED
  BY <1>1, CreateKeeps, UploadPartKeeps, CompleteKeeps DEF Request

LEMMA SweepKeeps == UploadInv /\ Sweep => UploadInv'
<1> SUFFICES ASSUME UploadInv, Sweep PROVE UploadInv'
  OBVIOUS
<1>a. TypeInv /\ Sweeper \in Procs /\ batch \subseteq old /\ old \subseteq Uploads
  BY DEF UploadInv, TypeInv, Procs
<1>1. CASE Scan
  <2>1. Expired \subseteq old
    BY DEF Expired
  <2>2. QED
    BY <1>1, <1>a, <2>1, Bystander DEF Scan, store, history, locks, faults
<1>2. CASE SweepAbort
  <2>1. PICK u \in batch : /\ batch' = batch \ {u}
                           /\ Abort(Sweeper, u) \/ UNCHANGED <<locks, pc, loc, torn>>
    BY <1>2 DEF SweepAbort
  <2>2. UNCHANGED <<store, ids, gauge, object, published, started, old, faults>>
    BY <1>2 DEF SweepAbort
  <2>3. CASE Abort(Sweeper, u)
    BY <1>a, <2>1, <2>2, <2>3, AbortKeeps
  <2>4. CASE UNCHANGED <<locks, pc, loc, torn>>
    BY <1>a, <2>1, <2>2, <2>4, Bystander DEF store, locks, faults
  <2>5. QED
    BY <2>1, <2>3, <2>4
<1>3. QED
  BY <1>1, <1>2 DEF Sweep

LEMMA UploadNext == UploadInv /\ [Next]_vars => UploadInv'
<1> SUFFICES ASSUME UploadInv, [Next]_vars PROVE UploadInv'
  OBVIOUS
<1>a. old \subseteq Uploads /\ batch \subseteq old
  BY DEF UploadInv, TypeInv
<1>1. ASSUME NEW u \in Uploads, Age(u) PROVE UploadInv'
  BY <1>1, <1>a, Bystander DEF Age, store, locks, faults
<1>2. CASE UNCHANGED vars
  BY <1>2, <1>a, Bystander DEF vars, store, history, locks, faults
<1>3. ASSUME NEW p \in Clients, Request(p) PROVE UploadInv'
  BY <1>3, RequestKeeps DEF Procs
<1>4. QED
  BY <1>1, <1>2, <1>3, ContinueKeeps, FailKeeps, RemovalFailsKeeps, SweepKeeps, CrashKeeps DEF Next

LEMMA UploadAlways == Spec => []UploadInv
  BY UploadInit, UploadNext, PTL DEF Spec

-----------------------------------------------------------------------------
(***************************************************************************)
(* Results                                                                 *)
(***************************************************************************)

\* Every variable keeps its type, and an upload that CreateMultipartUpload
\* never started has no record, no directory and no files.
THEOREM TypeCorrect == Spec => []TypeOK
<1>1. UploadInv => TypeOK
  <2> SUFFICES ASSUME UploadInv PROVE TypeOK
    OBVIOUS
  <2>1. \A p \in Procs : loc[p].todo \subseteq Parts
    BY StepTypes, LocalFields
  <2>2. QED
    BY <2>1 DEF UploadInv, TypeInv, TypeOK
<1>2. QED
  BY <1>1, UploadAlways, PTL

\* Until someone aborts the upload, every part in its record has its file:
\* UploadPart retires the replaced file only behind the record, whatever
\* fails or crashes in between.
THEOREM PartsKept == Spec => []PartsOnDisk
<1>1. UploadInv => PartsOnDisk
  BY DEF UploadInv
<1>2. QED
  BY <1>1, UploadAlways, PTL

\* CompleteMultipartUpload publishes the data its part list stands for, even
\* while the same part numbers are uploaded again.
THEOREM CompletesAsRequested == Spec => CompletedAsRequested
<1>1. ASSUME UploadInv, NEW p \in Procs, Publish(p), NEW n \in Parts, object'[n] # NoPart
      PROVE  object'[n] = loc[p].meta[n].data
  BY <1>1 DEF UploadInv, Proc, Copies, Publish, At
<1>2. UploadInv /\ [Next]_vars =>
        [\A p \in Procs : Publish(p) =>
           \A n \in Parts : object'[n] # NoPart => object'[n] = loc[p].meta[n].data]_vars
  BY <1>1
<1>3. QED
  BY <1>2, UploadAlways, PTL DEF Spec, CompletedAsRequested

\* UploadPart rewrites the whole record, and still no entry of another part is
\* lost and no upload that ended comes back.
THEOREM EntriesKept == Spec => NoPartLost
<1>1. ASSUME UploadInv, [Next]_vars, NEW u \in Uploads
      PROVE  /\ record[u] = NoRecord /\ record'[u] # NoRecord => u \notin torn /\ published[u] = 0
             /\ record[u] # NoRecord /\ record'[u] # NoRecord =>
                  \A n \in Parts : record[u][n] # NoPart => record'[u][n] # NoPart
  <2>a. TypeInv
    BY <1>1 DEF UploadInv
  <2>1. CASE record' = record
    BY <2>1
  <2>2. ASSUME NEW p \in Procs, CreateRecord(p) \/ PartWrite(p) \/ DeleteMultipartMeta(p)
        PROVE  /\ record[u] = NoRecord /\ record'[u] # NoRecord => u \notin torn /\ published[u] = 0
               /\ record[u] # NoRecord /\ record'[u] # NoRecord =>
                    \A n \in Parts : record[u][n] # NoPart => record'[u][n] # NoPart
    <3>a. /\ Proc(p) /\ record \in [Uploads -> Records \cup {NoRecord}] /\ loc[p] \in Locals
          /\ loc[p].meta \in Records
      BY <1>1, <2>a, LocalFields DEF UploadInv, TypeInv
    <3>1. CASE CreateRecord(p)
      <4>1. pc[p] = "record" /\ record' = [record EXCEPT ![loc[p].u] = None]
        BY <3>1 DEF CreateRecord, At
      <4>2. u = loc[p].u => Unknown(u)
        BY <3>a, <4>1 DEF Proc, Knows
      <4>3. QED
        BY <3>a, <4>1, <4>2 DEF Unknown
    <3>2. CASE PartWrite(p)
      <4>1. /\ pc[p] = "write"
            /\ record' = [record EXCEPT ![loc[p].u] = [loc[p].meta EXCEPT ![loc[p].n] = loc[p].file]]
        BY <3>2 DEF PartWrite, At
      <4>2. record[loc[p].u] = loc[p].meta /\ loc[p].meta # NoRecord /\ loc[p].file # NoPart /\ loc[p].n \in Parts
        BY <1>1, <3>a, <4>1, MultipartAssumption, StepTypes, FileFacts DEF Proc, Knows, Pending
      <4>3. QED
        BY <3>a, <4>1, <4>2 DEF Records
    <3>3. CASE DeleteMultipartMeta(p)
      BY <3>a, <3>3 DEF DeleteMultipartMeta
    <3>4. QED
      BY <2>2, <3>1, <3>2, <3>3
  <2>3. record' = record \/ \E p \in Procs : CreateRecord(p) \/ PartWrite(p) \/ DeleteMultipartMeta(p)
    <3>1. ASSUME NEW p \in Procs, Continue(p)
          PROVE  record' = record \/ CreateRecord(p) \/ PartWrite(p) \/ DeleteMultipartMeta(p)
      BY <3>1 DEF Continue, IncActiveMultiparts, PartTemp, PartRename, PartRead, PartRetire, CopyPart,
         Publish, DecActiveMultiparts, UnlinkFiles, RemoveDir, store
    <3>2. ASSUME NEW p \in Clients, Request(p) PROVE record' = record
      BY <3>2 DEF Request, CreateMultipartUpload, UploadPart, CompleteMultipartUpload,
         AbortMultipartUpload, store
    <3>3. ASSUME NEW p \in Procs, Fail(p) \/ RemovalFails(p) PROVE record' = record
      BY <3>3 DEF Fail, RemovalFails, store
    <3>4. ASSUME NEW v \in Uploads, Age(v) PROVE record' = record
      BY <3>4 DEF Age, store
    <3>5. Sweep \/ Crash \/ UNCHANGED vars => record' = record
      BY DEF Sweep, Scan, SweepAbort, Crash, vars, store
    <3>6. QED
      BY <1>1, <3>1, <3>2, <3>3, <3>4, <3>5 DEF Next
  <2>4. QED
    BY <2>1, <2>2, <2>3
<1>2. UploadInv /\ [Next]_vars =>
        [\A u \in Uploads :
           /\ record[u] = NoRecord /\ record'[u] # NoRecord => u \notin torn /\ published[u] = 0
           /\ record[u] # NoRecord /\ record'[u] # NoRecord =>
                \A n \in Parts : record[u][n] # NoPart => record'[u][n] # NoPart]_vars
  BY <1>1
<1>3. QED
  BY <1>2, UploadAlways, PTL DEF Spec, NoPartLost

\* Retries of CompleteMultipartUpload publish one object, but for one more each
\* time the record outlived the publication: its deletion failed, or the process
\* died between the two (multipart.go:586-592).
THEOREM CompletesOnce == Spec => []PublishedOnce
<1>1. UploadInv => PublishedOnce
  BY DEF UploadInv, OnceInv, PublishedOnce
<1>2. QED
  BY <1>1, UploadAlways, PTL

\* Without a crash, files that nothing refers to are gone when the requests
\* have ended, also parts that came in while the directory was removed, unless
\* it is the removal of that very file that failed (multipart.go:295).
THEOREM LeavesNothing == Spec => []NothingLeftBehind
<1>1. UploadInv => NothingLeftBehind
  <2> SUFFICES ASSUME UploadInv, crashes = 0, \A p \in Procs : At(p, "idle"),
                      NEW u \in Uploads, NEW f \in disk[u]
               PROVE  \/ record[u] # NoRecord /\ \E n \in Parts : record[u][n] = f
                      \/ f \in kept
    BY DEF NothingLeftBehind
  <2>1. \A p \in Procs : ~Claims(p, u, f)
    BY DEF At, Claims
  <2>2. QED
    BY <2>1 DEF UploadInv, LeftInv, Entry, Blamed
<1>2. QED
  BY <1>1, UploadAlways, PTL

\* ActiveMultiparts counts the recorded uploads, up to the requests between
\* the database and the gauge, restarts included.
THEOREM GaugeIsRight == Spec => []GaugeCounts
<1>1. UploadInv => GaugeCounts
  BY DEF UploadInv
<1>2. QED
  BY <1>1, UploadAlways, PTL

=============================================================================

--------------------------- MODULE BucketContract ---------------------------
(***************************************************************************)
(* What a bucket promises its clients, with no files, transactions, locks  *)
(* or crashes: a map from keys to versions, each with a body, one of them  *)
(* current, changed by operations that take effect at once or not at all.  *)
(* An object written while the bucket was unversioned is version "null",   *)
(* as in S3, whether or not the store has recorded it as such yet.         *)
(***************************************************************************)
CONSTANTS
    Keys,           \* object keys
    Uuids,          \* version IDs of writes to a bucket with versioning on
    NullVersion,    \* version ID of every other write
    Bodies,         \* what a client can store
    Marker,         \* the body of a delete marker
    Nothing         \* no body: the version does not exist; no current version

VARIABLES
    versioning,     \* "", "Enabled" or "Suspended"
    body,           \* body[k][v]
    current         \* current[k]: the version a plain GET serves

vars == <<versioning, body, current>>

VersionIDs == Uuids \cup {NullVersion}

Stored(k) == {v \in VersionIDs : body[k][v] # Nothing}

\* A bucket may have been filled by an earlier release.
Init ==
    /\ versioning \in {"", "Enabled"}
    /\ body \in [Keys -> [VersionIDs -> Bodies \cup {Nothing}]]
    /\ current \in [Keys -> VersionIDs \cup {Nothing}]
    /\ \A k \in Keys : IF Stored(k) = {} THEN current[k] = Nothing
                       ELSE current[k] \in Stored(k)

\* Body x becomes version v of k, and current.
Write(k, v, x) ==
    /\ body' = [body EXCEPT ![k][v] = x]
    /\ current' = [current EXCEPT ![k] = v]
    /\ UNCHANGED versioning

\* With versioning on every PUT adds a version; otherwise it replaces "null".
Put(k) ==
    \E v \in VersionIDs, x \in Bodies :
        /\ IF versioning = "Enabled" THEN v \in Uuids /\ v \notin Stored(k)
           ELSE v = NullVersion
        /\ Write(k, v, x)

\* A plain DELETE of a versioned key adds a marker, as a version of its own
\* or in place of "null".
Mark(k) ==
    \E v \in VersionIDs :
        /\ v \in Uuids => v \notin Stored(k)
        /\ Write(k, v, Marker)

\* A plain DELETE in a bucket never versioned removes the object, and can
\* only ever remove the null version.
Remove(k) ==
    /\ Stored(k) = {NullVersion}
    /\ body' = [body EXCEPT ![k][NullVersion] = Nothing]
    /\ current' = [current EXCEPT ![k] = Nothing]
    /\ UNCHANGED versioning

\* A DELETE that names a version removes that one; if it was current, another
\* version becomes current, if there is one.
DeleteVersion(k, v) ==
    /\ v \in Stored(k)
    /\ body' = [body EXCEPT ![k][v] = Nothing]
    /\ \/ current[k] # v /\ UNCHANGED current
       \/ current[k] = v /\ \E w \in Stored(k) \ {v} : current' = [current EXCEPT ![k] = w]
       \/ Stored(k) = {v} /\ current' = [current EXCEPT ![k] = Nothing]
    /\ UNCHANGED versioning

\* Versioning can be switched on and suspended, never removed.
SetVersioning ==
    /\ versioning' \in {"Enabled", "Suspended"}
    /\ UNCHANGED <<body, current>>

Next ==
    \/ \E k \in Keys : Put(k) \/ Mark(k) \/ Remove(k)
    \/ \E k \in Keys, v \in VersionIDs : DeleteVersion(k, v)
    \/ SetVersioning

Spec == Init /\ [][Next]_vars
=============================================================================

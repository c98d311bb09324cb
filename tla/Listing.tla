------------------------------ MODULE Listing ------------------------------
(***************************************************************************)
(* Listings and their pages (internal/storage: ListObjects in              *)
(* filesystem.go and listing.go; internal/s3api/list_handlers.go): a       *)
(* client asks for page after page, sending back the marker each page ends *)
(* with, while other clients change the bucket between two pages.  A page  *)
(* is one database transaction, which sees the bucket as it was at its     *)
(* begin; its cursor loop takes one step per iteration, and no change      *)
(* comes between them.                                                     *)
(*                                                                         *)
(* A key is a sequence of characters, or of bytes that are none, in the    *)
(* order of their encoding, which is the order of the database.  Records   *)
(* are kept as JSON and answers are sent as XML, which replace what they   *)
(* cannot express.  A latest pointer and the version records that sort     *)
(* right after it are one entry here: a key's history, newest first.  An   *)
(* upload is an element of such a history too, and a part, numbered from 0 *)
(* here, one of the history of one key.                                    *)
(*                                                                         *)
(* Definitions marked FAULTY are variants no action uses: each is a bug    *)
(* this code could plausibly have, kept to show which property notices it. *)
(***************************************************************************)
EXTENDS Integers, Sequences, FiniteSets, SequencesExt

CONSTANTS
    Keys,         \* object keys
    Histories,    \* what may be stored under a key
    NewVersion,   \* version IDs from here on are those handed out later
    UploadIDs,    \* IDs of later uploads, or numbers of later parts
    AskPrefixes,  \* prefixes asked for
    Starts,       \* markers a client may begin with
    UploadStarts, \* the same for uploads: a key and an upload ID
    APIs,         \* kinds of listing
    MaxPage,      \* MaxPageSize, also the default page size
    MaxWrites,    \* bound on changes between pages
    Slash,        \* the delimiter
    Utf8,         \* what JSON can express: the characters
    Chars,        \* what XML can express: all characters but control characters
    Substitute    \* U+FFFD, what both write for the others

Nul == 0          \* sorts before every byte of a key
Top == 255        \* 0xff, which sorts after every character
NoKey == <<>>
NoID == -1        \* no version-id-marker
PrefixID == -2    \* marks a common prefix
NullID == -3      \* "null", what clients are told of an unversioned object

Version == [id : Nat, del : BOOLEAN]
Distinct(h) == \A i, j \in DOMAIN h : h[i].id = h[j].id => i = j

ASSUME ListingAssumption ==
    /\ Slash \in (Nul + 1)..(Top - 1) /\ MaxPage \in Nat \ {0} /\ MaxWrites \in Nat
    /\ Keys # {} /\ \A k \in Keys : k # NoKey /\ k \in Seq((Nul + 1)..Top)
    /\ Utf8 \subseteq (Nul + 1)..(Top - 1) /\ Chars \subseteq Utf8 /\ Substitute \in Chars
    /\ \A k \in AskPrefixes \cup Starts : k \in Seq((Nul + 1)..Top)
    /\ UploadStarts \subseteq [key : Seq((Nul + 1)..Top), id : Nat \cup {NoID}]
    /\ NewVersion \in Nat \ {0} /\ UploadIDs \subseteq Nat
    /\ APIs \subseteq {"objects", "versions", "uploads", "parts"}
    /\ \A h \in Histories : h \in Seq([id : 0..(NewVersion - 1), del : BOOLEAN]) /\ Distinct(h)

VARIABLES
    store,        \* store[k]: the versions (or uploads) under a key
    ask,          \* the request: api, prefix, delim, max
    marker,       \* the marker to send with the next request
    cursor,       \* what the scan has before it
    rest,         \* versions of the current key still to be emitted
    page,         \* the page under construction: its items, the marker to continue with
    got,          \* everything the pages returned
    pages,        \* how many there were
    steady,       \* what a complete listing has to contain
    writes,       \* changes so far
    renewed,      \* the version the marker names was overwritten in place
    phase         \* "paging", "scan" or "done"

scanVars == <<cursor, rest, page>>
bucketVars == <<store, steady, writes, renewed>>
clientVars == <<ask, marker, got, pages, phase>>
vars == <<bucketVars, clientVars, scanVars>>

----------------------------------------------------------------------------
(* Keys in byte order and the cursor over them.                            *)

Less(a, b) ==
    \/ IsStrictPrefix(a, b)
    \/ \E i \in DOMAIN a \cap DOMAIN b :
          a[i] < b[i] /\ \A j \in 1..(i - 1) : a[j] = b[j]

Item(key, id) == [key |-> key, id |-> id]
Before(u, v) == Less(u.key, v.key) \/ (u.key = v.key /\ u.id < v.id)
Seek(S, at) == {u \in S : ~Before(u, at)}

(* The key field of a record read back, and a key in an answer. *)
Replaced(key, known) ==
    [i \in DOMAIN key |-> IF key[i] \in known THEN key[i] ELSE Substitute]
Recorded(key) == Replaced(key, Utf8)
Sent(key) == Replaced(key, Chars)

advanceToken(current, candidate) ==
    IF Less(current, candidate) THEN candidate ELSE current

EndsInSlash(k) == k # NoKey /\ Last(k) = Slash
IsPrefixMarker(r, m) == r.delim /\ EndsInSlash(m.key)

(* A key below the delimiter is rolled up into the part up to it. *)
DelimAt(key, prefix) == {i \in (Len(prefix) + 1)..Len(key) : key[i] = Slash}
RolledUp(r, key) == r.delim /\ DelimAt(key, r.prefix) # {}
DirPrefix(r, key) ==
    SubSeq(key, 1, CHOOSE i \in DelimAt(key, r.prefix) : \A j \in DelimAt(key, r.prefix) : i <= j)

----------------------------------------------------------------------------
(* The steps of a page.  Its items name entries by the key they are stored *)
(* under, whatever the client can read of it.                              *)

EmptyPage == [items |-> <<>>, next |-> Item(NoKey, NoID)]
full == Len(page.items) >= ask.max

Open(entries, at) ==
    /\ phase = "paging" /\ phase' = "scan"
    /\ cursor' = Seek(entries, at)
    /\ UNCHANGED <<bucketVars, ask, marker, got, pages, rest, page>>

(* The cursor is at an entry. *)
At(e) == phase = "scan" /\ rest = <<>> /\ e \in cursor /\ \A f \in cursor : ~Before(f, e)
AtEnd == phase = "scan" /\ rest = <<>> /\ cursor = {}
Inside(e) == IsPrefix(ask.prefix, e.key)

Skip(e) ==
    /\ cursor' = cursor \ {e}
    /\ UNCHANGED <<bucketVars, clientVars, rest, page>>

Emit(item, next) == page' = [items |-> Append(page.items, item), next |-> next]

EmitEntry(item, next, ahead) ==
    /\ Emit(item, next) /\ cursor' = ahead
    /\ UNCHANGED <<bucketVars, clientVars, rest>>

Pointers == {k \in Keys : store[k] # <<>>}
Objects == {Item(k, 0) : k \in Pointers}

(* What is rolled up is to be emitted once: the cursor seeks behind all    *)
(* that sorts before the common prefix with 0xff appended.                 *)
Jump(e) == Seek(Objects, Item(Append(DirPrefix(ask, e.key), Top), NoID))

Reply(truncated) ==
    /\ got' = got \o page.items
    /\ pages' = pages + 1
    /\ phase' = IF truncated THEN "paging" ELSE "done"
    /\ marker' = IF truncated THEN Item(Sent(page.next.key), page.next.id) ELSE marker
    /\ cursor' = {} /\ rest' = <<>> /\ page' = EmptyPage
    /\ UNCHANGED <<bucketVars, ask>>

----------------------------------------------------------------------------
(* ListObjects.                                                            *)

Live(k) == store[k] # <<>> /\ ~Head(store[k]).del

(* FAULTY: the token follows objects only, not common prefixes. *)
TokenObjectsOnly(token, item) ==
    IF item.id = PrefixID THEN token ELSE advanceToken(token, item.key)

NextToken(token, item) == advanceToken(token, item.key)

(* FAULTY: an explicit marker wins over the prefix. *)
SeekMarker(r, from) ==
    IF from = NoKey THEN r.prefix
    ELSE Append(from, IF r.delim /\ EndsInSlash(from) THEN Top ELSE Nul)

SeekKey(r, from) ==
    IF from = NoKey THEN r.prefix
    ELSE advanceToken(r.prefix, Append(from, IF r.delim /\ EndsInSlash(from) THEN Top ELSE Nul))

handleListObjects ==
    /\ ask.api = "objects"
    /\ Open(Objects, Item(SeekKey(ask, marker.key), NoID))

(* Not after the marker, or a delete marker. *)
Passed(e) == marker.key # NoKey /\ ~Less(marker.key, e.key)
Hidden(e) == Passed(e) \/ (Inside(e) /\ ~Live(e.key))

(* commonPrefixSet: the common prefix of e is on the page. *)
Repeated(e) ==
    RolledUp(ask, e.key) /\ Item(DirPrefix(ask, e.key), PrefixID) \in ToSet(page.items)

EmitPrefix(e) ==
    LET item == Item(DirPrefix(ask, e.key), PrefixID)
    IN  /\ IF Repeated(e) THEN UNCHANGED page
           ELSE Emit(item, Item(NextToken(page.next.key, item), NoID))
        /\ cursor' = Jump(e) /\ UNCHANGED <<bucketVars, clientVars, rest>>

EmitObject(e) ==
    LET record == Item(Recorded(e.key), 0)
    IN  EmitEntry(e, Item(NextToken(page.next.key, record), NoID), cursor \ {e})

ListObjects(e) ==
    /\ ask.api = "objects" /\ At(e)
    /\ \/ Hidden(e) /\ Skip(e)
       \/ ~Hidden(e) /\ ~Inside(e) /\ Reply(FALSE)
       \/ ~Hidden(e) /\ Inside(e) /\ full /\ ~Repeated(e) /\ Reply(TRUE)
       \/ /\ ~Hidden(e) /\ Inside(e) /\ RolledUp(ask, e.key) /\ (full => Repeated(e))
          /\ EmitPrefix(e)
       \/ ~Hidden(e) /\ Inside(e) /\ ~full /\ ~RolledUp(ask, e.key) /\ EmitObject(e)

----------------------------------------------------------------------------
(* ListObjectVersions.                                                     *)

markerVersionID(id) == IF id = 0 THEN NullID ELSE id

versionsAfterMarker(versions, id) ==
    LET at == {i \in DOMAIN versions : markerVersionID(versions[i].id) = id}
    IN  IF id = NoID \/ at = {} THEN <<>>
        ELSE SubSeq(versions, (CHOOSE i \in at : TRUE) + 1, Len(versions))

handleListObjectVersions ==
    /\ ask.api = "versions"
    /\ LET resume == IF IsPrefixMarker(ask, marker) THEN Append(marker.key, Top) ELSE marker.key
       IN  Open(Objects, Item(advanceToken(ask.prefix, resume), NoID))

(* The versions of one key that are to be listed. *)
keyVersions(k) ==
    IF k = marker.key /\ ~IsPrefixMarker(ask, marker)
    THEN versionsAfterMarker(store[k], marker.id) ELSE store[k]

Gather(e) ==
    /\ rest' = [i \in DOMAIN keyVersions(e.key) |-> Item(e.key, keyVersions(e.key)[i].id)]
    /\ cursor' = cursor \ {e}
    /\ UNCHANGED <<bucketVars, clientVars, page>>

ListObjectVersions(e) ==
    /\ ask.api = "versions" /\ At(e)
    /\ \/ ~Inside(e) /\ Reply(FALSE)
       \/ Inside(e) /\ RolledUp(ask, e.key) /\ full /\ Reply(TRUE)
       \/ /\ Inside(e) /\ RolledUp(ask, e.key) /\ ~full
          /\ LET dirPrefix == DirPrefix(ask, e.key)
             IN  EmitEntry(Item(dirPrefix, PrefixID), Item(dirPrefix, NoID), Jump(e))
       \/ Inside(e) /\ ~RolledUp(ask, e.key) /\ Gather(e)

EmitVersion ==
    /\ ask.api = "versions" /\ phase = "scan" /\ rest # <<>>
    /\ \/ full /\ Reply(TRUE)
       \/ /\ ~full /\ rest' = Tail(rest)
          /\ Emit(Head(rest), Item(Recorded(Head(rest).key), markerVersionID(Head(rest).id)))
          /\ UNCHANGED <<bucketVars, clientVars, cursor>>

----------------------------------------------------------------------------
(* ListMultipartUploads, in the order of key and upload ID, and ListParts  *)
(* in the order of part numbers.  Their handlers name the last entry as    *)
(* the marker to continue with.                                            *)

Stored(st, k) == {Item(k, st[k][i].id) : i \in DOMAIN st[k]}

(* The scan begins at the marker, or at the prefix where there is none,    *)
(* and ends at the first key outside the prefix: with a marker that sorts  *)
(* before the prefix, at once if there is a key between the two.           *)
handleListMultipartUploads ==
    /\ ask.api = "uploads"
    /\ Open(UNION {Stored(store, k) : k \in Keys},
            IF marker.key # NoKey THEN marker ELSE Item(ask.prefix, NoID))

ListMultipartUploads(e) ==
    /\ ask.api = "uploads" /\ At(e)
    /\ LET meta == Item(Recorded(e.key), e.id)
       IN  \/ ~Inside(meta) /\ Reply(FALSE)
           \/ Inside(meta) /\ meta = marker /\ Skip(e)
           \/ Inside(meta) /\ meta # marker /\ full /\ Reply(TRUE)
           \/ Inside(meta) /\ meta # marker /\ ~full /\ EmitEntry(e, meta, cursor \ {e})

(* The upload whose parts are listed. *)
PartsKey == CHOOSE k \in Keys : TRUE

ListParts == ask.api = "parts" /\ Open(Stored(store, PartsKey), Item(PartsKey, NoID))

handleListParts(e) ==
    /\ ask.api = "parts" /\ At(e)
    /\ \/ e.id <= marker.id /\ Skip(e)
       \/ e.id > marker.id /\ full /\ Reply(TRUE)
       \/ e.id > marker.id /\ ~full /\ EmitEntry(e, e, cursor \ {e})

----------------------------------------------------------------------------
(* The client and the others.                                              *)

MaxKeys(raw) == IF raw <= 0 \/ raw > MaxPage THEN MaxPage ELSE raw

(* What a listing is of, in a given state of the bucket. *)
Listed(r, st) ==
    CASE r.api = "objects" -> {Item(k, 0) : k \in {j \in Keys : st[j] # <<>> /\ ~Head(st[j]).del}}
      [] r.api = "parts" -> Stored(st, PartsKey)
      [] OTHER -> UNION {Stored(st, k) : k \in Keys}

(* What is asked for: a marker that a common prefix could be stands for    *)
(* all below it.                                                           *)
Within(r, m, x) ==
    CASE r.api = "parts" -> m.id < x.id
      [] r.api = "uploads" -> IsPrefix(r.prefix, x.key) /\ (m.key = NoKey \/ Before(m, x))
      [] OTHER ->
            /\ IsPrefix(r.prefix, x.key)
            /\ \/ m.key = NoKey
               \/ Less(IF IsPrefixMarker(r, m) THEN Append(m.key, Top) ELSE m.key, x.key)

(* How it shows in the answer. *)
Shown(r, x) ==
    IF r.api \in {"objects", "versions"} /\ RolledUp(r, x.key)
    THEN Item(DirPrefix(r, x.key), PrefixID) ELSE x

Init ==
    /\ store \in [Keys -> Histories]
    /\ ask \in [api : APIs, prefix : AskPrefixes, delim : BOOLEAN,
               max : {MaxKeys(raw) : raw \in 0..(MaxPage + 1)}]
    /\ ask.api = "parts" => ask.prefix = NoKey
    /\ ask.api \in {"uploads", "parts"} => ~ask.delim
    /\ marker \in CASE ask.api = "uploads" -> UploadStarts
                    [] ask.api = "parts" -> {Item(NoKey, n) : n \in UploadIDs \cup {NoID}}
                    [] OTHER -> {Item(k, NoID) : k \in Starts}
    /\ steady = {x \in Listed(ask, store) : Within(ask, marker, x)}
    /\ cursor = {} /\ rest = <<>> /\ page = EmptyPage
    /\ got = <<>> /\ pages = 0 /\ writes = 0 /\ renewed = FALSE /\ phase = "paging"

Request ==
    \/ handleListObjects \/ handleListObjectVersions
    \/ handleListMultipartUploads \/ ListParts

Scan ==
    \/ \E e \in cursor : \/ ListObjects(e) \/ ListObjectVersions(e)
                         \/ ListMultipartUploads(e) \/ handleListParts(e)
    \/ EmitVersion
    \/ AtEnd /\ Reply(FALSE)

(* The database fails; the client repeats its request. *)
Fail ==
    /\ phase = "scan" /\ phase' = "paging"
    /\ cursor' = {} /\ rest' = <<>> /\ page' = EmptyPage
    /\ UNCHANGED <<bucketVars, ask, marker, got, pages>>

(* Before the first page a change only makes for another initial state. *)
Change(k, versions) ==
    /\ phase = "paging" /\ got # <<>> /\ writes < MaxWrites
    /\ writes' = writes + 1
    /\ store' = [store EXCEPT ![k] = versions]
    /\ UNCHANGED <<clientVars, scanVars>>

OfObjects == ask.api \in {"objects", "versions"}

(* A new version or delete marker, newer than the others, or an upload,    *)
(* whose ID may sort anywhere.                                             *)
Put(k) ==
    /\ \E new \in IF OfObjects THEN [id : {NewVersion + writes}, del : BOOLEAN]
                                ELSE [id : UploadIDs, del : {FALSE}] :
          /\ Item(k, new.id) \notin Stored(store, k)
          /\ Change(k, <<new>> \o store[k])
    /\ steady' = steady \cap Listed(ask, store')
    /\ UNCHANGED renewed

(* With versioning suspended the null version is overwritten, and is the   *)
(* newest again.                                                           *)
Renew(k) ==
    /\ OfObjects
    /\ \E i \in DOMAIN store[k], del \in BOOLEAN :
          /\ store[k][i].id = 0
          /\ Change(k, <<[id |-> 0, del |-> del]>> \o RemoveAt(store[k], i))
    /\ steady' = {x \in steady \cap Listed(ask, store') : ask.api = "versions" => x # Item(k, 0)}
    /\ renewed' = (renewed \/ marker = Item(k, NullID))

(* A version is deleted, an upload ends.  When it is the one the marker    *)
(* names, the rest of that key's versions is given up: "its position       *)
(* within the key is unknown, so the listing moves on to the next key"     *)
(* (listing.go:197).                                                       *)
Discard(k) ==
    \E i \in DOMAIN store[k] :
        /\ Change(k, RemoveAt(store[k], i))
        /\ steady' = {x \in steady \cap Listed(ask, store') :
                         ~(/\ ask.api = "versions" /\ x.key = k
                           /\ marker = Item(k, markerVersionID(store[k][i].id)))}
        /\ UNCHANGED renewed

Next ==
    \/ Request \/ Scan \/ Fail
    \/ \E k \in Keys : Put(k) \/ Renew(k) \/ Discard(k)
    \/ phase = "done" /\ UNCHANGED vars

Spec == Init /\ [][Next]_vars

(* The loop of a page goes on while its request is served. *)
FairSpec == Spec /\ WF_vars(Scan)

----------------------------------------------------------------------------
(* What paging promises.                                                   *)

(* A listing followed to its end has shown everything that was there       *)
(* throughout, itself or in the common prefix it is rolled up into: no     *)
(* entry is "skipped on the next page and silently lost" (listing.go:66).  *)
NothingSkipped ==
    phase = "done" => \A x \in steady : Shown(ask, x) \in ToSet(got)

(* Paging makes progress: no page shows again what an earlier one showed   *)
(* ("or the prefix is emitted again on the next page", listing.go:80),     *)
(* unless the version the marker names was overwritten and became the      *)
(* newest, and none but the last is empty, so the pages of a finite bucket *)
(* come to an end ("paging could never make progress", filesystem.go:1022).*)
PagingProgresses ==
    /\ ~renewed => IsInjective(got)
    /\ phase # "done" => Len(got) >= pages

(* The loop of a page comes to an end: the scan moves on with every entry, *)
(* and past a common prefix it is to "jump past every key under it"        *)
(* (listing.go:128, filesystem.go:1025).                                   *)
EveryPageEnds == phase = "scan" ~> phase # "scan"

=============================================================================

----------------------------- MODULE AccessLog -----------------------------
(***************************************************************************)
(* The S3 router's requests in flight and its access log (internal/s3api/  *)
(* router.go): ServeHTTP counts a request while it runs and queues its log *)
(* entry before it ends; one worker collects entries and writes them as    *)
(* objects; Router.Shutdown waits for the requests, then for the worker.   *)
(* ServerLifecycle composes it with the engine the entries are written to. *)
(*                                                                         *)
(* An entry is named after its request.  Entries for several target        *)
(* buckets are buffered apart in the code; here they share one target.     *)
(*                                                                         *)
(* Definitions marked FAULTY are variants no action uses: each is a bug    *)
(* this code could plausibly have, kept to show which property notices it. *)
(***************************************************************************)
EXTENDS Integers, Sequences, FiniteSets, SequencesExt

CONSTANTS
    S3Requests,   \* requests to the S3 API
    LogQueueSize, \* capacity of logChan
    LogBatch      \* entries that make the worker flush

ASSUME AccessLogAssumption ==
    /\ IsFiniteSet(S3Requests)
    /\ LogQueueSize \in Nat \ {0} /\ LogBatch \in Nat \ {0}

VARIABLES
    inflight,     \* activeReqs.n
    idle,         \* activeReqs.idle as its waiter sees it
    logChan,      \* queued entries
    stopLogs,     \* stopLogs is closed
    logger,       \* the log worker
    buffer,       \* its buffered entries
    written,      \* entries in the target bucket (history)
    lost          \* entries whose PutObject failed (history)

counterVars == <<inflight, idle>>
logVars == <<logChan, stopLogs, logger, buffer, written, lost>>

LogInit ==
    /\ inflight = 0 /\ idle = "nil"
    /\ logChan = <<>> /\ stopLogs = FALSE /\ logger = "run"
    /\ buffer = {} /\ written = {} /\ lost = {}

LogTypeOK ==
    /\ inflight \in Nat /\ idle \in {"nil", "open", "closed"}
    /\ logChan \in Seq(S3Requests) /\ Len(logChan) <= LogQueueSize
    /\ stopLogs \in BOOLEAN /\ logger \in {"run", "gone"}
    /\ buffer \subseteq S3Requests /\ written \subseteq S3Requests /\ lost \subseteq S3Requests

----------------------------------------------------------------------------
(* inflightCounter.                                                        *)

add == inflight' = inflight + 1 /\ UNCHANGED idle

done ==
    /\ inflight' = inflight - 1
    /\ idle' = IF inflight = 1 /\ idle = "open" THEN "closed" ELSE idle

(* Router.Shutdown asks to be told of the last request. *)
ArmIdle ==
    /\ idle' = "open"
    /\ UNCHANGED inflight

----------------------------------------------------------------------------
(* The queue of entries.                                                   *)

(* logAccess: a bucket without logging queues nothing, a full queue drops  *)
(* the entry.                                                              *)
logAccess(r) ==
    /\ \/ UNCHANGED logChan
       \/ Len(logChan) < LogQueueSize /\ logChan' = Append(logChan, r)
    /\ UNCHANGED <<stopLogs, logger, buffer, written, lost>>

(* flushBucketLogs: one PutObject, and the lines are forgotten whether it  *)
(* succeeded or not.                                                       *)
flushBucketLogs(lines, stored) ==
    /\ buffer' = {}
    /\ written' = IF stored THEN written \cup lines ELSE written
    /\ lost' = IF stored THEN lost ELSE lost \cup lines

(* Taking an entry, which completes a batch or is kept for later. *)
LogTakeKeep ==
    /\ logger = "run" /\ logChan # <<>>
    /\ Cardinality(buffer \cup {Head(logChan)}) < LogBatch
    /\ buffer' = buffer \cup {Head(logChan)}
    /\ logChan' = Tail(logChan)
    /\ UNCHANGED <<stopLogs, logger, written, lost>>

LogTakeFlush(stored) ==
    /\ logger = "run" /\ logChan # <<>>
    /\ Cardinality(buffer \cup {Head(logChan)}) >= LogBatch
    /\ flushBucketLogs(buffer \cup {Head(logChan)}, stored)
    /\ logChan' = Tail(logChan)
    /\ UNCHANGED <<stopLogs, logger>>

LogTick(stored) ==
    /\ logger = "run" /\ buffer # {}
    /\ flushBucketLogs(buffer, stored)
    /\ UNCHANGED <<logChan, stopLogs, logger>>

(* FAULTY: the worker writes what it holds and leaves the queue alone. *)
LogStopUndrained(stored) ==
    /\ logger = "run" /\ stopLogs
    /\ flushBucketLogs(buffer, stored)
    /\ logger' = "gone"
    /\ UNCHANGED <<logChan, stopLogs>>

(* The worker takes whatever is queued, flushes and exits. *)
LogStop(stored) ==
    /\ logger = "run" /\ stopLogs
    /\ flushBucketLogs(buffer \cup ToSet(logChan), stored)
    /\ logChan' = <<>> /\ logger' = "gone"
    /\ UNCHANGED stopLogs

CloseStopLogs ==
    /\ stopLogs' = TRUE
    /\ UNCHANGED <<logChan, logger, buffer, written, lost>>

=============================================================================

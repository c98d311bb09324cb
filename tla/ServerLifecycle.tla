-------------------------- MODULE ServerLifecycle --------------------------
(***************************************************************************)
(* Start, service and graceful shutdown of the whole process (internal/    *)
(* server/server.go, cmd/stiva/main.go, Engine.Shutdown in internal/       *)
(* storage/filesystem.go), composed of WebhookDispatcher and AccessLog.    *)
(*                                                                         *)
(* One goroutine runs Server.shutdown through its stages while requests,   *)
(* background work, the log worker and the webhook dispatcher go on; the   *)
(* deadline of its context may pass between any two steps.  Requests are   *)
(* accepted, served, logged and answered, and may hang for ever.  What     *)
(* http.Server.Shutdown does is modelled from how the server uses it.      *)
(*                                                                         *)
(* Definitions marked FAULTY are variants no action uses: each is a bug    *)
(* this code could plausibly have, kept to show which property notices it. *)
(***************************************************************************)
EXTENDS WebhookDispatcher, AccessLog

CONSTANTS
    ConsoleRequests,  \* requests to the console
    Writes,           \* the requests that change objects
    FlushEvents       \* events of the objects the log worker writes

Requests == S3Requests \cup ConsoleRequests

ASSUME LifecycleAssumption ==
    /\ IsFiniteSet(ConsoleRequests)
    /\ S3Requests \cap ConsoleRequests = {} /\ Writes \subseteq Requests
    /\ Events = Writes \cup FlushEvents

VARIABLES
    stage,        \* where Start, or Server.shutdown, is
    deadline,     \* the shutdown context has expired
    errs,         \* the steps of the shutdown that reported an error
    request,      \* request[r]: where each request is
    background,   \* background[b]: the sweeps, the usage scan, replication
    durableStop,  \* durableStop is closed
    database      \* the metadata store

serverVars == <<stage, deadline, errs>>
workVars == <<request, background, durableStop, database>>
vars == <<hookVars, counterVars, logVars, serverVars, workVars>>

Background == {"sweep", "usage", "sync"}

Stages == <<"new", "serving", "cleanup", "s3", "router", "idle", "logs", "console",
            "dispatchers", "drain", "abandon", "close", "stopped">>
Rank == [s \in ToSet(Stages) \cup {"failed"} |->
            IF s = "failed" THEN 0 ELSE CHOOSE i \in DOMAIN Stages : Stages[i] = s]
Past(s) == Rank[stage] > Rank[s]

Connected(r) == request[r] \in {"open", "serving", "logged"}

Init ==
    /\ HookInit /\ LogInit
    /\ stage = "new" /\ deadline = FALSE /\ errs = {}
    /\ request = [r \in Requests |-> "none"]
    /\ background = [b \in Background |-> "off"]
    /\ durableStop = FALSE /\ database = "open"

TypeOK ==
    /\ HookTypeOK /\ LogTypeOK
    /\ stage \in ToSet(Stages) \cup {"failed"} /\ deadline \in BOOLEAN
    /\ errs \subseteq {"cleanup", "s3", "requests", "console", "drain"}
    /\ request \in [Requests -> {"none", "open", "serving", "logged", "done"}]
    /\ background \in [Background -> {"off", "running", "gone"}]
    /\ durableStop \in BOOLEAN
    /\ database \in {"open", "closed"}

----------------------------------------------------------------------------
(* Start: two listeners, then replication (which is configured here), the  *)
(* servers and the cleanup goroutine with the usage scanner.               *)

Start ==
    /\ stage = "new" /\ stage' = "serving"
    /\ background' = [b \in Background |-> "running"]
    /\ UNCHANGED <<hookVars, counterVars, logVars, deadline, errs, request,
                   durableStop, database>>

(* A port that cannot be bound ends the process. *)
StartFails ==
    /\ stage = "new" /\ stage' = "failed"
    /\ UNCHANGED <<hookVars, counterVars, logVars, deadline, errs, workVars>>

----------------------------------------------------------------------------
(* Requests.                                                               *)

Accept(r) ==
    /\ request[r] = "none" /\ stage # "new" /\ stage # "failed"
    /\ ~Past(IF r \in S3Requests THEN "cleanup" ELSE "logs")
    /\ request' = [request EXCEPT ![r] = "open"]
    /\ UNCHANGED <<hookVars, counterVars, logVars, serverVars, background,
                   durableStop, database>>

(* A connection is closed before its request was read. *)
Hangup(r) ==
    /\ request[r] = "open"
    /\ request' = [request EXCEPT ![r] = "done"]
    /\ UNCHANGED <<hookVars, counterVars, logVars, serverVars, background,
                   durableStop, database>>

(* A write that commits reports an event; a read, a refused request, or    *)
(* any request once the database is closed, reports none.                  *)
Handle(r) ==
    \/ r \in Writes /\ database = "open" /\ triggerWebhook(r)
    \/ UNCHANGED hookVars

ConsoleHTTP(r) ==
    /\ request[r] = "open" /\ r \in ConsoleRequests
    /\ Handle(r)
    /\ request' = [request EXCEPT ![r] = "done"]
    /\ UNCHANGED <<counterVars, logVars, serverVars, background, durableStop, database>>

ServeHTTP(r) ==
    /\ request[r] = "open" /\ r \in S3Requests
    /\ add
    /\ request' = [request EXCEPT ![r] = "serving"]
    /\ UNCHANGED <<hookVars, logVars, serverVars, background, durableStop, database>>

(* The handler, then the entry in the access log. *)
ServeAndLog(r) ==
    /\ request[r] = "serving"
    /\ Handle(r) /\ logAccess(r)
    /\ request' = [request EXCEPT ![r] = "logged"]
    /\ UNCHANGED <<counterVars, serverVars, background, durableStop, database>>

Return(r) ==
    /\ request[r] = "logged"
    /\ done
    /\ request' = [request EXCEPT ![r] = "done"]
    /\ UNCHANGED <<hookVars, logVars, serverVars, background, durableStop, database>>

----------------------------------------------------------------------------
(* The log worker writes through the engine, whose PutObject reports an    *)
(* event of its own.                                                       *)

Flush(stored) ==
    LET next == CHOOSE e \in FlushEvents : event[e] = "none" IN
    /\ stored = (database = "open")
    /\ IF stored THEN next \in FlushEvents /\ triggerWebhook(next) ELSE UNCHANGED hookVars
    /\ UNCHANGED <<counterVars, serverVars, workVars>>

StopLogger ==
    /\ stopLogs
    /\ IF buffer \cup ToSet(logChan) = {}
       THEN LogStop(TRUE) /\ UNCHANGED <<hookVars, counterVars, serverVars, workVars>>
       ELSE \E stored \in BOOLEAN : LogStop(stored) /\ Flush(stored)

LogStep ==
    \/ LogTakeKeep /\ UNCHANGED <<hookVars, counterVars, serverVars, workVars>>
    \/ \E stored \in BOOLEAN : LogTakeFlush(stored) /\ Flush(stored)
    \/ \E stored \in BOOLEAN : LogTick(stored) /\ Flush(stored)

----------------------------------------------------------------------------
(* Background work: the hourly sweeps, the usage scan and the rounds of    *)
(* replication go on until they look at the signal, between two items or   *)
(* at the end of a round.                                                  *)

Told(b) == IF b = "sync" THEN durableStop ELSE Past("serving")

Quit(b) ==
    /\ background[b] = "running" /\ Told(b)
    /\ background' = [background EXCEPT ![b] = "gone"]
    /\ UNCHANGED <<hookVars, counterVars, logVars, serverVars, request, durableStop, database>>

CleanupDone == background["sweep"] = "gone" /\ background["usage"] = "gone"

----------------------------------------------------------------------------
(* Server.shutdown.                                                        *)

Go(from, to) == stage = from /\ stage' = to
Reports(step) == errs' = errs \cup {step}

(* A signal, or a server that stopped serving. *)
Signal ==
    /\ Go("serving", "cleanup")
    /\ UNCHANGED <<hookVars, counterVars, logVars, deadline, errs, workVars>>

Deadline ==
    /\ Past("serving") /\ stage # "stopped" /\ ~deadline
    /\ deadline' = TRUE
    /\ UNCHANGED <<hookVars, counterVars, logVars, stage, errs, workVars>>

(* A wait that ends when what it waits for has happened, or, with an error *)
(* to report, when the deadline has passed.                                *)
Await(from, to, happened, step) ==
    /\ Go(from, to)
    /\ \/ happened /\ UNCHANGED errs
       \/ deadline /\ Reports(step)
    /\ UNCHANGED deadline

(* FAULTY: the cleanup goroutine is signalled and not waited for. *)
StopCleanupUnwaited ==
    /\ Await("cleanup", "s3", TRUE, "cleanup")
    /\ UNCHANGED <<hookVars, counterVars, logVars, workVars>>

StopCleanup ==
    /\ Await("cleanup", "s3", CleanupDone, "cleanup")
    /\ UNCHANGED <<hookVars, counterVars, logVars, workVars>>

StopS3 ==
    /\ Await("s3", "router", \A r \in S3Requests : ~Connected(r), "s3")
    /\ UNCHANGED <<hookVars, counterVars, logVars, workVars>>

(* Router.Shutdown. *)
WaitIdle ==
    /\ stage = "router"
    /\ IF inflight = 0 THEN stage' = "logs" /\ CloseStopLogs /\ UNCHANGED counterVars
                       ELSE stage' = "idle" /\ ArmIdle /\ UNCHANGED logVars
    /\ UNCHANGED <<hookVars, deadline, errs, workVars>>

(* FAULTY: the wait for requests has no deadline. *)
NowIdleUnbounded ==
    /\ Go("idle", "logs") /\ idle = "closed"
    /\ CloseStopLogs
    /\ UNCHANGED <<hookVars, counterVars, deadline, errs, workVars>>

NowIdle ==
    /\ Await("idle", "logs", idle = "closed", "requests")
    /\ CloseStopLogs
    /\ UNCHANGED <<hookVars, counterVars, workVars>>

LoggerGone ==
    /\ Go("logs", "console") /\ logger = "gone"
    /\ UNCHANGED <<hookVars, counterVars, logVars, deadline, errs, workVars>>

StopConsole ==
    /\ Await("console", "dispatchers", \A r \in ConsoleRequests : ~Connected(r), "console")
    /\ UNCHANGED <<hookVars, counterVars, logVars, workVars>>

(* FilesystemEngine.Shutdown. *)
StopDispatchers ==
    /\ Go("dispatchers", "drain")
    /\ durableStop' = TRUE /\ beginWebhookStop
    /\ UNCHANGED <<counterVars, logVars, deadline, errs, request, background, database>>

Drained == background["sync"] = "gone" /\ wg = 0

DrainedInTime ==
    /\ Go("drain", "close") /\ Drained
    /\ UNCHANGED <<hookVars, counterVars, logVars, deadline, errs, workVars>>

Abandon ==
    /\ Go("drain", "abandon") /\ deadline /\ Reports("drain")
    /\ dispatchCancel
    /\ UNCHANGED <<counterVars, logVars, deadline, workVars>>

DrainedLate ==
    /\ Go("abandon", "close") /\ Drained
    /\ UNCHANGED <<hookVars, counterVars, logVars, deadline, errs, workVars>>

CloseStore ==
    /\ Go("close", "stopped")
    /\ database' = "closed"
    /\ UNCHANGED <<hookVars, counterVars, logVars, deadline, errs, request, background,
                   durableStop>>

ShutdownStep ==
    \/ StopCleanup \/ StopS3 \/ WaitIdle \/ NowIdle \/ LoggerGone \/ StopConsole
    \/ StopDispatchers \/ DrainedInTime \/ Abandon \/ DrainedLate \/ CloseStore

Dispatch == HookStep /\ UNCHANGED <<counterVars, logVars, serverVars, workVars>>

Next ==
    \/ Start \/ StartFails \/ Signal \/ Deadline \/ ShutdownStep
    \/ \E r \in Requests :
          \/ Accept(r) \/ Hangup(r) \/ ConsoleHTTP(r)
          \/ ServeHTTP(r) \/ ServeAndLog(r) \/ Return(r)
    \/ \E b \in Background : Quit(b)
    \/ LogStep \/ StopLogger \/ Dispatch

Spec == Init /\ [][Next]_vars

(* As long as the shutdown, a timer, background work, the log worker or    *)
(* the dispatcher can take a step, one of them does: less than what the    *)
(* Go scheduler gives each of them, and enough.  Nothing is assumed of     *)
(* requests, which may hang; nor of a replication transfer, until it is    *)
(* cancelled.  The webhook client gives up after its timeout.              *)
Fairness ==
    WF_vars(\/ Deadline \/ ShutdownStep \/ StopLogger \/ Dispatch
            \/ \E b \in Background : (b = "sync" => cancelled) /\ Quit(b))

FairSpec == Spec /\ Fairness

----------------------------------------------------------------------------
(* What makes a shutdown graceful.                                         *)

(* The databases close behind everything that uses them: "it uses the      *)
(* engine, which is closed last" (server.go:324).  The log worker,         *)
(* replication and webhook deliveries are always over by then; cleanup and *)
(* requests are too, unless Shutdown reports that it gave up on them.      *)
ClosesBehindUsers ==
    database = "closed" =>
        /\ CleanupDone \/ "cleanup" \in errs
        /\ \A r \in S3Requests : Connected(r) => "s3" \in errs
        /\ \A r \in ConsoleRequests : Connected(r) => "console" \in errs
        /\ logger = "gone" /\ background["sync"] = "gone"
        /\ \A w \in Workers : worker[w] \notin Events
        /\ \A e \in Events : retry[e] = NoRetry

(* Every event the dispatcher accepted is delivered, given up after its    *)
(* retries, on its way, or in the dropped-event metric, so that "undelivered *)
(* replication and webhook events are abandoned (and counted)"             *)
(* (server.go:346) and none is left in a queue nobody reads.               *)
EventsAccounted ==
    /\ Cardinality(Accepted) =
          dropped + Len(queue)
          + Cardinality({w \in Workers : worker[w] \in Events})
          + Cardinality({e \in Events : retry[e] # NoRetry})
    /\ database = "closed" => Cardinality(Accepted) = dropped

(* No access log entry is lost to the order of the shutdown: the log       *)
(* worker never writes to a closed store, and it leaves entries behind     *)
(* only if Shutdown reported requests it did not wait for                  *)
(* (Router.Shutdown: "their access log entries are dropped").              *)
LogsWritten ==
    /\ lost = {}
    /\ logger = "gone" =>
          /\ buffer = {}
          /\ logChan # <<>> => errs \cap {"s3", "requests"} # {}

(* Shutdown returns, although requests may hang for ever and transfers     *)
(* until they are cancelled: the wait for each is bounded by the deadline, *)
(* and the waits that are not bounded end on their own.                    *)
ShutdownReturns == (stage = "cleanup") ~> (stage = "stopped")

=============================================================================

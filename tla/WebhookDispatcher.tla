------------------------- MODULE WebhookDispatcher -------------------------
(***************************************************************************)
(* The webhook dispatcher (internal/storage/webhook.go): a bounded queue,  *)
(* workers started with the first event, retries on timers of their own,   *)
(* and the stop that Engine.Shutdown begins.  ServerLifecycle composes it  *)
(* with what triggers events and with what stops it.                       *)
(*                                                                         *)
(* The best-effort dispatcher of sync.go has the same shape and is never   *)
(* selected by the server, which replicates from the outbox.               *)
(*                                                                         *)
(* Definitions marked FAULTY are variants no action uses: each is a bug    *)
(* this code could plausibly have, kept to show which property notices it. *)
(***************************************************************************)
EXTENDS Integers, Sequences, FiniteSets

CONSTANTS
    Events,       \* what may be reported: object created, removed
    Workers,      \* webhookWorkerCount goroutines
    QueueSize,    \* webhookQueueSize
    MaxRetries    \* webhookMaxRetries

ASSUME DispatcherAssumption ==
    /\ IsFiniteSet(Events) /\ IsFiniteSet(Workers) /\ Workers # {}
    /\ QueueSize \in Nat \ {0} /\ MaxRetries \in Nat
    /\ Events \cap {"off", "idle", "gone"} = {}

VARIABLES
    event,        \* event[e]: what became of it
    queue,        \* webhookQueue
    worker,       \* what each worker is delivering
    retry,        \* retry[e]: the attempt its retry goroutine will make
    wg,           \* the counter of webhookWG
    stopping,     \* isWebhookShuttingDown; the queue is closed with it
    cancelled,    \* dispatchCtx is cancelled
    dropped       \* Metrics().WebhookDropped

hookVars == <<event, queue, worker, retry, wg, stopping, cancelled, dropped>>

NoRetry == 0
Accepted == {e \in Events : event[e] = "accepted"}

HookInit ==
    /\ event = [e \in Events |-> "none"]
    /\ queue = <<>> /\ worker = [w \in Workers |-> "off"]
    /\ retry = [e \in Events |-> NoRetry]
    /\ wg = 0 /\ stopping = FALSE /\ cancelled = FALSE /\ dropped = 0

HookTypeOK ==
    /\ event \in [Events -> {"none", "accepted", "ignored", "delivered", "exhausted"}]
    /\ queue \in Seq(Events) /\ Len(queue) <= QueueSize
    /\ worker \in [Workers -> Events \cup {"off", "idle", "gone"}]
    /\ retry \in [Events -> 0..MaxRetries]
    /\ wg \in Nat /\ dropped \in Nat
    /\ stopping \in BOOLEAN /\ cancelled \in BOOLEAN

----------------------------------------------------------------------------
(* Reporting an event.  The whole of triggerWebhook runs under webhookMu.  *)

initWebhookDispatcher ==
    /\ worker' = [w \in Workers |-> IF worker[w] = "off" THEN "idle" ELSE worker[w]]
    /\ wg' = wg + Cardinality({w \in Workers : worker[w] = "off"})

triggerWebhook(e) ==
    /\ event[e] = "none"
    /\ event' = [event EXCEPT ![e] = IF stopping THEN "ignored" ELSE "accepted"]
    /\ IF stopping THEN UNCHANGED <<queue, dropped, worker, wg>>
       ELSE /\ initWebhookDispatcher
            /\ IF Len(queue) < QueueSize
               THEN queue' = Append(queue, e) /\ dropped' = dropped
               ELSE queue' = queue /\ dropped' = dropped + 1
    /\ UNCHANGED <<retry, stopping, cancelled>>

----------------------------------------------------------------------------
(* The workers and the retries.                                            *)

WorkerTake(w) ==
    /\ worker[w] = "idle" /\ queue # <<>>
    /\ queue' = Tail(queue)
    /\ IF cancelled
       THEN dropped' = dropped + 1 /\ worker' = worker
       ELSE dropped' = dropped /\ worker' = [worker EXCEPT ![w] = Head(queue)]
    /\ UNCHANGED <<event, retry, wg, stopping, cancelled>>

WorkerExit(w) ==
    /\ worker[w] = "idle" /\ queue = <<>> /\ stopping
    /\ worker' = [worker EXCEPT ![w] = "gone"]
    /\ wg' = wg - 1
    /\ UNCHANGED <<event, queue, retry, stopping, cancelled, dropped>>

Delivered(e) ==
    /\ event' = [event EXCEPT ![e] = "delivered"]
    /\ UNCHANGED dropped

(* FAULTY: what a stopping dispatcher gives up on is only logged. *)
AttemptFailedUncounted(e, n) ==
    LET again == ~stopping /\ n < MaxRetries
    IN  /\ UNCHANGED dropped
        /\ event' = [event EXCEPT ![e] = IF ~stopping /\ ~again THEN "exhausted" ELSE @]
        /\ retry' = [retry EXCEPT ![e] = IF again THEN n + 1 ELSE NoRetry]
        /\ wg' = wg + (IF again THEN 1 ELSE 0) - (IF n > 0 THEN 1 ELSE 0)

(* FAULTY: the goroutine of a retry is not added to webhookWG. *)
AttemptFailedUntracked(e, n) ==
    LET again == ~stopping /\ n < MaxRetries
    IN  /\ dropped' = IF stopping THEN dropped + 1 ELSE dropped
        /\ event' = [event EXCEPT ![e] = IF ~stopping /\ ~again THEN "exhausted" ELSE @]
        /\ retry' = [retry EXCEPT ![e] = IF again THEN n + 1 ELSE NoRetry]
        /\ wg' = IF n > 0 THEN wg - 1 ELSE wg

(* attempt(n) after deliverWebhook reported failure: the event is given up *)
(* and counted, given up and logged, or handed to a goroutine that sleeps  *)
(* and tries again.  Attempt 0 runs on a worker, every other on the        *)
(* goroutine of its own that ends with it.                                 *)
AttemptFailed(e, n) ==
    LET again == ~stopping /\ n < MaxRetries
    IN  /\ dropped' = IF stopping THEN dropped + 1 ELSE dropped
        /\ event' = [event EXCEPT ![e] = IF ~stopping /\ ~again THEN "exhausted" ELSE @]
        /\ retry' = [retry EXCEPT ![e] = IF again THEN n + 1 ELSE NoRetry]
        /\ wg' = wg + (IF again THEN 1 ELSE 0) - (IF n > 0 THEN 1 ELSE 0)

WorkerAttempt(w) ==
    /\ worker[w] \in Events
    /\ worker' = [worker EXCEPT ![w] = "idle"]
    /\ \/ Delivered(worker[w]) /\ UNCHANGED <<retry, wg>>
       \/ AttemptFailed(worker[w], 0)
    /\ UNCHANGED <<queue, stopping, cancelled>>

(* The goroutine of a retry: its sleep is cut short by the cancelled       *)
(* context, or it makes its attempt.                                       *)
RetryCancelled(e) ==
    /\ retry[e] # NoRetry /\ cancelled
    /\ retry' = [retry EXCEPT ![e] = NoRetry]
    /\ dropped' = dropped + 1 /\ wg' = wg - 1
    /\ UNCHANGED <<event, queue, worker, stopping, cancelled>>

RetryAttempt(e) ==
    /\ retry[e] # NoRetry
    /\ \/ Delivered(e) /\ retry' = [retry EXCEPT ![e] = NoRetry] /\ wg' = wg - 1
       \/ AttemptFailed(e, retry[e])
    /\ UNCHANGED <<queue, worker, stopping, cancelled>>

HookStep ==
    \/ \E w \in Workers : WorkerTake(w) \/ WorkerExit(w) \/ WorkerAttempt(w)
    \/ \E e \in Events : RetryCancelled(e) \/ RetryAttempt(e)

----------------------------------------------------------------------------
(* The stop.                                                               *)

beginWebhookStop ==
    /\ stopping' = TRUE
    /\ UNCHANGED <<event, queue, worker, retry, wg, cancelled, dropped>>

dispatchCancel ==
    /\ cancelled' = TRUE
    /\ UNCHANGED <<event, queue, worker, retry, wg, stopping, dropped>>

=============================================================================

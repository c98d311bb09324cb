----------------------- MODULE ServerLifecycleProofs -----------------------
(***************************************************************************)
(* Proofs about ServerLifecycle and the components it composes, for any    *)
(* number of requests, events, workers and retries, and queues of any      *)
(* size.                                                                   *)
(***************************************************************************)
EXTENDS ServerLifecycle, FiniteSetTheorems, TLAPS

-----------------------------------------------------------------------------
(***************************************************************************)
(* The webhook dispatcher                                                  *)
(***************************************************************************)
Busy == {w \in Workers : worker[w] \in Events}
Up == {w \in Workers : worker[w] \in Events \cup {"idle"}}
Retrying == {e \in Events : retry[e] # NoRetry}

\* webhookWG counts the workers that run and the retries that sleep.
WgCount == wg = Cardinality(Up) + Cardinality(Retrying)

\* Every accepted event is somewhere, or was counted as dropped, or is done.
Account ==
    Cardinality(Accepted) = dropped + Len(queue) + Cardinality(Busy) + Cardinality(Retrying)

\* ... and in one place only.
OnePlace ==
    /\ \A i \in 1..Len(queue) : event[queue[i]] = "accepted" /\ retry[queue[i]] = NoRetry
    /\ \A i, j \in 1..Len(queue) : queue[i] = queue[j] => i = j
    /\ \A w \in Busy : /\ event[worker[w]] = "accepted" /\ retry[worker[w]] = NoRetry
                       /\ \A i \in 1..Len(queue) : queue[i] # worker[w]
                       /\ \A v \in Busy : worker[v] = worker[w] => v = w
    /\ \A e \in Retrying : event[e] = "accepted"

\* Nothing is queued before the workers start; they leave an empty, closed queue.
Served ==
    \A w \in Workers :
        /\ worker[w] = "off" => queue = <<>>
        /\ worker[w] = "gone" => queue = <<>> /\ stopping

HookInv == HookTypeOK /\ WgCount /\ Account /\ OnePlace /\ Served

LEMMA HookSets ==
    /\ IsFiniteSet(Busy) /\ IsFiniteSet(Up) /\ IsFiniteSet(Retrying) /\ IsFiniteSet(Accepted)
    /\ Cardinality(Busy) \in Nat /\ Cardinality(Up) \in Nat
    /\ Cardinality(Retrying) \in Nat /\ Cardinality(Accepted) \in Nat
<1>1. IsFiniteSet(Busy) /\ IsFiniteSet(Up) /\ IsFiniteSet(Retrying) /\ IsFiniteSet(Accepted)
  BY DispatcherAssumption, FS_Subset DEF Busy, Up, Retrying, Accepted
<1>2. QED
  BY <1>1, FS_CardinalityType

LEMMA HookStart == HookInit => HookInv
<1> SUFFICES ASSUME HookInit PROVE HookInv
  OBVIOUS
<1>1. Busy = {} /\ Up = {} /\ Retrying = {} /\ Accepted = {}
  BY DispatcherAssumption DEF HookInit, Busy, Up, Retrying, Accepted
<1>2. HookTypeOK
  <2>1. queue \in Seq(Events) /\ Len(queue) = 0
    BY DEF HookInit
  <2>2. 0 <= QueueSize /\ 0 \in 0..MaxRetries
    BY DispatcherAssumption
  <2>3. QED
    BY <2>1, <2>2 DEF HookInit, HookTypeOK, NoRetry
<1>3. WgCount /\ Account
  BY <1>1, FS_EmptySet DEF HookInit, WgCount, Account
<1>4. OnePlace /\ Served
  BY <1>1, DispatcherAssumption DEF HookInit, OnePlace, Served
<1>5. QED
  BY <1>2, <1>3, <1>4 DEF HookInv

LEMMA AppendFacts ==
    ASSUME NEW S, NEW s \in Seq(S), NEW x \in S
    PROVE  /\ Append(s, x) \in Seq(S) /\ Len(s) \in Nat /\ Len(Append(s, x)) = Len(s) + 1
           /\ \A i \in 1..Len(s) : Append(s, x)[i] = s[i]
           /\ Append(s, x)[Len(s) + 1] = x
           /\ \A i \in 1..Len(Append(s, x)) : i \in 1..Len(s) \/ i = Len(s) + 1
  OBVIOUS

LEMMA TailFacts ==
    ASSUME NEW S, NEW s \in Seq(S), s # <<>>
    PROVE  /\ Tail(s) \in Seq(S) /\ Len(s) \in Nat \ {0} /\ Len(Tail(s)) = Len(s) - 1
           /\ Head(s) \in S /\ Head(s) = s[1] /\ 1 \in 1..Len(s)
           /\ \A i \in 1..Len(Tail(s)) : i + 1 \in 1..Len(s) /\ Tail(s)[i] = s[i + 1]
  OBVIOUS

\* An event is reported.
LEMMA TriggerHook ==
    ASSUME HookInv, NEW e \in Events, triggerWebhook(e)
    PROVE  HookInv'
<1> USE DEF HookInv
<1>a. /\ retry' = retry /\ stopping' = stopping /\ cancelled' = cancelled
      /\ event[e] = "none" /\ event' = [event EXCEPT ![e] = IF stopping THEN "ignored" ELSE "accepted"]
  BY DEF triggerWebhook
<1>b. Retrying' = Retrying
  BY <1>a DEF Retrying
<1>1. CASE stopping
  <2>1. UNCHANGED <<queue, dropped, worker, wg>>
    BY <1>1 DEF triggerWebhook
  <2>2. Busy' = Busy /\ Up' = Up
    BY <2>1 DEF Busy, Up
  <2>3. Accepted' = Accepted
    BY <1>1, <1>a DEF Accepted, HookTypeOK
  <2>4. HookTypeOK'
    BY <1>1, <1>a, <2>1 DEF HookTypeOK
  <2>5. WgCount' /\ Account' /\ Served'
    BY <1>a, <1>b, <2>1, <2>2, <2>3 DEF WgCount, Account, Served
  <2>6. \A d \in Events : event[d] = "accepted" => event'[d] = "accepted"
    BY <1>a DEF HookTypeOK
  <2>7. OnePlace'
    BY <1>a, <1>b, <2>1, <2>2, <2>6 DEF OnePlace, HookTypeOK, Busy, Retrying
  <2>8. QED
    BY <2>4, <2>5, <2>7
<1>2. CASE ~stopping
  <2> DEFINE Off == {w \in Workers : worker[w] = "off"}
  <2>a. /\ worker' = [w \in Workers |-> IF worker[w] = "off" THEN "idle" ELSE worker[w]]
        /\ wg' = wg + Cardinality(Off)
        /\ \/ Len(queue) < QueueSize /\ queue' = Append(queue, e) /\ dropped' = dropped
           \/ queue' = queue /\ dropped' = dropped + 1
    BY <1>2 DEF triggerWebhook, initWebhookDispatcher
  <2>b. IsFiniteSet(Off) /\ Cardinality(Off) \in Nat
    BY DispatcherAssumption, FS_Subset, FS_CardinalityType
  <2>1. Busy' = Busy /\ \A w \in Busy : worker'[w] = worker[w]
    BY <2>a, DispatcherAssumption DEF Busy
  <2>2. Up' = Up \cup Off /\ Up \cap Off = {}
    BY <2>a, DispatcherAssumption DEF Up
  <2>3. Accepted' = Accepted \cup {e} /\ e \notin Accepted
    BY <1>2, <1>a DEF Accepted, HookTypeOK
  <2>4. Cardinality(Up') = Cardinality(Up) + Cardinality(Off)
    <3> HIDE DEF Off
    <3>1. Cardinality(Up \cup Off) = Cardinality(Up) + Cardinality(Off) - Cardinality(Up \cap Off)
      BY <2>b, HookSets, FS_Union
    <3>2. Cardinality(Up \cap Off) = 0
      BY <2>2, FS_EmptySet
    <3>3. QED
      BY <2>2, <2>b, <3>1, <3>2, HookSets
  <2>5. Cardinality(Accepted') = Cardinality(Accepted) + 1
    BY <2>3, HookSets, FS_AddElement
  <2>6. WgCount'
    BY <1>b, <2>a, <2>b, <2>4, HookSets DEF WgCount
  <2>7. Account'
    <3>1. Len(queue) \in Nat /\ dropped \in Nat
      BY DEF HookTypeOK
    <3>2. dropped' + Len(queue') = dropped + Len(queue) + 1
      BY <2>a, <3>1 DEF HookTypeOK
    <3>3. Len(queue') \in Nat /\ dropped' \in Nat
      BY <2>a, <3>1 DEF HookTypeOK
    <3>4. QED
      BY <1>b, <2>1, <2>5, <3>1, <3>2, <3>3, HookSets, SMTT(30) DEF Account
  <2>8. HookTypeOK'
    <3>1. event' \in [Events -> {"none", "accepted", "ignored", "delivered", "exhausted"}]
      BY <1>2, <1>a DEF HookTypeOK
    <3>2. queue' \in Seq(Events) /\ Len(queue') <= QueueSize /\ dropped' \in Nat
      <4>1. CASE Len(queue) < QueueSize /\ queue' = Append(queue, e) /\ dropped' = dropped
        BY <4>1, AppendFacts, DispatcherAssumption DEF HookTypeOK
      <4>2. CASE queue' = queue /\ dropped' = dropped + 1
        BY <4>2 DEF HookTypeOK
      <4>3. QED
        BY <2>a, <4>1, <4>2
    <3>3. worker' \in [Workers -> Events \cup {"off", "idle", "gone"}]
      BY <2>a DEF HookTypeOK
    <3>4. wg' \in Nat
      BY <2>a, <2>b DEF HookTypeOK
    <3>5. QED
      BY <1>a, <3>1, <3>2, <3>3, <3>4 DEF HookTypeOK
  <2>9. Served'
    <3>1. \A w \in Workers : worker'[w] # "off" /\ worker'[w] # "gone"
      BY <1>2, <2>a DEF Served
    <3>2. QED
      BY <3>1 DEF Served
  <2>10. OnePlace'
    <3>1. /\ \A i \in 1..Len(queue) : queue[i] # e /\ queue[i] \in Events
          /\ \A w \in Busy : worker[w] # e /\ worker[w] \in Events
          /\ e \notin Retrying
      BY <1>a DEF OnePlace, HookTypeOK, Busy
    <3>2. /\ event'[e] = "accepted"
          /\ \A d \in Events : d # e => event'[d] = event[d]
      BY <1>2, <1>a DEF HookTypeOK
    <3>3. retry'[e] = NoRetry
      BY <1>a, <3>1 DEF Retrying
    <3>4. \A i \in 1..Len(queue') :
             \/ i \in 1..Len(queue) /\ queue'[i] = queue[i]
             \/ i = Len(queue) + 1 /\ queue'[i] = e
      <4>1. CASE queue' = Append(queue, e)
        BY <4>1, AppendFacts DEF HookTypeOK
      <4>2. CASE queue' = queue
        BY <4>2
      <4>3. QED
        BY <2>a, <4>1, <4>2
    <3>5. \A i \in 1..Len(queue') : event'[queue'[i]] = "accepted" /\ retry'[queue'[i]] = NoRetry
      BY <1>a, <3>1, <3>2, <3>3, <3>4 DEF OnePlace
    <3>6. \A i, j \in 1..Len(queue') : queue'[i] = queue'[j] => i = j
      BY <3>1, <3>4 DEF OnePlace
    <3>7. ASSUME NEW w \in Busy'
          PROVE  /\ event'[worker'[w]] = "accepted" /\ retry'[worker'[w]] = NoRetry
                 /\ \A i \in 1..Len(queue') : queue'[i] # worker'[w]
                 /\ \A v \in Busy' : worker'[v] = worker'[w] => v = w
      BY <1>a, <2>1, <3>1, <3>2, <3>4 DEF OnePlace
    <3>8. \A d \in Retrying' : event'[d] = "accepted"
      BY <1>b, <3>1, <3>2 DEF OnePlace, Retrying
    <3>9. QED
      BY <3>5, <3>6, <3>7, <3>8 DEF OnePlace
  <2>11. QED
    BY <2>6, <2>7, <2>8, <2>9, <2>10
<1>3. QED
  BY <1>1, <1>2

\* A worker takes an event from the queue.
LEMMA TakeHook ==
    ASSUME HookInv, NEW w \in Workers, WorkerTake(w)
    PROVE  HookInv'
<1> USE DEF HookInv
<1>a. /\ queue' = Tail(queue) /\ event' = event /\ retry' = retry /\ wg' = wg
      /\ stopping' = stopping /\ cancelled' = cancelled /\ worker[w] = "idle" /\ queue # <<>>
  BY DEF WorkerTake
<1>b. Retrying' = Retrying /\ Accepted' = Accepted
  BY <1>a DEF Retrying, Accepted
<1>c. /\ Tail(queue) \in Seq(Events) /\ Len(queue) \in Nat \ {0} /\ Len(Tail(queue)) = Len(queue) - 1
      /\ Head(queue) \in Events /\ Head(queue) = queue[1] /\ 1 \in 1..Len(queue)
      /\ \A i \in 1..Len(Tail(queue)) : i + 1 \in 1..Len(queue) /\ Tail(queue)[i] = queue[i + 1]
  BY <1>a, TailFacts DEF HookTypeOK
<1>d. w \notin Busy /\ w \in Up
  BY <1>a, DispatcherAssumption DEF Busy, Up
<1>e. \A v \in Workers : worker[v] # "off" /\ worker[v] # "gone"
  BY <1>a DEF Served
<1>f. /\ \A i \in 1..Len(queue') : event'[queue'[i]] = "accepted" /\ retry'[queue'[i]] = NoRetry
      /\ \A i, j \in 1..Len(queue') : queue'[i] = queue'[j] => i = j
      /\ \A i \in 1..Len(queue') : queue'[i] # Head(queue)
  <2>1. \A i \in 1..Len(queue') : event'[queue'[i]] = "accepted" /\ retry'[queue'[i]] = NoRetry
    BY <1>a, <1>c DEF OnePlace
  <2>2. ASSUME NEW i \in 1..Len(queue'), NEW j \in 1..Len(queue'), queue'[i] = queue'[j] PROVE i = j
    <3>1. i + 1 = j + 1
      BY <1>a, <1>c, <2>2 DEF OnePlace
    <3>2. QED
      BY <3>1
  <2>3. ASSUME NEW i \in 1..Len(queue') PROVE queue'[i] # Head(queue)
    <3>1. i + 1 # 1 /\ i + 1 \in 1..Len(queue) /\ queue'[i] = queue[i + 1]
      BY <1>a, <1>c
    <3>2. QED
      BY <1>c, <3>1 DEF OnePlace
  <2>4. QED
    BY <2>1, <2>2, <2>3
<1>g. queue' \in Seq(Events) /\ Len(queue') <= QueueSize /\ dropped + 1 \in Nat
  <2>1. Len(queue) - 1 <= QueueSize
    BY <1>c, DispatcherAssumption DEF HookTypeOK
  <2>2. QED
    BY <1>a, <1>c, <2>1 DEF HookTypeOK
<1>1. CASE cancelled
  <2>1. dropped' = dropped + 1 /\ worker' = worker
    BY <1>1 DEF WorkerTake
  <2>2. Busy' = Busy /\ Up' = Up
    BY <2>1 DEF Busy, Up
  <2>3. HookTypeOK'
    BY <1>a, <1>g, <2>1 DEF HookTypeOK
  <2>4. WgCount' /\ Served'
    BY <1>a, <1>b, <1>e, <2>1, <2>2 DEF WgCount, Served
  <2>5. Account'
    BY <1>a, <1>b, <1>c, <2>1, <2>2, HookSets DEF Account, HookTypeOK
  <2>6. OnePlace'
    <3>1. \A v \in Busy : \A i \in 1..Len(queue') : queue'[i] # worker[v]
      BY <1>a, <1>c DEF OnePlace
    <3>2. QED
      BY <1>a, <1>b, <1>f, <2>1, <2>2, <3>1 DEF OnePlace
  <2>7. QED
    BY <2>3, <2>4, <2>5, <2>6
<1>2. CASE ~cancelled
  <2>1. dropped' = dropped /\ worker' = [worker EXCEPT ![w] = Head(queue)]
    BY <1>2 DEF WorkerTake
  <2>2. /\ worker'[w] = Head(queue) /\ \A v \in Workers : v # w => worker'[v] = worker[v]
        /\ worker' \in [Workers -> Events \cup {"off", "idle", "gone"}]
    BY <1>c, <2>1 DEF HookTypeOK
  <2>3. Busy' = Busy \cup {w} /\ Up' = Up
    BY <1>c, <1>d, <2>2 DEF Busy, Up
  <2>4. HookTypeOK'
    BY <1>a, <1>g, <2>1, <2>2 DEF HookTypeOK
  <2>5. WgCount'
    BY <1>a, <1>b, <2>3 DEF WgCount
  <2>6. Served'
    BY <1>c, <1>e, <2>2, DispatcherAssumption DEF Served
  <2>7. Account'
    <3>1. Cardinality(Busy') = Cardinality(Busy) + 1
      BY <1>d, <2>3, HookSets, FS_AddElement
    <3>2. QED
      BY <1>a, <1>b, <1>c, <2>1, <3>1, HookSets DEF Account, HookTypeOK
  <2>8. OnePlace'
    <3>1. ASSUME NEW v \in Busy, v # w
          PROVE  /\ worker'[v] = worker[v] /\ worker[v] # Head(queue)
                 /\ event[worker[v]] = "accepted" /\ retry[worker[v]] = NoRetry
                 /\ \A i \in 1..Len(queue') : queue'[i] # worker[v]
      <4>1. worker'[v] = worker[v]
        BY <2>2, <3>1 DEF Busy
      <4>2. QED
        BY <1>a, <1>c, <4>1 DEF OnePlace
    <3>2. event[Head(queue)] = "accepted" /\ retry[Head(queue)] = NoRetry
      BY <1>c DEF OnePlace
    <3>3. ASSUME NEW v \in Busy'
          PROVE  /\ event'[worker'[v]] = "accepted" /\ retry'[worker'[v]] = NoRetry
                 /\ \A i \in 1..Len(queue') : queue'[i] # worker'[v]
                 /\ \A u \in Busy' : worker'[u] = worker'[v] => u = v
      <4>1. CASE v = w
        BY <1>a, <1>f, <2>2, <2>3, <3>1, <3>2, <4>1
      <4>2. CASE v # w
        <5>1. v \in Busy
          BY <2>3, <4>2
        <5>2. \A u \in Busy : worker[u] = worker[v] => u = v
          BY <5>1 DEF OnePlace
        <5>3. QED
          BY <1>a, <2>2, <2>3, <3>1, <4>2, <5>1, <5>2
      <4>3. QED
        BY <4>1, <4>2
    <3>4. \A e \in Retrying' : event'[e] = "accepted"
      BY <1>a, <1>b DEF OnePlace
    <3>5. QED
      BY <1>f, <3>3, <3>4 DEF OnePlace
  <2>9. QED
    BY <2>4, <2>5, <2>6, <2>7, <2>8
<1>3. QED
  BY <1>1, <1>2

LEMMA ExitHook ==
    ASSUME HookInv, NEW w \in Workers, WorkerExit(w)
    PROVE  HookInv'
<1> USE DEF HookInv
<1>a. /\ UNCHANGED <<event, queue, retry, stopping, cancelled, dropped>> /\ worker[w] = "idle"
      /\ wg' = wg - 1 /\ queue = <<>> /\ stopping
  BY DEF WorkerExit
<1>b. /\ worker'[w] = "gone" /\ \A v \in Workers : v # w => worker'[v] = worker[v]
      /\ worker' \in [Workers -> Events \cup {"off", "idle", "gone"}]
  BY DEF WorkerExit, HookTypeOK
<1>c. Retrying' = Retrying /\ Accepted' = Accepted
  BY <1>a DEF Retrying, Accepted
<1>d. Busy' = Busy /\ Up' = Up \ {w} /\ w \in Up /\ w \notin Busy
  BY <1>a, <1>b, DispatcherAssumption DEF Busy, Up
<1>e. Cardinality(Up') = Cardinality(Up) - 1 /\ Cardinality(Up) > 0
  <2>1. Cardinality(Up') = Cardinality(Up) - 1
    BY <1>d, HookSets, FS_RemoveElement
  <2>2. Cardinality(Up) # 0
    BY <1>d, HookSets, FS_EmptySet
  <2>3. QED
    BY <2>1, <2>2, HookSets
<1>1. wg' \in Nat
  BY <1>a, <1>e, HookSets DEF WgCount
<1>2. HookTypeOK'
  BY <1>a, <1>b, <1>1 DEF HookTypeOK
<1>3. WgCount'
  BY <1>a, <1>c, <1>e, HookSets DEF WgCount
<1>4. Account' /\ Served'
  BY <1>a, <1>b, <1>c, <1>d DEF Account, Served
<1>5. OnePlace'
  BY <1>a, <1>b, <1>c, <1>d DEF OnePlace, Busy
<1>6. QED
  BY <1>2, <1>3, <1>4, <1>5

\* How an attempt at an event ends: it is dropped and counted, over, or tried again.
Ends(e) ==
    /\ \A d \in Events : d # e => event'[d] = event[d] /\ retry'[d] = retry[d]
    /\ event' \in [Events -> {"none", "accepted", "ignored", "delivered", "exhausted"}]
    /\ retry' \in [Events -> 0..MaxRetries]
    /\ \/ dropped' = dropped + 1 /\ event'[e] = event[e] /\ retry'[e] = NoRetry
       \/ dropped' = dropped /\ event'[e] \in {"delivered", "exhausted"} /\ retry'[e] = NoRetry
       \/ dropped' = dropped /\ event'[e] = event[e] /\ retry'[e] # NoRetry

LEMMA FailedEnds ==
    ASSUME HookInv, NEW e \in Events, NEW n \in 0..MaxRetries, AttemptFailed(e, n)
    PROVE  /\ Ends(e)
           /\ wg' = wg + (IF retry'[e] # NoRetry THEN 1 ELSE 0) - (IF n > 0 THEN 1 ELSE 0)
<1> USE DEF HookInv, HookTypeOK, NoRetry
<1>1. CASE stopping
  BY <1>1, DispatcherAssumption DEF AttemptFailed, Ends
<1>2. CASE ~stopping /\ n < MaxRetries
  <2>1. n + 1 \in 0..MaxRetries /\ n + 1 # 0
    BY <1>2, DispatcherAssumption
  <2>2. /\ dropped' = dropped /\ event' = [event EXCEPT ![e] = @]
        /\ retry' = [retry EXCEPT ![e] = n + 1] /\ wg' = wg + 1 - (IF n > 0 THEN 1 ELSE 0)
    BY <1>2 DEF AttemptFailed
  <2>3. QED
    BY <2>1, <2>2 DEF Ends
<1>3. CASE ~stopping /\ ~(n < MaxRetries)
  <2>1. /\ dropped' = dropped /\ event' = [event EXCEPT ![e] = "exhausted"]
        /\ retry' = [retry EXCEPT ![e] = 0] /\ wg' = wg + 0 - (IF n > 0 THEN 1 ELSE 0)
    BY <1>3 DEF AttemptFailed
  <2>2. QED
    BY <2>1, DispatcherAssumption DEF Ends
<1>4. QED
  BY <1>1, <1>2, <1>3

LEMMA EndsPlaces ==
    ASSUME HookInv, NEW e \in Events, Ends(e), event[e] = "accepted", queue' = queue,
           \A i \in 1..Len(queue) : queue[i] # e,
           \A w \in Busy' : w \in Busy /\ worker'[w] = worker[w] /\ worker[w] # e
    PROVE  /\ OnePlace'
           /\ Cardinality(Accepted') + dropped + Cardinality(Retrying \ {e}) + 1 =
                  Cardinality(Accepted) + dropped' + Cardinality(Retrying')
           /\ Cardinality(Retrying') =
                  Cardinality(Retrying \ {e}) + IF retry'[e] # NoRetry THEN 1 ELSE 0
<1> USE DEF HookInv
<1>a. \A i \in 1..Len(queue) : queue[i] \in Events
  BY DEF HookTypeOK
<1>b. IsFiniteSet(Retrying \ {e}) /\ Cardinality(Retrying \ {e}) \in Nat
  BY HookSets, FS_RemoveElement, FS_CardinalityType
<1>c. e \in Accepted /\ dropped \in Nat
  BY DEF Accepted, HookTypeOK
<1>1. OnePlace'
  <2>1. \A i \in 1..Len(queue) : event'[queue[i]] = "accepted" /\ retry'[queue[i]] = NoRetry
    BY <1>a DEF OnePlace, Ends
  <2>2. ASSUME NEW w \in Busy'
        PROVE  /\ event'[worker'[w]] = "accepted" /\ retry'[worker'[w]] = NoRetry
               /\ \A i \in 1..Len(queue') : queue'[i] # worker'[w]
               /\ \A v \in Busy' : worker'[v] = worker'[w] => v = w
    <3>1. worker[w] \in Events
      BY DEF Busy
    <3>2. QED
      BY <3>1 DEF OnePlace, Ends
  <2>3. ASSUME NEW d \in Retrying' PROVE event'[d] = "accepted"
    BY <2>3 DEF OnePlace, Ends, Retrying
  <2>4. QED
    BY <2>1, <2>2, <2>3 DEF OnePlace
<1>2. CASE dropped' = dropped + 1 /\ event'[e] = event[e] /\ retry'[e] = NoRetry
  <2>1. Accepted' = Accepted /\ Retrying' = Retrying \ {e}
    BY <1>2 DEF Ends, Accepted, Retrying
  <2>2. QED
    BY <1>1, <1>2, <1>b, <1>c, <2>1, HookSets
<1>3. CASE dropped' = dropped /\ event'[e] \in {"delivered", "exhausted"} /\ retry'[e] = NoRetry
  <2>1. Accepted' = Accepted \ {e} /\ Retrying' = Retrying \ {e}
    BY <1>3 DEF Ends, Accepted, Retrying
  <2>2. Cardinality(Accepted') = Cardinality(Accepted) - 1
    BY <1>c, <2>1, HookSets, FS_RemoveElement
  <2>3. PICK a \in Nat, r \in Nat, k \in Nat :
               a = Cardinality(Accepted) /\ r = Cardinality(Retrying \ {e}) /\ k = dropped
    BY <1>b, <1>c, HookSets
  <2>4. Cardinality(Accepted') = a - 1 /\ Cardinality(Retrying') = r /\ dropped' = k
    BY <1>3, <2>1, <2>2, <2>3
  <2>5. (a - 1) + k + r + 1 = a + k + r
    OBVIOUS
  <2>6. Cardinality(Retrying') = r + 0
    BY <2>4
  <2>7. QED
    BY <1>1, <1>3, <2>3, <2>4, <2>5, <2>6
<1>4. CASE dropped' = dropped /\ event'[e] = event[e] /\ retry'[e] # NoRetry
  <2>1. Accepted' = Accepted /\ Retrying' = (Retrying \ {e}) \cup {e}
    BY <1>4 DEF Ends, Accepted, Retrying
  <2>2. Cardinality(Retrying') = Cardinality(Retrying \ {e}) + 1
    BY <1>b, <2>1, FS_AddElement
  <2>3. QED
    BY <1>1, <1>4, <1>b, <1>c, <2>1, <2>2, HookSets
<1>5. QED
  BY <1>2, <1>3, <1>4 DEF Ends

LEMMA WorkerAttemptHook ==
    ASSUME HookInv, NEW w \in Workers, WorkerAttempt(w)
    PROVE  HookInv'
<1> USE DEF HookInv
<1>e. PICK e \in Events : e = worker[w]
  BY DEF WorkerAttempt
<1>a. /\ UNCHANGED <<queue, stopping, cancelled>>
      /\ worker'[w] = "idle" /\ \A v \in Workers : v # w => worker'[v] = worker[v]
      /\ worker' \in [Workers -> Events \cup {"off", "idle", "gone"}]
  BY DEF WorkerAttempt, HookTypeOK
<1>b. Busy' = Busy \ {w} /\ Up' = Up /\ w \in Busy
  BY <1>e, <1>a, DispatcherAssumption DEF Busy, Up
<1>c. event[e] = "accepted" /\ retry[e] = NoRetry /\ e \notin Retrying /\ Retrying \ {e} = Retrying
  BY <1>b, <1>e DEF OnePlace, Retrying
<1>d. Ends(e) /\ wg' = wg + (IF retry'[e] # NoRetry THEN 1 ELSE 0)
  <2>1. CASE Delivered(e) /\ UNCHANGED <<retry, wg>>
    BY <2>1, <1>c DEF Delivered, Ends, HookTypeOK
  <2>2. CASE AttemptFailed(e, 0)
    <3>1. 0 \in 0..MaxRetries
      BY DispatcherAssumption
    <3>2. wg' = wg + (IF retry'[e] # NoRetry THEN 1 ELSE 0) - 0 /\ Ends(e)
      BY <2>2, <3>1, FailedEnds
    <3>3. QED
      BY <3>2 DEF HookTypeOK
  <2>3. QED
    BY <1>e, <2>1, <2>2 DEF WorkerAttempt
<1>f. /\ \A i \in 1..Len(queue) : queue[i] # e
      /\ \A v \in Busy' : v \in Busy /\ worker'[v] = worker[v] /\ worker[v] # e
  BY <1>e, <1>a, <1>b DEF OnePlace, Busy
<1>g. /\ OnePlace'
      /\ Cardinality(Accepted') + dropped + Cardinality(Retrying) + 1 =
             Cardinality(Accepted) + dropped' + Cardinality(Retrying')
      /\ Cardinality(Retrying') = Cardinality(Retrying) + IF retry'[e] # NoRetry THEN 1 ELSE 0
  BY <1>a, <1>c, <1>d, <1>f, EndsPlaces
<1>h. Cardinality(Busy') = Cardinality(Busy) - 1 /\ Cardinality(Busy') \in Nat
  BY <1>b, HookSets, FS_RemoveElement, FS_CardinalityType
<1>i. dropped' \in Nat
  BY <1>d DEF Ends, HookTypeOK
<1>j. Cardinality(Accepted') \in Nat /\ Cardinality(Retrying') \in Nat
  <2>1. IsFiniteSet(Accepted') /\ IsFiniteSet(Retrying')
    BY DispatcherAssumption, FS_Subset DEF Accepted, Retrying
  <2>2. QED
    BY <2>1, FS_CardinalityType
<1>k. wg \in Nat /\ Cardinality(Up') = Cardinality(Up) /\ Cardinality(Up) \in Nat
  BY <1>b, HookSets DEF HookTypeOK
<1>1. WgCount' /\ wg' \in Nat
  <2>1. wg = Cardinality(Up) + Cardinality(Retrying) /\ Cardinality(Retrying) \in Nat
    BY HookSets DEF WgCount
  <2>2. wg' = Cardinality(Up) + Cardinality(Retrying')
    <3>1. CASE retry'[e] # NoRetry
      BY <1>d, <1>g, <1>k, <2>1, <3>1
    <3>2. CASE retry'[e] = NoRetry
      BY <1>d, <1>g, <1>k, <2>1, <3>2
    <3>3. QED
      BY <3>1, <3>2
  <2>3. QED
    BY <1>j, <1>k, <2>2 DEF WgCount
<1>2. HookTypeOK'
  BY <1>a, <1>d, <1>i, <1>1 DEF HookTypeOK, Ends
<1>3. Account'
  <2>1. Len(queue) \in Nat /\ Len(queue') = Len(queue) /\ dropped \in Nat
    BY <1>a DEF HookTypeOK
  <2>2. QED
    <3>1. Cardinality(Accepted) = dropped + Len(queue) + Cardinality(Busy) + Cardinality(Retrying)
      BY DEF Account
    <3>2. Cardinality(Accepted') = dropped' + Len(queue) + Cardinality(Busy') + Cardinality(Retrying')
      <4>1. /\ Cardinality(Accepted) \in Nat /\ Cardinality(Busy) \in Nat /\ Cardinality(Retrying) \in Nat
            /\ Cardinality(Busy') \in Nat
        BY <1>h, HookSets
      <4>2. Cardinality(Accepted') + dropped + Cardinality(Retrying) + 1 =
                 Cardinality(Accepted) + dropped' + Cardinality(Retrying')
        BY <1>g
      <4>3. PICK L \in Nat : L = Len(queue)
        BY <2>1
      <4>4. Cardinality(Accepted) = dropped + L + Cardinality(Busy) + Cardinality(Retrying)
        BY <3>1, <4>3
      <4>5. Cardinality(Accepted') = dropped' + L + Cardinality(Busy') + Cardinality(Retrying')
        <5>1. PICK a \in Nat, r \in Nat, k \in Nat, a1 \in Nat, r1 \in Nat, k1 \in Nat, b \in Nat :
                 /\ a = Cardinality(Accepted) /\ r = Cardinality(Retrying) /\ k = dropped
                 /\ a1 = Cardinality(Accepted') /\ r1 = Cardinality(Retrying') /\ k1 = dropped'
                 /\ b = Cardinality(Busy)
          BY <1>i, <1>j, <2>1, <4>1
        <5>2. Cardinality(Busy') = b - 1
          BY <1>h, <5>1
        <5>3. a1 + k + r + 1 = a + k1 + r1 /\ a = k + L + b + r
          BY <4>2, <4>4, <5>1
        <5>4. a1 = k1 + L + (b - 1) + r1
          BY <5>3
        <5>5. QED
          BY <5>1, <5>2, <5>4
      <4>6. QED
        BY <4>3, <4>5
    <3>3. QED
      BY <2>1, <3>2 DEF Account
<1>4. Served'
  BY <1>a, <1>e DEF Served
<1>5. QED
  BY <1>1, <1>2, <1>3, <1>4, <1>g

\* The goroutine of a retry ends, or sleeps again.
LEMMA RetryHook ==
    ASSUME HookInv, NEW e \in Events, RetryCancelled(e) \/ RetryAttempt(e)
    PROVE  HookInv'
<1> USE DEF HookInv
<1>a. /\ UNCHANGED <<queue, worker, stopping, cancelled>> /\ retry[e] # NoRetry /\ e \in Retrying
      /\ event[e] = "accepted"
  BY DEF RetryCancelled, RetryAttempt, Retrying, OnePlace
<1>b. Busy' = Busy /\ Up' = Up
  BY <1>a DEF Busy, Up
<1>d. Ends(e) /\ wg' = wg + (IF retry'[e] # NoRetry THEN 1 ELSE 0) - 1
  <2>1. CASE RetryCancelled(e)
    BY <2>1, DispatcherAssumption DEF RetryCancelled, Ends, HookTypeOK, NoRetry
  <2>2. CASE Delivered(e) /\ retry' = [retry EXCEPT ![e] = NoRetry] /\ wg' = wg - 1
    BY <2>2, DispatcherAssumption DEF Delivered, Ends, HookTypeOK, NoRetry
  <2>3. CASE AttemptFailed(e, retry[e])
    <3>1. retry[e] \in 0..MaxRetries /\ retry[e] > 0
      BY <1>a, DispatcherAssumption DEF HookTypeOK, NoRetry
    <3>2. QED
      BY <2>3, <3>1, FailedEnds
  <2>4. QED
    BY <2>1, <2>2, <2>3 DEF RetryAttempt
<1>f. /\ \A i \in 1..Len(queue) : queue[i] # e
      /\ \A v \in Busy' : v \in Busy /\ worker'[v] = worker[v] /\ worker[v] # e
  BY <1>a, <1>b DEF OnePlace
<1>g. /\ OnePlace'
      /\ Cardinality(Accepted') + dropped + Cardinality(Retrying \ {e}) + 1 =
             Cardinality(Accepted) + dropped' + Cardinality(Retrying')
      /\ Cardinality(Retrying') = Cardinality(Retrying \ {e}) + IF retry'[e] # NoRetry THEN 1 ELSE 0
  BY <1>a, <1>d, <1>f, EndsPlaces
<1>h. Cardinality(Retrying \ {e}) = Cardinality(Retrying) - 1 /\ Cardinality(Retrying \ {e}) \in Nat
  BY <1>a, HookSets, FS_RemoveElement, FS_CardinalityType
<1>i. dropped' \in Nat
  BY <1>d DEF Ends, HookTypeOK
<1>j. Cardinality(Accepted') \in Nat /\ Cardinality(Retrying') \in Nat
  <2>1. IsFiniteSet(Accepted') /\ IsFiniteSet(Retrying')
    BY DispatcherAssumption, FS_Subset DEF Accepted, Retrying
  <2>2. QED
    BY <2>1, FS_CardinalityType
<1>k. wg \in Nat /\ Cardinality(Up') = Cardinality(Up) /\ Cardinality(Up) \in Nat
  BY <1>b, HookSets DEF HookTypeOK
<1>1. WgCount' /\ wg' \in Nat
  <2>1. wg = Cardinality(Up) + Cardinality(Retrying) /\ Cardinality(Retrying) \in Nat
    BY HookSets DEF WgCount
  <2>2. wg' = Cardinality(Up) + Cardinality(Retrying')
    <3>1. CASE retry'[e] # NoRetry
      BY <1>d, <1>g, <1>h, <1>k, <2>1, <3>1
    <3>2. CASE retry'[e] = NoRetry
      BY <1>d, <1>g, <1>h, <1>k, <2>1, <3>2
    <3>3. QED
      BY <3>1, <3>2
  <2>3. QED
    BY <1>j, <1>k, <2>2 DEF WgCount
<1>2. HookTypeOK'
  BY <1>a, <1>d, <1>i, <1>1 DEF HookTypeOK, Ends
<1>3. Account'
  <2>1. Len(queue) \in Nat /\ Len(queue') = Len(queue) /\ dropped \in Nat
    BY <1>a DEF HookTypeOK
  <2>2. QED
    <3>1. Cardinality(Busy') = Cardinality(Busy) /\ Cardinality(Retrying) \in Nat
      BY <1>b, HookSets
    <3>2. Cardinality(Accepted') + dropped + Cardinality(Retrying) =
              Cardinality(Accepted) + dropped' + Cardinality(Retrying')
      <4>1. PICK a \in Nat, r \in Nat, k \in Nat, a1 \in Nat, r1 \in Nat, k1 \in Nat :
                 /\ a = Cardinality(Accepted) /\ r = Cardinality(Retrying) /\ k = dropped
                 /\ a1 = Cardinality(Accepted') /\ r1 = Cardinality(Retrying') /\ k1 = dropped'
        BY <1>i, <1>j, <2>1, HookSets
      <4>2. Cardinality(Retrying \ {e}) = r - 1
        BY <1>h, <4>1
      <4>3. a1 + k + (r - 1) + 1 = a + k1 + r1
        BY <1>g, <4>1, <4>2
      <4>4. a1 + k + r = a + k1 + r1
        BY <4>3
      <4>5. QED
        BY <4>1, <4>4
    <3>3. QED
      <4>1. Cardinality(Accepted) = dropped + Len(queue) + Cardinality(Busy) + Cardinality(Retrying)
        BY DEF Account
      <4>2. Cardinality(Accepted') = dropped' + Len(queue) + Cardinality(Busy') + Cardinality(Retrying')
        <5>1. Cardinality(Accepted) \in Nat /\ Cardinality(Busy) \in Nat
          BY HookSets
        <5>2. PICK L \in Nat : L = Len(queue)
          BY <2>1
        <5>3. Cardinality(Accepted) = dropped + L + Cardinality(Busy) + Cardinality(Retrying)
          BY <4>1, <5>2
        <5>4. Cardinality(Accepted') = dropped' + L + Cardinality(Busy') + Cardinality(Retrying')
          <6>1. PICK a \in Nat, r \in Nat, k \in Nat, a1 \in Nat, r1 \in Nat, k1 \in Nat, b \in Nat :
                   /\ a = Cardinality(Accepted) /\ r = Cardinality(Retrying) /\ k = dropped
                   /\ a1 = Cardinality(Accepted') /\ r1 = Cardinality(Retrying') /\ k1 = dropped'
                   /\ b = Cardinality(Busy) /\ b = Cardinality(Busy')
            BY <1>i, <1>j, <2>1, <3>1, <5>1
          <6>2. a1 + k + r = a + k1 + r1 /\ a = k + L + b + r
            BY <3>2, <5>3, <6>1
          <6>3. a1 = k1 + L + b + r1
            BY <6>2
          <6>4. QED
            BY <6>1, <6>3
        <5>5. QED
          BY <5>2, <5>4
      <4>3. QED
        BY <2>1, <4>2 DEF Account
<1>4. Served'
  BY <1>a DEF Served
<1>5. QED
  BY <1>1, <1>2, <1>3, <1>4, <1>g

LEMMA DispatchHook == HookInv /\ HookStep => HookInv'
  BY TakeHook, ExitHook, WorkerAttemptHook, RetryHook DEF HookStep

\* The stop, its cancellation, and steps of others.
LEMMA StopHook ==
    ASSUME HookInv, beginWebhookStop \/ dispatchCancel \/ UNCHANGED hookVars
    PROVE  HookInv'
<1>1. /\ UNCHANGED <<event, queue, worker, retry, wg, dropped>>
      /\ stopping' \in BOOLEAN /\ cancelled' \in BOOLEAN /\ (stopping => stopping')
  BY DEF beginWebhookStop, dispatchCancel, hookVars, HookInv, HookTypeOK
<1>2. Busy' = Busy /\ Up' = Up /\ Retrying' = Retrying /\ Accepted' = Accepted
  BY <1>1 DEF Busy, Up, Retrying, Accepted
<1>3. QED
  BY <1>1, <1>2 DEF HookInv, HookTypeOK, WgCount, Account, OnePlace, Served

\* Once the dispatcher is stopped and its group is done, nothing is on its way ...
LEMMA DoneIsEmpty ==
    ASSUME HookInv, stopping, wg = 0
    PROVE  /\ queue = <<>> /\ Busy = {} /\ Retrying = {} /\ Up = {}
           /\ Cardinality(Accepted) = dropped
<1>1. Up = {} /\ Retrying = {}
  BY HookSets, FS_EmptySet DEF HookInv, WgCount
<1>2. Busy = {}
  BY <1>1 DEF Busy, Up
<1>3. queue = <<>>
  <2>1. PICK w \in Workers : TRUE
    BY DispatcherAssumption
  <2>2. worker[w] \in {"off", "gone"}
    BY <1>1 DEF HookInv, HookTypeOK, Up
  <2>3. QED
    BY <2>2 DEF HookInv, Served
<1>4. Len(queue) = 0 /\ Cardinality(Busy) = 0 /\ Cardinality(Retrying) = 0
  BY <1>1, <1>2, <1>3, FS_EmptySet
<1>5. QED
  BY <1>1, <1>2, <1>3, <1>4 DEF HookInv, Account, HookTypeOK

\* ... and nothing moves any more.
LEMMA DoneIsFinal ==
    ASSUME HookInv, stopping, wg = 0
    PROVE  /\ ~HookStep
           /\ \A e \in Events : triggerWebhook(e) => wg' = 0 /\ stopping'
<1>1. ~HookStep
  <2>1. ASSUME NEW w \in Workers PROVE worker[w] # "idle" /\ worker[w] \notin Events
    BY DoneIsEmpty DEF Up
  <2>2. \A e \in Events : retry[e] = NoRetry
    BY DoneIsEmpty DEF Retrying
  <2>3. QED
    BY <2>1, <2>2 DEF HookStep, WorkerTake, WorkerExit, WorkerAttempt, RetryCancelled, RetryAttempt
<1>2. QED
  BY <1>1 DEF triggerWebhook

-----------------------------------------------------------------------------
(***************************************************************************)
(* The stages of the shutdown                                              *)
(***************************************************************************)
Late == {"dispatchers", "drain", "abandon", "close", "stopped"}
AfterLogs == {"console"} \cup Late
AfterS3 == {"router", "idle", "logs"} \cup AfterLogs

LEMMA RankValues ==
    /\ ToSet(Stages) = {"new", "serving", "cleanup", "s3", "router", "idle", "logs", "console",
                        "dispatchers", "drain", "abandon", "close", "stopped"}
    /\ Rank["new"] = 1
    /\ Rank["serving"] = 2
    /\ Rank["cleanup"] = 3
    /\ Rank["s3"] = 4
    /\ Rank["router"] = 5
    /\ Rank["idle"] = 6
    /\ Rank["logs"] = 7
    /\ Rank["console"] = 8
    /\ Rank["dispatchers"] = 9
    /\ Rank["drain"] = 10
    /\ Rank["abandon"] = 11
    /\ Rank["close"] = 12
    /\ Rank["stopped"] = 13
    /\ Rank["failed"] = 0
<1>1. DOMAIN Stages = 1..13
  BY DEF Stages
<1>2. ToSet(Stages) = {"new", "serving", "cleanup", "s3", "router", "idle", "logs", "console",
                       "dispatchers", "drain", "abandon", "close", "stopped"}
  BY <1>1 DEF Stages, ToSet
<1>3. Rank["new"] = 1
  <2>1. (CHOOSE i \in DOMAIN Stages : Stages[i] = "new") = 1
    BY <1>1 DEF Stages
  <2>2. QED
    BY <1>2, <2>1 DEF Rank
<1>4. Rank["serving"] = 2
  <2>1. (CHOOSE i \in DOMAIN Stages : Stages[i] = "serving") = 2
    BY <1>1 DEF Stages
  <2>2. QED
    BY <1>2, <2>1 DEF Rank
<1>5. Rank["cleanup"] = 3
  <2>1. (CHOOSE i \in DOMAIN Stages : Stages[i] = "cleanup") = 3
    BY <1>1 DEF Stages
  <2>2. QED
    BY <1>2, <2>1 DEF Rank
<1>6. Rank["s3"] = 4
  <2>1. (CHOOSE i \in DOMAIN Stages : Stages[i] = "s3") = 4
    BY <1>1 DEF Stages
  <2>2. QED
    BY <1>2, <2>1 DEF Rank
<1>7. Rank["router"] = 5
  <2>1. (CHOOSE i \in DOMAIN Stages : Stages[i] = "router") = 5
    BY <1>1 DEF Stages
  <2>2. QED
    BY <1>2, <2>1 DEF Rank
<1>8. Rank["idle"] = 6
  <2>1. (CHOOSE i \in DOMAIN Stages : Stages[i] = "idle") = 6
    BY <1>1 DEF Stages
  <2>2. QED
    BY <1>2, <2>1 DEF Rank
<1>9. Rank["logs"] = 7
  <2>1. (CHOOSE i \in DOMAIN Stages : Stages[i] = "logs") = 7
    BY <1>1 DEF Stages
  <2>2. QED
    BY <1>2, <2>1 DEF Rank
<1>10. Rank["console"] = 8
  <2>1. (CHOOSE i \in DOMAIN Stages : Stages[i] = "console") = 8
    BY <1>1 DEF Stages
  <2>2. QED
    BY <1>2, <2>1 DEF Rank
<1>11. Rank["dispatchers"] = 9
  <2>1. (CHOOSE i \in DOMAIN Stages : Stages[i] = "dispatchers") = 9
    BY <1>1 DEF Stages
  <2>2. QED
    BY <1>2, <2>1 DEF Rank
<1>12. Rank["drain"] = 10
  <2>1. (CHOOSE i \in DOMAIN Stages : Stages[i] = "drain") = 10
    BY <1>1 DEF Stages
  <2>2. QED
    BY <1>2, <2>1 DEF Rank
<1>13. Rank["abandon"] = 11
  <2>1. (CHOOSE i \in DOMAIN Stages : Stages[i] = "abandon") = 11
    BY <1>1 DEF Stages
  <2>2. QED
    BY <1>2, <2>1 DEF Rank
<1>14. Rank["close"] = 12
  <2>1. (CHOOSE i \in DOMAIN Stages : Stages[i] = "close") = 12
    BY <1>1 DEF Stages
  <2>2. QED
    BY <1>2, <2>1 DEF Rank
<1>15. Rank["stopped"] = 13
  <2>1. (CHOOSE i \in DOMAIN Stages : Stages[i] = "stopped") = 13
    BY <1>1 DEF Stages
  <2>2. QED
    BY <1>2, <2>1 DEF Rank
<1>16. Rank["failed"] = 0
  BY DEF Rank
<1>17. QED
  BY <1>2, <1>3, <1>4, <1>5, <1>6, <1>7, <1>8, <1>9, <1>10, <1>11, <1>12, <1>13, <1>14, <1>15, <1>16

\* No request arrives at a server that was told to stop.
LEMMA AcceptEarly ==
    ASSUME stage \in ToSet(Stages) \cup {"failed"}
    PROVE  /\ ~Past("cleanup") => stage \in {"failed", "new", "serving", "cleanup"}
           /\ ~Past("logs") => stage \notin AfterLogs
  BY RankValues DEF Past, AfterLogs, Late

ActiveRequests == {r \in S3Requests : request[r] \in {"serving", "logged"}}

\* Only requests to the S3 API are counted, and all of them are.
CountInv ==
    /\ inflight = Cardinality(ActiveRequests)
    /\ \A r \in ConsoleRequests : request[r] \notin {"serving", "logged"}

\* What each stage of the shutdown leaves behind.
StageInv ==
    /\ stage \in {"s3"} \cup AfterS3 => CleanupDone \/ "cleanup" \in errs
    /\ stage \in AfterS3 => \A r \in S3Requests : Connected(r) => "s3" \in errs
    /\ stage \in AfterLogs => logger = "gone"
    /\ stage \in Late => \A r \in ConsoleRequests : Connected(r) => "console" \in errs
    /\ stage \in {"drain", "abandon", "close", "stopped"} => stopping
    /\ stage \in {"close", "stopped"} => background["sync"] = "gone" /\ wg = 0
    /\ database = "closed" => stage = "stopped"
    /\ stopLogs => stage \in {"logs"} \cup AfterLogs
    /\ logger = "gone" => stopLogs

LogInv ==
    /\ lost = {}
    /\ logger = "gone" => /\ buffer = {}
                          /\ logChan # <<>> => errs \cap {"s3", "requests"} # {}

LifeInv == TypeOK /\ HookInv /\ CountInv /\ StageInv /\ LogInv

LEMMA LifeInit == Init => LifeInv
<1> SUFFICES ASSUME Init PROVE LifeInv
  OBVIOUS
<1>1. HookInv
  BY HookStart DEF Init
<1>2. TypeOK
  <2>1. LogTypeOK
    <3>1. logChan \in Seq(S3Requests) /\ Len(logChan) = 0 /\ 0 <= LogQueueSize
      BY AccessLogAssumption DEF Init, LogInit
    <3>2. QED
      BY <3>1 DEF Init, LogInit, LogTypeOK
  <2>2. QED
    BY <1>1, <2>1, RankValues DEF Init, TypeOK, HookInv
<1>3. ActiveRequests = {} /\ \A r \in Requests : ~Connected(r)
  BY DEF Init, ActiveRequests, Requests, Connected
<1>4. CountInv
  BY <1>3, FS_EmptySet DEF Init, LogInit, CountInv, Requests
<1>5. StageInv /\ LogInv
  BY DEF Init, LogInit, StageInv, LogInv, AfterS3, AfterLogs, Late
<1>6. QED
  BY <1>1, <1>2, <1>4, <1>5 DEF LifeInv

(***************************************************************************)
(* What a step may do                                                      *)
(***************************************************************************)

\* To the dispatcher: one of its own steps.
HookMove ==
    \/ HookStep \/ beginWebhookStop \/ dispatchCancel \/ UNCHANGED hookVars
    \/ \E e \in Events : triggerWebhook(e)

\* To the stage: each wait ends for a reason.
Advance ==
    \/ stage' = stage
    \/ stage = "new" /\ stage' \in {"serving", "failed"}
    \/ stage = "serving" /\ stage' = "cleanup"
    \/ stage = "cleanup" /\ stage' = "s3" /\ (CleanupDone \/ "cleanup" \in errs')
    \/ /\ stage = "s3" /\ stage' = "router" /\ request' = request
       /\ (\A r \in S3Requests : ~Connected(r)) \/ "s3" \in errs'
    \/ stage = "router" /\ stage' \in {"logs", "idle"}
    \/ stage = "idle" /\ stage' = "logs"
    \/ stage = "logs" /\ stage' = "console" /\ logger = "gone"
    \/ /\ stage = "console" /\ stage' = "dispatchers" /\ request' = request
       /\ (\A r \in ConsoleRequests : ~Connected(r)) \/ "console" \in errs'
    \/ stage = "dispatchers" /\ stage' = "drain" /\ stopping'
    \/ stage = "drain" /\ stage' = "abandon"
    \/ stage \in {"drain", "abandon"} /\ stage' = "close" /\ Drained
    \/ stage = "close" /\ stage' = "stopped"

\* To everything else: nothing comes back.
Onward ==
    /\ errs \subseteq errs'
    /\ stage # "new" => \A b \in Background : background[b] = "gone" => background'[b] = "gone"
    /\ logger = "gone" => logger' = "gone"
    /\ stopping => stopping'
    /\ stage = "drain" /\ stage' = "close" => wg' = wg /\ background' = background
    /\ stage = "abandon" /\ stage' = "close" => wg' = wg /\ background' = background
    /\ \A r \in Requests : Connected(r)' =>
         \/ Connected(r)
         \/ r \in S3Requests /\ stage' = stage /\ stage \notin AfterS3
         \/ r \in ConsoleRequests /\ stage' = stage /\ stage \notin AfterLogs
    /\ database' = "closed" => database = "closed" \/ stage' = "stopped"
    /\ stopLogs => stopLogs'
    /\ stopLogs' => stopLogs \/ (stage \in {"router", "idle"} /\ stage' = "logs")
    /\ logger' = "gone" => logger = "gone" \/ (stopLogs /\ stopLogs')

\* Every step is such a step.
LEMMA NextHook == LifeInv /\ Next => HookMove
<1> SUFFICES ASSUME LifeInv, Next PROVE HookMove
  OBVIOUS
<1>1. CASE Start \/ StartFails \/ Signal \/ Deadline
  BY <1>1 DEF Start, StartFails, Signal, Deadline, HookMove
<1>2. CASE ShutdownStep
  BY <1>2 DEF ShutdownStep, StopCleanup, StopS3, WaitIdle, NowIdle, LoggerGone, StopConsole,
     StopDispatchers, DrainedInTime, Abandon, DrainedLate, CloseStore, HookMove
<1>3. ASSUME NEW r \in Requests,
             \/ Accept(r) \/ Hangup(r) \/ ConsoleHTTP(r)
             \/ ServeHTTP(r) \/ ServeAndLog(r) \/ Return(r)
      PROVE  HookMove
  BY <1>3, LifecycleAssumption DEF Accept, Hangup, ConsoleHTTP, ServeHTTP, ServeAndLog, Return, Handle,
     HookMove
<1>4. ASSUME NEW b \in Background, Quit(b) PROVE HookMove
  BY <1>4 DEF Quit, HookMove
<1>5. ASSUME NEW stored \in BOOLEAN, Flush(stored) PROVE HookMove
  BY <1>5, LifecycleAssumption DEF Flush, HookMove
<1>6. CASE LogStep
  BY <1>6, <1>5 DEF LogStep, HookMove
<1>7. CASE StopLogger
  BY <1>7, <1>5 DEF StopLogger, HookMove
<1>8. CASE Dispatch
  BY <1>8 DEF Dispatch, HookMove
<1>9. QED
  BY <1>1, <1>2, <1>3, <1>4, <1>6, <1>7, <1>8 DEF Next

LEMMA NextHookInv == LifeInv /\ Next => HookInv'
  BY NextHook, DispatchHook, StopHook, TriggerHook DEF LifeInv, HookMove

\* The types of the variables that are this module's own.
ServerTypeOK ==
    /\ stage \in ToSet(Stages) \cup {"failed"} /\ deadline \in BOOLEAN
    /\ errs \subseteq {"cleanup", "s3", "requests", "console", "drain"}
    /\ request \in [Requests -> {"none", "open", "serving", "logged", "done"}]
    /\ background \in [Background -> {"off", "running", "gone"}]
    /\ durableStop \in BOOLEAN
    /\ database \in {"open", "closed"}

LEMMA NextStage == LifeInv /\ Next => Advance /\ Onward /\ ServerTypeOK'
<1> SUFFICES ASSUME LifeInv, Next PROVE Advance /\ Onward /\ ServerTypeOK'
  OBVIOUS
<1>a. ServerTypeOK
  BY DEF LifeInv, TypeOK, ServerTypeOK
<1>b. stopping => stopping'
  BY NextHook DEF HookMove, HookStep, WorkerTake, WorkerExit, WorkerAttempt, RetryCancelled,
     RetryAttempt, beginWebhookStop, dispatchCancel, triggerWebhook, hookVars
<1>1. CASE Start
  <2>1. Advance
    BY <1>1 DEF Start, Go, Await, Reports, Advance, workVars, beginWebhookStop
  <2>2. Onward
    BY <1>1, <1>b DEF Start, Go, Await, Reports, Onward, workVars, logVars, hookVars, Connected
  <2>3. ServerTypeOK'
    BY <1>1, <1>a, RankValues DEF Start, Go, Await, Reports, workVars, ServerTypeOK
  <2>4. QED
    BY <2>1, <2>2, <2>3
<1>2. CASE StartFails
  <2>1. Advance
    BY <1>2 DEF StartFails, Go, Await, Reports, Advance, workVars, beginWebhookStop
  <2>2. Onward
    BY <1>2, <1>b DEF StartFails, Go, Await, Reports, Onward, workVars, logVars, hookVars, Connected
  <2>3. ServerTypeOK'
    BY <1>2, <1>a, RankValues DEF StartFails, Go, Await, Reports, workVars, ServerTypeOK
  <2>4. QED
    BY <2>1, <2>2, <2>3
<1>3. CASE Signal
  <2>1. Advance
    BY <1>3 DEF Signal, Go, Await, Reports, Advance, workVars, beginWebhookStop
  <2>2. Onward
    BY <1>3, <1>b DEF Signal, Go, Await, Reports, Onward, workVars, logVars, hookVars, Connected
  <2>3. ServerTypeOK'
    BY <1>3, <1>a, RankValues DEF Signal, Go, Await, Reports, workVars, ServerTypeOK
  <2>4. QED
    BY <2>1, <2>2, <2>3
<1>4. CASE Deadline
  <2>1. Advance
    BY <1>4 DEF Deadline, Go, Await, Reports, Advance, workVars, beginWebhookStop
  <2>2. Onward
    BY <1>4, <1>b DEF Deadline, Go, Await, Reports, Onward, workVars, logVars, hookVars, Connected
  <2>3. ServerTypeOK'
    BY <1>4, <1>a, RankValues DEF Deadline, Go, Await, Reports, workVars, ServerTypeOK
  <2>4. QED
    BY <2>1, <2>2, <2>3
<1>5. CASE StopCleanup
  <2>1. Advance
    BY <1>5 DEF StopCleanup, Go, Await, Reports, Advance, workVars, beginWebhookStop
  <2>2. Onward
    BY <1>5, <1>b DEF StopCleanup, Go, Await, Reports, Onward, workVars, logVars, hookVars, Connected
  <2>3. ServerTypeOK'
    BY <1>5, <1>a, RankValues DEF StopCleanup, Go, Await, Reports, workVars, ServerTypeOK
  <2>4. QED
    BY <2>1, <2>2, <2>3
<1>6. CASE StopS3
  <2>1. Advance
    BY <1>6 DEF StopS3, Go, Await, Reports, Advance, workVars, beginWebhookStop
  <2>2. Onward
    BY <1>6, <1>b DEF StopS3, Go, Await, Reports, Onward, workVars, logVars, hookVars, Connected
  <2>3. ServerTypeOK'
    BY <1>6, <1>a, RankValues DEF StopS3, Go, Await, Reports, workVars, ServerTypeOK
  <2>4. QED
    BY <2>1, <2>2, <2>3
<1>7. CASE WaitIdle
  <2>1. Advance
    BY <1>7 DEF WaitIdle, Go, Await, Reports, Advance, workVars, beginWebhookStop, CloseStopLogs, ArmIdle, logVars, counterVars
  <2>2. Onward
    BY <1>7, <1>b DEF WaitIdle, Go, Await, Reports, Onward, workVars, logVars, hookVars, Connected, CloseStopLogs
  <2>3. ServerTypeOK'
    BY <1>7, <1>a, RankValues DEF WaitIdle, Go, Await, Reports, workVars, ServerTypeOK
  <2>4. QED
    BY <2>1, <2>2, <2>3
<1>8. CASE NowIdle
  <2>1. Advance
    BY <1>8 DEF NowIdle, Go, Await, Reports, Advance, workVars, beginWebhookStop, CloseStopLogs
  <2>2. Onward
    BY <1>8, <1>b DEF NowIdle, Go, Await, Reports, Onward, workVars, logVars, hookVars, Connected, CloseStopLogs
  <2>3. ServerTypeOK'
    BY <1>8, <1>a, RankValues DEF NowIdle, Go, Await, Reports, workVars, ServerTypeOK
  <2>4. QED
    BY <2>1, <2>2, <2>3
<1>9. CASE LoggerGone
  <2>1. Advance
    BY <1>9 DEF LoggerGone, Go, Await, Reports, Advance, workVars, beginWebhookStop
  <2>2. Onward
    BY <1>9, <1>b DEF LoggerGone, Go, Await, Reports, Onward, workVars, logVars, hookVars, Connected
  <2>3. ServerTypeOK'
    BY <1>9, <1>a, RankValues DEF LoggerGone, Go, Await, Reports, workVars, ServerTypeOK
  <2>4. QED
    BY <2>1, <2>2, <2>3
<1>10. CASE StopConsole
  <2>1. Advance
    BY <1>10 DEF StopConsole, Go, Await, Reports, Advance, workVars, beginWebhookStop
  <2>2. Onward
    BY <1>10, <1>b DEF StopConsole, Go, Await, Reports, Onward, workVars, logVars, hookVars, Connected
  <2>3. ServerTypeOK'
    BY <1>10, <1>a, RankValues DEF StopConsole, Go, Await, Reports, workVars, ServerTypeOK
  <2>4. QED
    BY <2>1, <2>2, <2>3
<1>11. CASE StopDispatchers
  <2>1. Advance
    BY <1>11 DEF StopDispatchers, Go, Await, Reports, Advance, workVars, beginWebhookStop
  <2>2. Onward
    BY <1>11, <1>b DEF StopDispatchers, Go, Await, Reports, Onward, workVars, logVars, hookVars, Connected
  <2>3. ServerTypeOK'
    BY <1>11, <1>a, RankValues DEF StopDispatchers, Go, Await, Reports, workVars, ServerTypeOK
  <2>4. QED
    BY <2>1, <2>2, <2>3
<1>12. CASE DrainedInTime
  <2>1. Advance
    BY <1>12 DEF DrainedInTime, Go, Await, Reports, Advance, workVars, beginWebhookStop
  <2>2. Onward
    BY <1>12, <1>b DEF DrainedInTime, Go, Await, Reports, Onward, workVars, logVars, hookVars, Connected
  <2>3. ServerTypeOK'
    BY <1>12, <1>a, RankValues DEF DrainedInTime, Go, Await, Reports, workVars, ServerTypeOK
  <2>4. QED
    BY <2>1, <2>2, <2>3
<1>13. CASE Abandon
  <2>1. Advance
    BY <1>13 DEF Abandon, Go, Await, Reports, Advance, workVars, beginWebhookStop
  <2>2. Onward
    BY <1>13, <1>b DEF Abandon, Go, Await, Reports, Onward, workVars, logVars, hookVars, Connected
  <2>3. ServerTypeOK'
    BY <1>13, <1>a, RankValues DEF Abandon, Go, Await, Reports, workVars, ServerTypeOK
  <2>4. QED
    BY <2>1, <2>2, <2>3
<1>14. CASE DrainedLate
  <2>1. Advance
    BY <1>14 DEF DrainedLate, Go, Await, Reports, Advance, workVars, beginWebhookStop
  <2>2. Onward
    BY <1>14, <1>b DEF DrainedLate, Go, Await, Reports, Onward, workVars, logVars, hookVars, Connected
  <2>3. ServerTypeOK'
    BY <1>14, <1>a, RankValues DEF DrainedLate, Go, Await, Reports, workVars, ServerTypeOK
  <2>4. QED
    BY <2>1, <2>2, <2>3
<1>15. CASE CloseStore
  <2>1. Advance
    BY <1>15 DEF CloseStore, Go, Await, Reports, Advance, workVars, beginWebhookStop
  <2>2. Onward
    BY <1>15, <1>b DEF CloseStore, Go, Await, Reports, Onward, workVars, logVars, hookVars, Connected
  <2>3. ServerTypeOK'
    BY <1>15, <1>a, RankValues DEF CloseStore, Go, Await, Reports, workVars, ServerTypeOK
  <2>4. QED
    BY <2>1, <2>2, <2>3
<1>16. ASSUME NEW r \in Requests, Accept(r) PROVE Advance /\ Onward /\ ServerTypeOK'
  <2>1. Advance
    BY <1>16 DEF Accept, Advance, serverVars
  <2>a. /\ r \in S3Requests => stage \notin AfterS3
        /\ r \in ConsoleRequests => stage \notin AfterLogs
    <3>1. r \in S3Requests => ~Past("cleanup")
      BY <1>16 DEF Accept
    <3>2. r \in ConsoleRequests => ~Past("logs")
      BY <1>16, LifecycleAssumption DEF Accept
    <3>3. QED
      BY <1>a, <3>1, <3>2, AcceptEarly DEF ServerTypeOK, AfterS3, AfterLogs, Late
  <2>2. Onward
    BY <1>16, <1>a, <1>b, <2>a DEF Accept, Onward, serverVars, logVars, Connected, ServerTypeOK, Requests
  <2>3. ServerTypeOK'
    BY <1>16, <1>a DEF Accept, serverVars, ServerTypeOK
  <2>4. QED
    BY <2>1, <2>2, <2>3
<1>17. ASSUME NEW r \in Requests, Hangup(r) PROVE Advance /\ Onward /\ ServerTypeOK'
  <2>1. Advance
    BY <1>17 DEF Hangup, Advance, serverVars
  <2>2. Onward
    BY <1>17, <1>a, <1>b DEF Hangup, Onward, serverVars, logVars, Connected, ServerTypeOK
  <2>3. ServerTypeOK'
    BY <1>17, <1>a DEF Hangup, serverVars, ServerTypeOK
  <2>4. QED
    BY <2>1, <2>2, <2>3
<1>18. ASSUME NEW r \in Requests, ConsoleHTTP(r) PROVE Advance /\ Onward /\ ServerTypeOK'
  <2>1. Advance
    BY <1>18 DEF ConsoleHTTP, Advance, serverVars
  <2>2. Onward
    BY <1>18, <1>a, <1>b DEF ConsoleHTTP, Onward, serverVars, logVars, Connected, ServerTypeOK
  <2>3. ServerTypeOK'
    BY <1>18, <1>a DEF ConsoleHTTP, serverVars, ServerTypeOK
  <2>4. QED
    BY <2>1, <2>2, <2>3
<1>19. ASSUME NEW r \in Requests, ServeHTTP(r) PROVE Advance /\ Onward /\ ServerTypeOK'
  <2>1. Advance
    BY <1>19 DEF ServeHTTP, Advance, serverVars
  <2>2. Onward
    BY <1>19, <1>a, <1>b DEF ServeHTTP, Onward, serverVars, logVars, Connected, ServerTypeOK
  <2>3. ServerTypeOK'
    BY <1>19, <1>a DEF ServeHTTP, serverVars, ServerTypeOK
  <2>4. QED
    BY <2>1, <2>2, <2>3
<1>20. ASSUME NEW r \in Requests, ServeAndLog(r) PROVE Advance /\ Onward /\ ServerTypeOK'
  <2>1. Advance
    BY <1>20 DEF ServeAndLog, Advance, serverVars
  <2>2. Onward
    BY <1>20, <1>a, <1>b DEF ServeAndLog, Handle, logAccess, Onward, serverVars, logVars, Connected, ServerTypeOK
  <2>3. ServerTypeOK'
    BY <1>20, <1>a DEF ServeAndLog, serverVars, ServerTypeOK
  <2>4. QED
    BY <2>1, <2>2, <2>3
<1>21. ASSUME NEW r \in Requests, Return(r) PROVE Advance /\ Onward /\ ServerTypeOK'
  <2>1. Advance
    BY <1>21 DEF Return, Advance, serverVars
  <2>2. Onward
    BY <1>21, <1>a, <1>b DEF Return, Onward, serverVars, logVars, Connected, ServerTypeOK
  <2>3. ServerTypeOK'
    BY <1>21, <1>a DEF Return, serverVars, ServerTypeOK
  <2>4. QED
    BY <2>1, <2>2, <2>3
<1>22. ASSUME NEW b \in Background, Quit(b) PROVE Advance /\ Onward /\ ServerTypeOK'
  <2>1. Advance
    BY <1>22 DEF Quit, Advance, serverVars
  <2>2. Onward
    BY <1>22, <1>a, <1>b DEF Quit, Onward, serverVars, logVars, Connected, ServerTypeOK
  <2>3. ServerTypeOK'
    BY <1>22, <1>a DEF Quit, serverVars, ServerTypeOK
  <2>4. QED
    BY <2>1, <2>2, <2>3
<1>23. CASE LogStep \/ StopLogger \/ Dispatch
  <2>1. UNCHANGED <<serverVars, workVars>>
    BY <1>23 DEF LogStep, StopLogger, Flush, Dispatch
  <2>2. Advance /\ ServerTypeOK'
    BY <1>a, <2>1 DEF Advance, ServerTypeOK, serverVars, workVars
  <2>3. stopLogs' = stopLogs
    BY <1>23 DEF LogStep, LogTakeKeep, LogTakeFlush, LogTick, StopLogger, LogStop, Dispatch, logVars
  <2>4. logger' = logger \/ stopLogs
    BY <1>23 DEF LogStep, LogTakeKeep, LogTakeFlush, LogTick, StopLogger, Dispatch, logVars
  <2>5. logger = "gone" => logger' = "gone"
    BY <1>23 DEF LogStep, LogTakeKeep, LogTakeFlush, LogTick, StopLogger, LogStop, Dispatch, logVars
  <2>6. Onward
    BY <1>b, <2>1, <2>3, <2>4, <2>5 DEF Onward, serverVars, workVars, Connected
  <2>7. QED
    BY <2>2, <2>6
<1>24. QED
  BY <1>1, <1>2, <1>3, <1>4, <1>5, <1>6, <1>7, <1>8, <1>9, <1>10, <1>11, <1>12, <1>13, <1>14, <1>15, <1>16, <1>17, <1>18, <1>19, <1>20, <1>21, <1>22, <1>23 DEF Next, ShutdownStep

LEMMA NextStageInv == LifeInv /\ Next => StageInv'
<1> SUFFICES ASSUME LifeInv, Next PROVE StageInv'
  OBVIOUS
<1>a. Advance /\ Onward /\ HookMove /\ StageInv /\ HookInv
  BY NextStage, NextHook DEF LifeInv
<1>b. stage \in ToSet(Stages) \cup {"failed"} /\ stopping' \in BOOLEAN
  BY NextHookInv DEF LifeInv, TypeOK, HookInv, HookTypeOK
<1>1. (stage \in {"s3"} \cup AfterS3 => CleanupDone \/ "cleanup" \in errs)'
  <2>1. stage' # stage => stage' # "s3" \/ CleanupDone \/ "cleanup" \in errs'
    BY <1>a DEF Advance
  <2>2. stage' \in {"s3"} \cup AfterS3 => stage \in {"cleanup", "s3"} \cup AfterS3
    BY <1>a DEF Advance, AfterS3, AfterLogs, Late
  <2>3. stage' \in {"s3"} \cup AfterS3 => CleanupDone \/ "cleanup" \in errs \/ "cleanup" \in errs'
    BY <1>a, <2>1, <2>2 DEF Advance, StageInv, AfterS3, AfterLogs, Late
  <2>4. stage' \in {"s3"} \cup AfterS3 /\ CleanupDone => CleanupDone'
    BY <1>a, <2>2 DEF Onward, CleanupDone, Background, AfterS3, AfterLogs, Late
  <2>5. QED
    BY <1>a, <2>3, <2>4 DEF Onward
<1>2. (stage \in AfterS3 => \A r \in S3Requests : Connected(r) => "s3" \in errs)'
  <2> SUFFICES ASSUME stage' \in AfterS3, NEW r \in S3Requests, Connected(r)' PROVE "s3" \in errs'
    OBVIOUS
  <2>1. stage \in AfterS3 \/ (stage = "s3" /\ stage' = "router")
    BY <1>a DEF Advance, AfterS3, AfterLogs, Late
  <2>2. r \in Requests /\ r \notin ConsoleRequests
    BY LifecycleAssumption DEF Requests
  <2>3. CASE stage \in AfterS3
    BY <1>a, <2>2, <2>3 DEF Onward, StageInv
  <2>4. CASE stage = "s3" /\ stage' = "router"
    <3>1. request' = request /\ ((\A q \in S3Requests : ~Connected(q)) \/ "s3" \in errs')
      BY <1>a, <2>4 DEF Advance
    <3>2. QED
      BY <3>1 DEF Connected
  <2>5. QED
    BY <2>1, <2>3, <2>4
<1>3. (stage \in AfterLogs => logger = "gone")'
  <2>1. stage' \in AfterLogs => logger = "gone"
    BY <1>a DEF Advance, StageInv, AfterLogs, Late
  <2>2. QED
    BY <1>a, <2>1 DEF Onward
<1>4. (stage \in Late => \A r \in ConsoleRequests : Connected(r) => "console" \in errs)'
  <2> SUFFICES ASSUME stage' \in Late, NEW r \in ConsoleRequests, Connected(r)' PROVE "console" \in errs'
    OBVIOUS
  <2>1. stage \in Late \/ (stage = "console" /\ stage' = "dispatchers")
    BY <1>a DEF Advance, Late
  <2>2. r \in Requests /\ r \notin S3Requests
    BY LifecycleAssumption DEF Requests
  <2>3. CASE stage \in Late
    <3>1. stage \in AfterLogs
      BY <2>3 DEF AfterLogs
    <3>2. QED
      BY <1>a, <2>2, <2>3, <3>1 DEF Onward, StageInv
  <2>4. CASE stage = "console" /\ stage' = "dispatchers"
    <3>1. request' = request /\ ((\A q \in ConsoleRequests : ~Connected(q)) \/ "console" \in errs')
      BY <1>a, <2>4 DEF Advance
    <3>2. QED
      BY <3>1 DEF Connected
  <2>5. QED
    BY <2>1, <2>3, <2>4
<1>5. (stage \in {"drain", "abandon", "close", "stopped"} => stopping)'
  <2> SUFFICES ASSUME stage' \in {"drain", "abandon", "close", "stopped"} PROVE stopping'
    OBVIOUS
  <2>1. stage \in {"drain", "abandon", "close", "stopped"} \/ stopping'
    BY <1>a DEF Advance
  <2>2. stage \in {"drain", "abandon", "close", "stopped"} => stopping
    BY <1>a DEF StageInv
  <2>3. QED
    BY <1>a, <2>1, <2>2 DEF Onward
<1>6. (stage \in {"close", "stopped"} => background["sync"] = "gone" /\ wg = 0)'
  <2> SUFFICES ASSUME stage' \in {"close", "stopped"} PROVE background'["sync"] = "gone" /\ wg' = 0
    OBVIOUS
  <2>1. stage \in {"close", "stopped"} \/ (stage \in {"drain", "abandon"} /\ stage' = "close" /\ Drained)
    BY <1>a DEF Advance
  <2>2. CASE stage \in {"close", "stopped"}
    <3>1. stopping /\ wg = 0 /\ background["sync"] = "gone"
      BY <1>a, <2>2 DEF StageInv
    <3>2. background'["sync"] = "gone"
      BY <1>a, <2>2, <3>1 DEF Onward, Background
    <3>3. wg' = 0
      BY <1>a, <3>1, DoneIsFinal DEF HookMove, beginWebhookStop, dispatchCancel, hookVars
    <3>4. QED
      BY <3>2, <3>3
  <2>3. CASE stage \in {"drain", "abandon"} /\ stage' = "close" /\ Drained
    BY <1>a, <2>3 DEF Onward, Drained
  <2>4. QED
    BY <2>1, <2>2, <2>3
<1>7. (database = "closed" => stage = "stopped")'
  BY <1>a DEF Onward, StageInv, Advance
<1>8. (stopLogs => stage \in {"logs"} \cup AfterLogs)'
  <2>1. stopLogs' => stage' = "logs" \/ stage \in {"logs"} \cup AfterLogs
    BY <1>a DEF Onward, StageInv
  <2>2. stage \in {"logs"} \cup AfterLogs => stage' \in {"logs"} \cup AfterLogs
    BY <1>a DEF Advance, AfterLogs, Late
  <2>3. QED
    BY <2>1, <2>2
<1>9. (logger = "gone" => stopLogs)'
  BY <1>a DEF Onward, StageInv
<1>10. QED
  BY <1>1, <1>2, <1>3, <1>4, <1>5, <1>6, <1>7, <1>8, <1>9 DEF StageInv

(***************************************************************************)
(* The access log                                                          *)
(***************************************************************************)
EntryTypeOK ==
    /\ logChan \in Seq(S3Requests) /\ Len(logChan) <= LogQueueSize
    /\ stopLogs \in BOOLEAN /\ logger \in {"run", "gone"}
    /\ buffer \subseteq S3Requests /\ written \subseteq S3Requests /\ lost \subseteq S3Requests

\* The worker only flushes while the store is open.
LEMMA FlushStores ==
    ASSUME LifeInv, logger = "run", NEW stored \in BOOLEAN, Flush(stored)
    PROVE  stored = TRUE
<1>1. database # "closed"
  BY DEF LifeInv, StageInv, AfterLogs, Late
<1>2. QED
  BY <1>1 DEF Flush, LifeInv, TypeOK

LEMMA EntrySets ==
    ASSUME EntryTypeOK
    PROVE  /\ ToSet(logChan) \subseteq S3Requests
           /\ logChan # <<>> => /\ Head(logChan) \in S3Requests
                                /\ Tail(logChan) \in Seq(S3Requests)
                                /\ Len(Tail(logChan)) <= LogQueueSize
<1>1. Len(logChan) \in Nat /\ LogQueueSize \in Nat
  BY AccessLogAssumption DEF EntryTypeOK
<1>2. ToSet(logChan) \subseteq S3Requests
  BY DEF EntryTypeOK, ToSet
<1>3. QED
  BY <1>1, <1>2, TailFacts DEF EntryTypeOK

LEMMA NextLog == LifeInv /\ Next => EntryTypeOK' /\ LogInv'
<1> SUFFICES ASSUME LifeInv, Next PROVE EntryTypeOK' /\ LogInv'
  OBVIOUS
<1>a. EntryTypeOK /\ LogInv /\ StageInv /\ CountInv
  BY DEF LifeInv, TypeOK, LogTypeOK, EntryTypeOK
<1>b. errs \subseteq errs'
  BY NextStage DEF Onward
<1>c. /\ ToSet(logChan) \subseteq S3Requests
      /\ logChan # <<>> => /\ Head(logChan) \in S3Requests
                           /\ Tail(logChan) \in Seq(S3Requests)
                           /\ Len(Tail(logChan)) <= LogQueueSize
  BY <1>a, EntrySets
<1>1. CASE UNCHANGED logVars
  BY <1>1, <1>a, <1>b DEF logVars, EntryTypeOK, LogInv
<1>2. CASE CloseStopLogs
  BY <1>2, <1>a, <1>b DEF CloseStopLogs, EntryTypeOK, LogInv
<1>3. ASSUME NEW r \in Requests, ServeAndLog(r) PROVE EntryTypeOK' /\ LogInv'
  <2>1. r \in S3Requests
    BY <1>3, <1>a DEF ServeAndLog, CountInv, Requests
  <2>2. CASE logChan' = logChan
    BY <1>3, <2>2, <1>a, <1>b DEF ServeAndLog, logAccess, EntryTypeOK, LogInv
  <2>3. CASE Len(logChan) < LogQueueSize /\ logChan' = Append(logChan, r)
    <3>1. UNCHANGED <<stopLogs, logger, buffer, written, lost>>
      BY <1>3 DEF ServeAndLog, logAccess
    <3>2. logChan' \in Seq(S3Requests) /\ Len(logChan') <= LogQueueSize
      <4>1. /\ Append(logChan, r) \in Seq(S3Requests) /\ Len(logChan) \in Nat
            /\ Len(Append(logChan, r)) = Len(logChan) + 1
        BY <1>a, <2>1, AppendFacts DEF EntryTypeOK
      <4>2. QED
        BY <2>3, <4>1, AccessLogAssumption
    <3>3. logger = "gone" => "s3" \in errs
      BY <1>3, <1>a, <2>1 DEF ServeAndLog, StageInv, AfterS3, Connected
    <3>4. QED
      BY <1>a, <1>b, <3>1, <3>2, <3>3 DEF EntryTypeOK, LogInv
  <2>4. QED
    BY <1>3, <2>2, <2>3 DEF ServeAndLog, logAccess
<1>4. CASE LogTakeKeep
  BY <1>4, <1>a, <1>c DEF LogTakeKeep, EntryTypeOK, LogInv
<1>5. ASSUME NEW stored \in BOOLEAN, Flush(stored), LogTakeFlush(stored)
      PROVE  EntryTypeOK' /\ LogInv'
  <2>1. stored = TRUE
    BY <1>5, FlushStores DEF LogTakeFlush
  <2>2. QED
    BY <1>5, <2>1, <1>a, <1>c DEF LogTakeFlush, flushBucketLogs, EntryTypeOK, LogInv
<1>6. ASSUME NEW stored \in BOOLEAN, Flush(stored), LogTick(stored)
      PROVE  EntryTypeOK' /\ LogInv'
  <2>1. stored = TRUE
    BY <1>6, FlushStores DEF LogTick
  <2>2. QED
    BY <1>6, <2>1, <1>a DEF LogTick, flushBucketLogs, EntryTypeOK, LogInv
<1>7. CASE LogStop(TRUE)
  <2>1. /\ logChan' = <<>> /\ logger' = "gone" /\ stopLogs' = stopLogs /\ buffer' = {}
        /\ written' = written \cup (buffer \cup ToSet(logChan)) /\ lost' = lost
    BY <1>7 DEF LogStop, flushBucketLogs
  <2>2. <<>> \in Seq(S3Requests) /\ Len(logChan') <= LogQueueSize
    BY <2>1, AccessLogAssumption
  <2>3. QED
    BY <2>1, <2>2, <1>a, <1>c DEF EntryTypeOK, LogInv
<1>8. CASE StopLogger
  <2>1. ASSUME NEW stored \in BOOLEAN, Flush(stored), LogStop(stored) PROVE LogStop(TRUE)
    BY <2>1, FlushStores DEF LogStop
  <2>2. LogStop(TRUE)
    BY <1>8, <2>1 DEF StopLogger
  <2>3. QED
    BY <2>2, <1>7
<1>9. CASE LogStep
  BY <1>9, <1>4, <1>5, <1>6 DEF LogStep
<1>10. CASE Start \/ StartFails \/ Signal \/ Deadline \/ Dispatch
  BY <1>10, <1>1 DEF Start, StartFails, Signal, Deadline, Dispatch
<1>11. CASE ShutdownStep
  BY <1>11, <1>1, <1>2 DEF ShutdownStep, StopCleanup, StopS3, WaitIdle, NowIdle, LoggerGone, StopConsole,
     StopDispatchers, DrainedInTime, Abandon, DrainedLate, CloseStore
<1>12. ASSUME NEW r \in Requests, Accept(r) \/ Hangup(r) \/ ConsoleHTTP(r) \/ ServeHTTP(r) \/ Return(r)
       PROVE  EntryTypeOK' /\ LogInv'
  BY <1>12, <1>1 DEF Accept, Hangup, ConsoleHTTP, ServeHTTP, Return
<1>13. ASSUME NEW b \in Background, Quit(b) PROVE EntryTypeOK' /\ LogInv'
  BY <1>13, <1>1 DEF Quit
<1>14. QED
  BY <1>3, <1>8, <1>9, <1>10, <1>11, <1>12, <1>13 DEF Next

(***************************************************************************)
(* The requests in flight                                                  *)
(***************************************************************************)
CounterOK ==
    /\ inflight \in Nat /\ idle \in {"nil", "open", "closed"}
    /\ CountInv

LEMMA ActiveFinite == IsFiniteSet(ActiveRequests) /\ Cardinality(ActiveRequests) \in Nat
<1>1. IsFiniteSet(ActiveRequests)
  BY AccessLogAssumption, FS_Subset DEF ActiveRequests
<1>2. QED
  BY <1>1, FS_CardinalityType

\* A step that neither counts a request nor begins or ends serving one.
LEMMA SameCount ==
    ASSUME CounterOK, inflight' = inflight, idle' \in {"nil", "open", "closed"},
           \A r \in Requests : request'[r] \in {"serving", "logged"} <=> request[r] \in {"serving", "logged"}
    PROVE  CounterOK'
<1>1. ActiveRequests' = ActiveRequests
  BY DEF ActiveRequests, Requests
<1>2. QED
  BY <1>1 DEF CounterOK, CountInv, Requests

LEMMA NextCount == LifeInv /\ Next => CounterOK'
<1> SUFFICES ASSUME LifeInv, Next PROVE CounterOK'
  OBVIOUS
<1>a. /\ CounterOK /\ CountInv
      /\ request \in [Requests -> {"none", "open", "serving", "logged", "done"}]
  BY DEF LifeInv, TypeOK, LogTypeOK, CounterOK
<1>1. CASE UNCHANGED <<counterVars, request>>
  BY <1>1, <1>a, SameCount DEF counterVars, CounterOK
<1>2. CASE Start \/ StartFails \/ Signal \/ Deadline \/ Dispatch
  BY <1>2, <1>1 DEF Start, StartFails, Signal, Deadline, Dispatch, workVars
<1>3. CASE ShutdownStep
  <2>1. CASE WaitIdle
    <3>1. inflight' = inflight /\ idle' \in {"nil", "open", "closed"} /\ request' = request
      BY <2>1, <1>a DEF WaitIdle, ArmIdle, counterVars, workVars, CounterOK
    <3>2. QED
      BY <3>1, <1>a, SameCount
  <2>2. CASE ~WaitIdle
    BY <1>3, <2>2, <1>1 DEF ShutdownStep, StopCleanup, StopS3, NowIdle, LoggerGone, StopConsole,
       StopDispatchers, DrainedInTime, Abandon, DrainedLate, CloseStore, workVars
  <2>3. QED
    BY <2>1, <2>2
<1>4. ASSUME NEW r \in Requests, Accept(r) \/ Hangup(r) \/ ConsoleHTTP(r) PROVE CounterOK'
  <2>1. /\ UNCHANGED counterVars /\ request[r] \in {"none", "open"}
        /\ \A q \in Requests : request'[q] = IF q = r THEN request'[r] ELSE request[q]
        /\ request'[r] \in {"open", "done"}
    BY <1>4, <1>a DEF Accept, Hangup, ConsoleHTTP
  <2>2. QED
    BY <2>1, <1>a, SameCount DEF counterVars, CounterOK
<1>5. ASSUME NEW r \in Requests, ServeHTTP(r) PROVE CounterOK'
  <2>1. /\ r \in S3Requests /\ request[r] = "open" /\ inflight' = inflight + 1 /\ idle' = idle
        /\ \A q \in Requests : request'[q] = IF q = r THEN "serving" ELSE request[q]
    BY <1>5, <1>a DEF ServeHTTP, add
  <2>2. ActiveRequests' = ActiveRequests \cup {r} /\ r \notin ActiveRequests
    BY <2>1 DEF ActiveRequests, Requests
  <2>3. Cardinality(ActiveRequests') = Cardinality(ActiveRequests) + 1
    BY <2>2, ActiveFinite, FS_AddElement
  <2>4. \A q \in ConsoleRequests : request'[q] \notin {"serving", "logged"}
    BY <1>a, <2>1, LifecycleAssumption DEF CountInv, Requests
  <2>5. QED
    BY <1>a, <2>1, <2>3, <2>4, ActiveFinite DEF CounterOK, CountInv
<1>6. ASSUME NEW r \in Requests, ServeAndLog(r) PROVE CounterOK'
  <2>1. /\ UNCHANGED counterVars /\ request[r] = "serving"
        /\ \A q \in Requests : request'[q] = IF q = r THEN "logged" ELSE request[q]
    BY <1>6, <1>a DEF ServeAndLog
  <2>2. QED
    BY <2>1, <1>a, SameCount DEF counterVars, CounterOK
<1>7. ASSUME NEW r \in Requests, Return(r) PROVE CounterOK'
  <2>1. /\ request[r] = "logged" /\ inflight' = inflight - 1 /\ idle' \in {idle, "closed"}
        /\ \A q \in Requests : request'[q] = IF q = r THEN "done" ELSE request[q]
    BY <1>7, <1>a DEF Return, done
  <2>2. r \in S3Requests
    BY <1>a, <2>1 DEF CountInv, Requests
  <2>3. ActiveRequests' = ActiveRequests \ {r} /\ r \in ActiveRequests
    BY <2>1, <2>2 DEF ActiveRequests, Requests
  <2>4. Cardinality(ActiveRequests') = Cardinality(ActiveRequests) - 1
    BY <2>3, ActiveFinite, FS_RemoveElement
  <2>5. IsFiniteSet(ActiveRequests') /\ Cardinality(ActiveRequests') \in Nat
    BY <2>3, ActiveFinite, FS_Subset, FS_CardinalityType
  <2>6. \A q \in ConsoleRequests : request'[q] \notin {"serving", "logged"}
    BY <1>a, <2>1 DEF CountInv, Requests
  <2>7. QED
    BY <1>a, <2>1, <2>4, <2>5, <2>6 DEF CounterOK, CountInv
<1>8. ASSUME NEW b \in Background, Quit(b) PROVE CounterOK'
  BY <1>8, <1>1 DEF Quit
<1>9. CASE LogStep \/ StopLogger
  BY <1>9, <1>1 DEF LogStep, StopLogger, Flush, workVars
<1>10. QED
  BY <1>2, <1>3, <1>4, <1>5, <1>6, <1>7, <1>8, <1>9 DEF Next

-----------------------------------------------------------------------------
LEMMA LifeNext == LifeInv /\ [Next]_vars => LifeInv'
<1> SUFFICES ASSUME LifeInv, [Next]_vars PROVE LifeInv'
  OBVIOUS
<1>1. CASE Next
  <2>1. HookInv' /\ StageInv' /\ LogInv' /\ EntryTypeOK' /\ CounterOK' /\ ServerTypeOK'
    BY <1>1, NextHookInv, NextStageInv, NextLog, NextCount, NextStage
  <2>2. TypeOK'
    BY <2>1 DEF TypeOK, HookInv, LogTypeOK, EntryTypeOK, CounterOK, ServerTypeOK
  <2>3. QED
    BY <2>1, <2>2 DEF LifeInv, CounterOK
<1>2. CASE UNCHANGED vars
  <2>1. UNCHANGED <<hookVars, counterVars, logVars, serverVars, workVars>>
    BY <1>2 DEF vars
  <2>2. HookInv'
    BY <2>1, StopHook DEF LifeInv
  <2>3. CountInv'
    <3>1. ActiveRequests' = ActiveRequests
      BY <2>1 DEF ActiveRequests, workVars
    <3>2. QED
      BY <2>1, <3>1 DEF LifeInv, CountInv, counterVars, workVars
  <2>4. StageInv' /\ LogInv'
    BY <2>1 DEF LifeInv, StageInv, LogInv, CleanupDone, Connected, hookVars, logVars, serverVars, workVars
  <2>5. TypeOK'
    BY <2>1, <2>2 DEF LifeInv, TypeOK, HookInv, LogTypeOK, counterVars, logVars, serverVars, workVars
  <2>6. QED
    BY <2>2, <2>3, <2>4, <2>5 DEF LifeInv
<1>3. QED
  BY <1>1, <1>2

LEMMA LifeAlways == Spec => []LifeInv
  BY LifeInit, LifeNext, PTL DEF Spec

-----------------------------------------------------------------------------
(***************************************************************************)
(* Results                                                                 *)
(***************************************************************************)

\* Every variable of the process keeps its type: the webhook queue and the log
\* queue stay within their capacities, and the counter of requests in flight
\* and the wait group of the dispatcher never go below zero (a negative
\* sync.WaitGroup panics).
THEOREM TypeCorrect == Spec => []TypeOK
<1>1. LifeInv => TypeOK
  BY DEF LifeInv
<1>2. QED
  BY <1>1, LifeAlways, PTL

\* Server.shutdown closes the databases behind everything that uses them,
\* whatever requests, background work and timers do meanwhile; what it did not
\* wait for is in the error it returns.
THEOREM ClosesLast == Spec => []ClosesBehindUsers
<1>1. LifeInv => ClosesBehindUsers
  <2> SUFFICES ASSUME LifeInv, database = "closed"
               PROVE  /\ CleanupDone \/ "cleanup" \in errs
                      /\ \A r \in S3Requests : Connected(r) => "s3" \in errs
                      /\ \A r \in ConsoleRequests : Connected(r) => "console" \in errs
                      /\ logger = "gone" /\ background["sync"] = "gone"
                      /\ \A w \in Workers : worker[w] \notin Events
                      /\ \A e \in Events : retry[e] = NoRetry
    BY DEF ClosesBehindUsers
  <2>1. stage = "stopped" /\ StageInv
    BY DEF LifeInv, StageInv
  <2>2. stopping /\ wg = 0
    BY <2>1 DEF StageInv
  <2>3. Busy = {} /\ Retrying = {}
    BY <2>2, DoneIsEmpty DEF LifeInv
  <2>4. QED
    BY <2>1, <2>3 DEF StageInv, AfterS3, AfterLogs, Late, Busy, Retrying
<1>2. QED
  BY <1>1, LifeAlways, PTL

\* triggerWebhook, the workers, the retries and the stop never lose an event
\* without counting it, and when the databases close every event that was
\* accepted and neither delivered nor exhausted has been counted as dropped.
THEOREM NoEventUncounted == Spec => []EventsAccounted
<1>1. LifeInv => EventsAccounted
  <2> SUFFICES ASSUME LifeInv PROVE EventsAccounted
    OBVIOUS
  <2>1. Account
    BY DEF LifeInv, HookInv
  <2>2. ASSUME database = "closed" PROVE Cardinality(Accepted) = dropped
    <3>1. stopping /\ wg = 0
      BY <2>2 DEF LifeInv, StageInv
    <3>2. QED
      BY <3>1, DoneIsEmpty DEF LifeInv
  <2>3. QED
    BY <2>1, <2>2 DEF EventsAccounted, Account, Busy, Retrying
<1>2. QED
  BY <1>1, LifeAlways, PTL

\* The log worker never writes to a closed store, and when it is gone it left
\* entries behind only if the shutdown reported requests it did not wait for.
THEOREM NoLogLost == Spec => []LogsWritten
<1>1. LifeInv => LogsWritten
  BY DEF LifeInv, LogInv, LogsWritten
<1>2. QED
  BY <1>1, LifeAlways, PTL

=============================================================================

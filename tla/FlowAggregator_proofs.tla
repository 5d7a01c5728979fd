-------------------------- MODULE FlowAggregator_proofs --------------------------
(***************************************************************************)
(* Proofs about FlowAggregator for any producers, events, keys, minutes    *)
(* and queue capacity.                                                     *)
(***************************************************************************)
EXTENDS FlowAggregator, SequenceTheorems, TLAPS

(* Who may wait on a request: only Flush and Shutdown ask for a done       *)
(* channel, and a request carries the name of the actor that built it.     *)
ByItsBuilder(r) == r.wait => r.by \in {Ticker, Stopper}

Requested ==
  /\ \A a \in Actors : req[a].by = a /\ ByItsBuilder(req[a])
  /\ \A i \in 1..Len(queue) : ByItsBuilder(queue[i])
  /\ ByItsBuilder(cur)

(* queueMu is held exactly by the actor about to send.                     *)
HolderSends ==
  /\ \A a \in Actors : pc[a] = "send" <=> queueHolder = a
  /\ queueClosed => queueHolder = NoActor

(* The saved batch in the worker's hands is stored before it is analysed,  *)
(* and nothing else is stored and not analysed.                            *)
StoredInHand == IF wpc = "callback" THEN cur.evs ELSE {}
StoredThenAnalysed == stored = analysed \cup StoredInHand

(* A request with a done channel is the one its builder waits for: the     *)
(* builder is parked until that request is signalled, so it has no other.  *)
Busy == wpc \in {"save", "callback", "signal"}
Waiting(r) == pc[r.by] = "await" /\ r = req[r.by]

Awaited ==
  /\ \A i \in 1..Len(queue) : queue[i].wait => Waiting(queue[i])
  /\ \A i, j \in 1..Len(queue) :
       i # j /\ queue[i].wait /\ queue[j].wait => queue[i].by # queue[j].by
  /\ Busy /\ cur.wait => /\ Waiting(cur)
                         /\ \A i \in 1..Len(queue) : queue[i].wait => queue[i].by # cur.by
  /\ \A a \in {Ticker, Stopper} : pc[a] \in {"enqueue", "send", "await"} => req[a].wait
  /\ wpc = "signal" => cur.evs \subseteq analysed \cup failed

(* The phases of Shutdown.                                                 *)
Phases ==
  /\ stopping <=> pc[Stopper] \notin {"running", "join"}
  /\ stopping => buffer = {} /\ pc[Ticker] = "exited"
  /\ queueClosed <=> pc[Stopper] \in {"flushwait", "done"}
  /\ wpc = "exited" => queueClosed /\ queue = <<>>
  /\ pc[Stopper] = "done" => wpc = "exited"
  /\ ProducersJoined /\ pc[Stopper] # "running" => ~producing
  /\ ~producing => \A p \in Producers : pc[p] = "idle"
  /\ ProducersJoined => dropped = {}

IInv == Requested /\ StoredThenAnalysed /\ HolderSends /\ Awaited /\ Phases

-------------------------------------------------------------------------------
(* Helpers.                                                                *)

(* The actors are distinct, and none of them is the absent lock holder.    *)
LEMMA ActorFacts ==
  /\ Ticker \in Actors /\ Stopper \in Actors /\ Producers \subseteq Actors
  /\ Ticker # Stopper /\ Ticker \notin Producers /\ Stopper \notin Producers
  /\ NoActor \notin Actors
BY ActorAssumption DEF Actors

(* Minutes are the zero time and the minutes of events.                    *)
LEMMA MinuteFacts ==
  /\ 0 \in Minutes
  /\ Minutes \subseteq Nat
  /\ \A e \in Events : Minute[e] \in Minutes /\ Minute[e] > 0
BY EventAssumption DEF Minutes

(* Merging a new event types: the timestamp it gets is its own minute or   *)
(* that of an event already in its row.                                    *)
LEMMA MergeTyped ==
  ASSUME TypeOK, NEW e \in Events, NEW rows \in SUBSET buffer, Merge(e, rows)
  PROVE  /\ buffer' \subseteq Events
         /\ stampOf' \in [Events -> Minutes]
         /\ accepted' = accepted \cup {e}
<1> DEFINE row == {x \in rows : Key[x] = Key[e]}
<1>1. rows \subseteq Events
  BY DEF TypeOK
<1>2. buffer' = rows \cup {e} /\ accepted' = accepted \cup {e}
  BY DEF Merge
<1>3. CASE row = {}
  <2>1. stampOf' = [stampOf EXCEPT ![e] = Minute[e]]
    BY <1>3 DEF Merge
  <2> QED BY <1>1, <1>2, <2>1, MinuteFacts DEF TypeOK
<1>4. CASE row # {}
  <2>1. (CHOOSE x \in row : TRUE) \in row
    BY <1>4
  <2>2. stampOf' = [stampOf EXCEPT ![e] = stampOf[CHOOSE x \in row : TRUE]]
    BY <1>4 DEF Merge
  <2>3. stampOf[CHOOSE x \in row : TRUE] \in Minutes
    BY <1>1, <2>1 DEF TypeOK
  <2> QED BY <1>1, <1>2, <2>2, <2>3 DEF TypeOK
<1> QED BY <1>3, <1>4

(* What HandOff changes.                                                   *)
LEMMA HandOffTyped ==
  ASSUME TypeOK, Requested, NEW a \in Actors, NEW rows \in SUBSET Events,
         NEW wait \in BOOLEAN, wait => a \in {Ticker, Stopper}, HandOff(a, rows, wait)
  PROVE  /\ pc' \in [Actors -> ProducerPCs \cup TickerPCs \cup StopperPCs]
         /\ pc'[a] \in {After(a), "enqueue"}
         /\ \A b \in Actors \ {a} : pc'[b] = pc[b] /\ req'[b] = req[b]
         /\ req' \in [Actors -> Requests]
         /\ \A b \in Actors : req'[b].by = b /\ ByItsBuilder(req'[b])
<1>1. CASE rows = {}
  BY <1>1 DEF HandOff, TypeOK, After, ProducerPCs, TickerPCs, StopperPCs, Requested
<1>2. CASE rows # {}
  <2> DEFINE r == [by |-> a, bucket |-> currentBucket, evs |-> rows, wait |-> wait]
  <2>1. pc' = [pc EXCEPT ![a] = "enqueue"] /\ req' = [req EXCEPT ![a] = r]
    BY <1>2 DEF HandOff
  <2>2. r \in Requests /\ r.by = a /\ r.wait = wait
    BY DEF TypeOK, Requests
  <2>3. ByItsBuilder(r)
    BY <2>2 DEF ByItsBuilder
  <2> QED BY <2>1, <2>2, <2>3 DEF TypeOK, ProducerPCs, TickerPCs, StopperPCs, Requested
<1> QED BY <1>1, <1>2


-------------------------------------------------------------------------------
(* Type correctness.  TypeOK alone is not inductive: that only Flush and   *)
(* Shutdown wait for a batch, and that an analysed batch was stored, keep  *)
(* the program counters and analysed within their types.                   *)
Typed == TypeOK /\ Requested /\ StoredThenAnalysed

(* The strengthened type invariant holds at the start, when nothing is     *)
(* buffered, queued or in flight.                                          *)
LEMMA TypedInit == Init => Typed
<1> SUFFICES ASSUME Init PROVE Typed
  OBVIOUS
<1>1. \A a \in Actors : NoRequest(a) \in Requests
  BY MinuteFacts DEF NoRequest, Requests
<1>2. TypeOK
  <2>1. queue \in Seq(Requests) /\ Len(queue) <= QueueCap
    BY QueueAssumption DEF Init
  <2>2. req \in [Actors -> Requests] /\ cur \in Requests
    BY <1>1, ActorFacts DEF Init
  <2>3. /\ pc \in [Actors -> ProducerPCs \cup TickerPCs \cup StopperPCs]
        /\ \A p \in Producers : pc[p] \in ProducerPCs
        /\ pc[Ticker] \in TickerPCs /\ pc[Stopper] \in StopperPCs
    BY ActorFacts DEF Init, ProducerPCs, TickerPCs, StopperPCs
  <2>4. stampOf \in [Events -> Minutes] /\ currentBucket \in Minutes
    BY MinuteFacts DEF Init
  <2> QED BY <2>1, <2>2, <2>3, <2>4 DEF Init, TypeOK
<1>3. Requested
  BY DEF Init, Requested, NoRequest, ByItsBuilder
<1>4. StoredThenAnalysed
  BY DEF Init, StoredThenAnalysed, StoredInHand
<1> QED BY <1>2, <1>3, <1>4 DEF Typed

(* Every step of an actor keeps the types, which requests wait for their   *)
(* batch, and that an analysed batch was stored.                           *)
LEMMA TypedStep == Typed /\ [Next]_vars => Typed'
<1> SUFFICES ASSUME TypeOK, Requested, StoredThenAnalysed, [Next]_vars
             PROVE  TypeOK' /\ Requested' /\ StoredThenAnalysed'
  BY DEF Typed
<1> USE ActorFacts
<1>1. ASSUME NEW p \in Producers, NEW e \in Events, Process(p, e)
      PROVE  TypeOK' /\ Requested' /\ StoredThenAnalysed'
  <2>1. UNCHANGED <<producing, lifeVars, queueVars, workVars>> /\ handed' = handed \cup {e}
    BY <1>1 DEF Process
  <2>2. CASE stopping /\ UNCHANGED <<aggVars, pc, req>>
    BY <2>1, <2>2 DEF TypeOK, Requested, StoredThenAnalysed, StoredInHand, aggVars,
         lifeVars, queueVars, workVars
  <2>3. CASE ~(stopping /\ UNCHANGED <<aggVars, pc, req>>)
    <3> DEFINE rows == IF Advances(e) THEN buffer ELSE {}
    <3>1. Merge(e, IF Advances(e) THEN DrainedBuffer ELSE buffer) /\ HandOff(p, rows, FALSE)
          /\ currentBucket' = IF currentBucket = 0 \/ Advances(e)
                              THEN Minute[e] ELSE currentBucket
      BY <1>1, <2>3 DEF Process
    <3>2. (IF Advances(e) THEN DrainedBuffer ELSE buffer) \in SUBSET buffer
      BY DEF DrainedBuffer
    <3>3. /\ buffer' \subseteq Events /\ stampOf' \in [Events -> Minutes]
          /\ accepted' = accepted \cup {e}
      BY <3>1, <3>2, MergeTyped
    <3>4. rows \in SUBSET Events
      BY DEF TypeOK
    <3>5. /\ pc' \in [Actors -> ProducerPCs \cup TickerPCs \cup StopperPCs]
          /\ pc'[p] \in {After(p), "enqueue"}
          /\ \A b \in Actors \ {p} : pc'[b] = pc[b] /\ req'[b] = req[b]
          /\ req' \in [Actors -> Requests]
          /\ \A b \in Actors : req'[b].by = b /\ ByItsBuilder(req'[b])
      BY <3>1, <3>4, HandOffTyped
    <3>6. currentBucket' \in Minutes
      BY <3>1, MinuteFacts DEF TypeOK
    <3> HIDE DEF rows
    <3> QED
      BY <2>1, <3>3, <3>5, <3>6
      DEF TypeOK, Requested, StoredThenAnalysed, StoredInHand, After, ProducerPCs, TickerPCs,
          StopperPCs, ByItsBuilder, lifeVars, queueVars, workVars
  <2> QED BY <2>2, <2>3
<1>2. ASSUME Flush PROVE TypeOK' /\ Requested' /\ StoredThenAnalysed'
  <2>1. HandOff(Ticker, buffer, TRUE) /\ buffer' = {}
        /\ UNCHANGED <<envVars, stampOf, currentBucket, accepted, lifeVars, queueVars, workVars>>
    BY <1>2 DEF Flush, DrainedBuffer
  <2>2. buffer \in SUBSET Events
    BY DEF TypeOK
  <2>3. /\ pc' \in [Actors -> ProducerPCs \cup TickerPCs \cup StopperPCs]
        /\ pc'[Ticker] \in {After(Ticker), "enqueue"}
        /\ \A b \in Actors \ {Ticker} : pc'[b] = pc[b] /\ req'[b] = req[b]
        /\ req' \in [Actors -> Requests]
        /\ \A b \in Actors : req'[b].by = b /\ ByItsBuilder(req'[b])
    BY <2>1, <2>2, HandOffTyped
  <2> QED
    BY <2>1, <2>3
    DEF TypeOK, Requested, StoredThenAnalysed, StoredInHand, After, ProducerPCs, TickerPCs,
        StopperPCs, ByItsBuilder, envVars, lifeVars, queueVars, workVars
<1>3. ASSUME TickerExit PROVE TypeOK' /\ Requested' /\ StoredThenAnalysed'
  BY <1>3 DEF TickerExit, TypeOK, Requested, StoredThenAnalysed, StoredInHand, TickerPCs,
     envVars, aggVars, lifeVars, queueVars, workVars
<1>4. ASSUME NEW a \in Actors, LockQueue(a)
      PROVE  TypeOK' /\ Requested' /\ StoredThenAnalysed'
  <2>1. UNCHANGED <<envVars, aggVars, lifeVars, req, queue, queueClosed, workVars>>
    BY <1>4 DEF LockQueue
  <2>2. /\ pc' = [pc EXCEPT ![a] = pc'[a]] /\ pc'[a] \in {After(a), "send"}
        /\ dropped' \subseteq dropped \cup req[a].evs
        /\ queueHolder' \in {queueHolder, a}
    BY <1>4 DEF LockQueue, TypeOK
  <2>3. req[a].evs \subseteq Events
    BY DEF TypeOK, Requests
  <2> QED BY <2>1, <2>2, <2>3
    DEF TypeOK, Requested, StoredThenAnalysed, StoredInHand, After, ProducerPCs, TickerPCs,
        StopperPCs, envVars, aggVars, lifeVars, workVars
<1>5. ASSUME NEW a \in Actors, Send(a)
      PROVE  TypeOK' /\ Requested' /\ StoredThenAnalysed'
  <2>1. UNCHANGED <<envVars, aggVars, lifeVars, req, queueClosed, dropped, workVars>>
    BY <1>5 DEF Send
  <2>2. /\ pc' = [pc EXCEPT ![a] = AfterSend(a)]
        /\ queue' = Append(queue, req[a]) /\ Len(queue) < QueueCap
        /\ queueHolder' = NoActor
    BY <1>5 DEF Send, QueueHasRoom
  <2>3. req[a] \in Requests /\ req[a].by = a /\ ByItsBuilder(req[a])
    BY DEF TypeOK, Requested
  <2>4. /\ queue' \in Seq(Requests) /\ Len(queue') = Len(queue) + 1
        /\ \A i \in 1..Len(queue') : queue'[i] = IF i <= Len(queue) THEN queue[i] ELSE req[a]
    BY <2>2, <2>3 DEF TypeOK
  <2>5. Len(queue') <= QueueCap
    BY <2>2, <2>4, QueueAssumption DEF TypeOK
  <2>6. \A i \in 1..Len(queue') : ByItsBuilder(queue'[i])
    <3> SUFFICES ASSUME NEW i \in 1..Len(queue') PROVE ByItsBuilder(queue'[i])
      OBVIOUS
    <3>1. CASE i <= Len(queue)
      BY <2>4, <3>1 DEF Requested
    <3>2. CASE ~(i <= Len(queue))
      BY <2>3, <2>4, <3>2
    <3> QED BY <3>1, <3>2
  <2>7. AfterSend(a) \in IF a = Stopper THEN {"await", "close"}
                         ELSE IF a = Ticker THEN {"await", "idle"} ELSE {"idle"}
    BY <2>3 DEF AfterSend, After, ByItsBuilder
  <2>8. TypeOK'
    BY <2>1, <2>2, <2>4, <2>5, <2>7
    DEF TypeOK, ProducerPCs, TickerPCs, StopperPCs, envVars, aggVars, lifeVars, workVars
  <2> QED BY <2>1, <2>6, <2>8
    DEF Requested, StoredThenAnalysed, StoredInHand, ByItsBuilder, workVars
<1>6. ASSUME Take PROVE TypeOK' /\ Requested' /\ StoredThenAnalysed'
  <2>1. /\ queue # <<>> /\ cur' = Head(queue) /\ queue' = Tail(queue)
        /\ wpc = "idle" /\ wpc' = "save"
        /\ UNCHANGED <<envVars, aggVars, lifeVars, pc, req, queueHolder, queueClosed,
                       dropped, stored, failed, analysed>>
    BY <1>6 DEF Take
  <2>2. /\ Len(queue) > 0 /\ Head(queue) = queue[1] /\ queue[1] \in Requests
        /\ queue' \in Seq(Requests) /\ Len(queue') = Len(queue) - 1
        /\ \A i \in 1..Len(queue') : i + 1 \in 1..Len(queue) /\ queue'[i] = queue[i + 1]
    BY <2>1 DEF TypeOK
  <2>3. Len(queue') <= QueueCap
    BY <2>2, QueueAssumption DEF TypeOK
  <2>4. TypeOK'
    BY <2>1, <2>2, <2>3 DEF TypeOK, envVars, aggVars, lifeVars
  <2>5. Requested'
    BY <2>1, <2>2 DEF Requested, ByItsBuilder
  <2>6. StoredThenAnalysed'
    BY <2>1 DEF StoredThenAnalysed, StoredInHand
  <2> QED BY <2>4, <2>5, <2>6
<1>7. ASSUME SaveSucceeds PROVE TypeOK' /\ Requested' /\ StoredThenAnalysed'
  <2>1. cur.evs \subseteq Events
    BY DEF TypeOK, Requests
  <2> QED BY <1>7, <2>1
    DEF SaveSucceeds, TypeOK, Requested, StoredThenAnalysed, StoredInHand, ByItsBuilder,
        envVars, aggVars, lifeVars, queueVars
<1>8. ASSUME SaveFails PROVE TypeOK' /\ Requested' /\ StoredThenAnalysed'
  <2>1. cur.evs \subseteq Events
    BY DEF TypeOK, Requests
  <2> QED BY <1>8, <2>1
    DEF SaveFails, AfterSaveError, TypeOK, Requested, StoredThenAnalysed, StoredInHand,
        ByItsBuilder, envVars, aggVars, lifeVars, queueVars
<1>9. ASSUME RunCallbacks PROVE TypeOK' /\ Requested' /\ StoredThenAnalysed'
  BY <1>9 DEF RunCallbacks, TypeOK, Requested, StoredThenAnalysed, StoredInHand,
     ByItsBuilder, envVars, aggVars, lifeVars, queueVars
<1>10. ASSUME Signal PROVE TypeOK' /\ Requested' /\ StoredThenAnalysed'
  <2>1. wpc = "signal" /\ wpc' = "idle"
        /\ UNCHANGED <<envVars, aggVars, lifeVars, req, queueVars, cur, stored, failed, analysed>>
    BY <1>10 DEF Signal
  <2>2. CASE cur.wait
    <3>1. cur.by \in {Ticker, Stopper} /\ pc' = [pc EXCEPT ![cur.by] = After(cur.by)]
      BY <1>10, <2>2 DEF Signal, Requested, ByItsBuilder
    <3> QED BY <2>1, <3>1
      DEF TypeOK, Requested, StoredThenAnalysed, StoredInHand, ByItsBuilder, After,
          ProducerPCs, TickerPCs, StopperPCs, envVars, aggVars, lifeVars, queueVars
  <2>3. CASE ~cur.wait
    <3>1. pc' = pc
      BY <1>10, <2>3 DEF Signal
    <3> QED BY <2>1, <3>1
      DEF TypeOK, Requested, StoredThenAnalysed, StoredInHand, ByItsBuilder,
          envVars, aggVars, lifeVars, queueVars
  <2> QED BY <2>2, <2>3
<1>11. ASSUME WorkerExit PROVE TypeOK' /\ Requested' /\ StoredThenAnalysed'
  BY <1>11 DEF WorkerExit, TypeOK, Requested, StoredThenAnalysed, StoredInHand,
     ByItsBuilder, envVars, aggVars, lifeVars, queueVars
<1>12. ASSUME JoinProducers PROVE TypeOK' /\ Requested' /\ StoredThenAnalysed'
  BY <1>12 DEF JoinProducers, TypeOK, Requested, StoredThenAnalysed, StoredInHand,
     ByItsBuilder, aggVars, lifeVars, queueVars, workVars
<1>13. ASSUME Cancel PROVE TypeOK' /\ Requested' /\ StoredThenAnalysed'
  BY <1>13 DEF Cancel, TypeOK, Requested, StoredThenAnalysed, StoredInHand, StopperPCs,
     ByItsBuilder, envVars, aggVars, queueVars, workVars
<1>14. ASSUME DrainForShutdown PROVE TypeOK' /\ Requested' /\ StoredThenAnalysed'
  <2>1. /\ HandOff(Stopper, buffer, TRUE) /\ buffer' = {} /\ stopping' = TRUE
        /\ UNCHANGED <<envVars, stampOf, currentBucket, accepted, cancelled, queueVars, workVars>>
    BY <1>14 DEF DrainForShutdown, DrainedBuffer
  <2>2. buffer \in SUBSET Events
    BY DEF TypeOK
  <2>3. /\ pc' \in [Actors -> ProducerPCs \cup TickerPCs \cup StopperPCs]
        /\ pc'[Stopper] \in {After(Stopper), "enqueue"}
        /\ \A b \in Actors \ {Stopper} : pc'[b] = pc[b] /\ req'[b] = req[b]
        /\ req' \in [Actors -> Requests]
        /\ \A b \in Actors : req'[b].by = b /\ ByItsBuilder(req'[b])
    BY <2>1, <2>2, HandOffTyped
  <2> QED
    BY <2>1, <2>3
    DEF TypeOK, Requested, StoredThenAnalysed, StoredInHand, After, ProducerPCs, TickerPCs,
        StopperPCs, ByItsBuilder, envVars, queueVars, workVars
<1>15. ASSUME CloseQueue PROVE TypeOK' /\ Requested' /\ StoredThenAnalysed'
  BY <1>15 DEF CloseQueue, TypeOK, Requested, StoredThenAnalysed, StoredInHand, StopperPCs,
     ByItsBuilder, envVars, aggVars, lifeVars, workVars
<1>16. ASSUME ShutdownReturns PROVE TypeOK' /\ Requested' /\ StoredThenAnalysed'
  BY <1>16 DEF ShutdownReturns, TypeOK, Requested, StoredThenAnalysed, StoredInHand,
     StopperPCs, ByItsBuilder, envVars, aggVars, lifeVars, queueVars, workVars
<1>17. ASSUME UNCHANGED vars PROVE TypeOK' /\ Requested' /\ StoredThenAnalysed'
  BY <1>17 DEF vars, TypeOK, Requested, StoredThenAnalysed, StoredInHand, ByItsBuilder
<1> QED
  BY <1>1, <1>2, <1>3, <1>4, <1>5, <1>6, <1>7, <1>8, <1>9, <1>10, <1>11, <1>12, <1>13,
     <1>14, <1>15, <1>16, <1>17 DEF Next, Enqueue, Worker, Stop, Down

(* Every state of the aggregator has the types of TypeOK: in particular    *)
(* the flush channel never exceeds its capacity and nothing is analysed    *)
(* that was not stored.                                                    *)
THEOREM TypeCorrect == SafeSpec => []Typed
BY TypedInit, TypedStep, PTL DEF SafeSpec

(* The variables of the aggregator keep their types: the buffer, the       *)
(* requests and the queue, the times, and every actor is at a step of its  *)
(* own code.                                                               *)
THEOREM TypeSafe == SafeSpec => []TypeOK
<1>1. Typed => TypeOK
  BY DEF Typed
<1> QED BY <1>1, TypeCorrect, PTL

-------------------------------------------------------------------------------
(* The flush queue mutex.                                                  *)

(* After HandOff the actor has drained rows to enqueue or goes on; the     *)
(* other actors and their requests are as they were.                       *)
LEMMA HandOffMoves ==
  ASSUME TypeOK, NEW a \in Actors, NEW rows, NEW wait, HandOff(a, rows, wait)
  PROVE  /\ \A b \in Actors \ {a} : pc'[b] = pc[b] /\ req'[b] = req[b]
         /\ rows = {} => pc'[a] = After(a) /\ req'[a] = req[a]
         /\ rows # {} => /\ pc'[a] = "enqueue"
                         /\ req'[a] = [by |-> a, bucket |-> currentBucket,
                                       evs |-> rows, wait |-> wait]
BY DEF HandOff, TypeOK

(* Process moves nobody but its caller, which starts idle and ends idle or *)
(* with a batch to enqueue, and its event is new.                          *)
LEMMA ProcessMoves ==
  ASSUME TypeOK, NEW p \in Producers, NEW e \in Events, Process(p, e)
  PROVE  /\ \A b \in Actors \ {p} : pc'[b] = pc[b] /\ req'[b] = req[b]
         /\ pc[p] = "idle" /\ pc'[p] \in {"idle", "enqueue"}
         /\ e \notin accepted
<1> USE ActorFacts
<1>1. pc[p] = "idle" /\ e \in Events \ handed
  BY DEF Process
<1>2. accepted \subseteq handed
  BY DEF TypeOK
<1>3. CASE stopping
  <2>1. UNCHANGED <<pc, req>>
    BY <1>3 DEF Process
  <2> QED BY <1>1, <1>2, <2>1
<1>4. CASE ~stopping
  <2>1. PICK rows : HandOff(p, rows, FALSE)
    BY <1>4 DEF Process
  <2>2. \A b \in Actors \ {p} : pc'[b] = pc[b] /\ req'[b] = req[b]
    BY <2>1, HandOffMoves
  <2>3. pc'[p] \in {"idle", "enqueue"}
    <3>1. pc'[p] = After(p) \/ pc'[p] = "enqueue"
      BY <2>1, HandOffMoves
    <3> QED BY <3>1 DEF After
  <2> QED BY <1>1, <1>2, <2>2, <2>3
<1> QED BY <1>3, <1>4

(* Every action that leaves the queue mutex alone moves no actor to or     *)
(* from the send.                                                          *)
LEMMA HolderKept ==
  ASSUME HolderSends, UNCHANGED <<queueHolder, queueClosed>>,
         \A a \in Actors : pc'[a] = pc[a] \/ (pc[a] # "send" /\ pc'[a] # "send")
  PROVE  HolderSends'
BY DEF HolderSends

(* Every step keeps queueMu with the actor that is about to send, or with  *)
(* nobody.                                                                 *)
LEMMA HolderStep == Typed /\ Awaited /\ HolderSends /\ [Next]_vars => HolderSends'
<1> SUFFICES ASSUME TypeOK, Requested, Awaited, HolderSends, [Next]_vars PROVE HolderSends'
  BY DEF Typed
<1> USE ActorFacts DEF queueVars
<1>1. ASSUME NEW p \in Producers, NEW e \in Events, Process(p, e) PROVE HolderSends'
  <2>1. UNCHANGED <<queueHolder, queueClosed>> /\ pc[p] = "idle"
    BY <1>1 DEF Process
  <2>2. \A b \in Actors \ {p} : pc'[b] = pc[b]
    BY <1>1, ProcessMoves
  <2>3. pc'[p] \in {"idle", "enqueue"}
    BY <1>1, ProcessMoves
  <2> QED BY <2>1, <2>2, <2>3, HolderKept
<1>2. ASSUME Flush PROVE HolderSends'
  <2>1. UNCHANGED <<queueHolder, queueClosed>> /\ pc[Ticker] = "idle"
    BY <1>2 DEF Flush
  <2>2. /\ \A b \in Actors \ {Ticker} : pc'[b] = pc[b]
        /\ pc'[Ticker] \in {"idle", "enqueue"}
    BY <1>2, HandOffMoves DEF Flush, After
  <2> QED BY <2>1, <2>2, HolderKept
<1>3. ASSUME DrainForShutdown PROVE HolderSends'
  <2>1. UNCHANGED <<queueHolder, queueClosed>> /\ pc[Stopper] = "join"
    BY <1>3 DEF DrainForShutdown
  <2>2. /\ \A b \in Actors \ {Stopper} : pc'[b] = pc[b]
        /\ pc'[Stopper] \in {"close", "enqueue"}
    BY <1>3, HandOffMoves DEF DrainForShutdown, After
  <2> QED BY <2>1, <2>2, HolderKept
<1>4. ASSUME NEW a \in Actors, LockQueue(a) PROVE HolderSends'
  BY <1>4 DEF LockQueue, QueueFree, HolderSends, After, TypeOK
<1>5. ASSUME NEW a \in Actors, Send(a) PROVE HolderSends'
  BY <1>5 DEF Send, HolderSends, AfterSend, After, TypeOK
<1>6. ASSUME Signal PROVE HolderSends'
  <2>1. UNCHANGED <<queueHolder, queueClosed>>
    BY <1>6 DEF Signal
  <2>2. CASE cur.wait
    <3>1. /\ pc[cur.by] = "await" /\ pc' = [pc EXCEPT ![cur.by] = After(cur.by)]
      BY <1>6, <2>2 DEF Signal, Awaited, Busy, Waiting
    <3> QED BY <2>1, <3>1, HolderKept DEF After, TypeOK
  <2>3. CASE ~cur.wait
    BY <1>6, <2>1, <2>3, HolderKept DEF Signal
  <2> QED BY <2>2, <2>3
<1>7. ASSUME CloseQueue PROVE HolderSends'
  BY <1>7 DEF CloseQueue, QueueFree, HolderSends, TypeOK
<1>8. ASSUME TickerExit \/ Take \/ SaveSucceeds \/ SaveFails \/ RunCallbacks \/ WorkerExit
             \/ JoinProducers \/ Cancel \/ ShutdownReturns \/ UNCHANGED vars
      PROVE  HolderSends'
  <2>1. UNCHANGED <<queueHolder, queueClosed>>
    BY <1>8 DEF TickerExit, Take, SaveSucceeds, SaveFails, RunCallbacks, WorkerExit,
       JoinProducers, Cancel, ShutdownReturns, vars
  <2>2. \A a \in Actors : pc'[a] = pc[a] \/ (pc[a] # "send" /\ pc'[a] # "send")
    BY <1>8 DEF TickerExit, Take, SaveSucceeds, SaveFails, RunCallbacks, WorkerExit,
       JoinProducers, Cancel, ShutdownReturns, vars, TypeOK
  <2> QED BY <2>1, <2>2, HolderKept
<1> QED
  BY <1>1, <1>2, <1>3, <1>4, <1>5, <1>6, <1>7, <1>8 DEF Next, Enqueue, Worker, Stop, Down

-------------------------------------------------------------------------------
(* The done channels.                                                      *)

(* Waiting is undisturbed by an action that neither wakes an actor nor     *)
(* touches the queue or the worker's request.                              *)
LEMMA AwaitedKept ==
  ASSUME Typed, Awaited, UNCHANGED <<queue, cur, wpc, analysed, failed>>,
         \A a \in Actors : pc[a] = "await" => pc'[a] = "await" /\ req'[a] = req[a],
         \A a \in {Ticker, Stopper} :
           pc'[a] \in {"enqueue", "send", "await"} => req'[a].wait
  PROVE  Awaited'
<1>1. \A i \in 1..Len(queue) : queue[i] \in Requests
  BY DEF Typed, TypeOK
<1>2. \A r \in Requests : r.by \in Actors /\ (Waiting(r) => Waiting(r)')
  BY DEF Requests, Waiting
<1>3. cur \in Requests
  BY DEF Typed, TypeOK
<1> QED BY <1>1, <1>2, <1>3 DEF Awaited, Busy

(* Every step keeps it: whoever waits for a batch waits for one request,   *)
(* which is in the queue or in the worker's hands.                         *)
LEMMA AwaitedStep == Typed /\ Awaited /\ [Next]_vars => Awaited'
<1> SUFFICES ASSUME Typed, Awaited, [Next]_vars PROVE Awaited'
  OBVIOUS
<1> USE ActorFacts DEF queueVars, workVars
<1>0. TypeOK /\ Requested
  BY DEF Typed
<1>1. ASSUME NEW p \in Producers, NEW e \in Events, Process(p, e) PROVE Awaited'
  <2>1. UNCHANGED <<queue, cur, wpc, analysed, failed>> /\ pc[p] = "idle"
    BY <1>1 DEF Process
  <2>2. \A b \in Actors \ {p} : pc'[b] = pc[b] /\ req'[b] = req[b]
    BY <1>0, <1>1, ProcessMoves
  <2> QED BY <2>1, <2>2, AwaitedKept DEF Awaited
<1>2. ASSUME Flush PROVE Awaited'
  <2>1. UNCHANGED <<queue, cur, wpc, analysed, failed>> /\ pc[Ticker] = "idle"
        /\ HandOff(Ticker, buffer, TRUE)
    BY <1>2 DEF Flush
  <2>2. \A b \in Actors \ {Ticker} : pc'[b] = pc[b] /\ req'[b] = req[b]
    BY <1>0, <2>1, HandOffMoves
  <2>3. pc'[Ticker] = "idle" \/ req'[Ticker].wait
    <3>1. CASE buffer = {}
      BY <1>0, <2>1, <3>1, HandOffMoves DEF After
    <3>2. CASE buffer # {}
      BY <1>0, <2>1, <3>2 DEF HandOff, TypeOK
    <3> QED BY <3>1, <3>2
  <2> QED BY <2>1, <2>2, <2>3, AwaitedKept DEF Awaited
<1>3. ASSUME DrainForShutdown PROVE Awaited'
  <2>1. UNCHANGED <<queue, cur, wpc, analysed, failed>> /\ pc[Stopper] = "join"
        /\ HandOff(Stopper, buffer, TRUE)
    BY <1>3 DEF DrainForShutdown
  <2>2. \A b \in Actors \ {Stopper} : pc'[b] = pc[b] /\ req'[b] = req[b]
    BY <1>0, <2>1, HandOffMoves
  <2>3. pc'[Stopper] = "close" \/ req'[Stopper].wait
    <3>1. CASE buffer = {}
      BY <1>0, <2>1, <3>1, HandOffMoves DEF After
    <3>2. CASE buffer # {}
      BY <1>0, <2>1, <3>2 DEF HandOff, TypeOK
    <3> QED BY <3>1, <3>2
  <2> QED BY <2>1, <2>2, <2>3, AwaitedKept DEF Awaited
<1>4. ASSUME NEW a \in Actors, LockQueue(a) PROVE Awaited'
  <2>1. UNCHANGED <<queue, cur, wpc, analysed, failed, req>> /\ pc[a] = "enqueue"
        /\ \A b \in Actors \ {a} : pc'[b] = pc[b]
        /\ pc'[a] \in {"send", "close", "idle"}
    BY <1>0, <1>4 DEF LockQueue, After, TypeOK
  <2> QED BY <2>1, AwaitedKept DEF Awaited
<1>5. ASSUME NEW a \in Actors, Send(a) PROVE Awaited'
  <2>1. /\ UNCHANGED <<cur, wpc, analysed, failed, req>> /\ pc[a] = "send"
        /\ \A b \in Actors \ {a} : pc'[b] = pc[b]
        /\ pc'[a] = IF req[a].wait THEN "await" ELSE After(a)
        /\ queue' = Append(queue, req[a]) /\ req[a].by = a
    BY <1>0, <1>5 DEF Send, AfterSend, TypeOK, Requested
  <2>2. /\ req[a] \in Requests /\ queue \in Seq(Requests) /\ Len(queue) \in Nat
        /\ Len(queue') = Len(queue) + 1
        /\ \A i \in 1..Len(queue') : queue'[i] = IF i <= Len(queue) THEN queue[i] ELSE req[a]
    BY <1>0, <2>1 DEF TypeOK
  <2>3. /\ \A r \in Requests : Waiting(r) => /\ r.by # a /\ pc'[r.by] = "await"
                                          /\ r = req'[r.by]
        /\ req[a].wait => pc'[a] = "await" /\ req[a] = req'[a]
    BY <2>1 DEF Waiting, Requests
  <2>4. \A i \in 1..Len(queue') : queue'[i].wait =>
          /\ pc'[queue'[i].by] = "await" /\ queue'[i] = req'[queue'[i].by]
          /\ i <= Len(queue) => queue'[i].by # a
    <3> SUFFICES ASSUME NEW i \in 1..Len(queue'), queue'[i].wait
                 PROVE  /\ pc'[queue'[i].by] = "await" /\ queue'[i] = req'[queue'[i].by]
                        /\ i <= Len(queue) => queue'[i].by # a
      OBVIOUS
    <3>1. CASE i <= Len(queue)
      <4>1. i \in 1..Len(queue) /\ queue'[i] = queue[i] /\ queue[i] \in Requests
        BY <2>2, <3>1
      <4> QED BY <2>3, <4>1 DEF Awaited
    <3>2. CASE ~(i <= Len(queue))
      BY <2>1, <2>2, <2>3, <3>2
    <3> QED BY <3>1, <3>2
  <2>5. \A i, j \in 1..Len(queue') :
          i # j /\ queue'[i].wait /\ queue'[j].wait => queue'[i].by # queue'[j].by
    <3> SUFFICES ASSUME NEW i \in 1..Len(queue'), NEW j \in 1..Len(queue'), i < j,
                        queue'[i].wait, queue'[j].wait
                 PROVE  queue'[i].by # queue'[j].by
      BY <2>2
    <3>1. i \in 1..Len(queue) /\ queue'[i] = queue[i] /\ queue'[i].by # a
      BY <2>2, <2>4
    <3>2. CASE j <= Len(queue)
      BY <2>2, <3>1, <3>2 DEF Awaited
    <3>3. CASE ~(j <= Len(queue))
      BY <2>1, <2>2, <3>1, <3>3
    <3> QED BY <3>2, <3>3
  <2>6. Busy /\ cur.wait => cur.by # a /\ Waiting(cur)'
    BY <1>0, <2>1 DEF Awaited, Waiting, TypeOK, Requests
  <2>7. Busy /\ cur.wait => \A i \in 1..Len(queue') : queue'[i].wait => queue'[i].by # cur.by
    <3> SUFFICES ASSUME Busy, cur.wait, NEW i \in 1..Len(queue'), queue'[i].wait
                 PROVE  queue'[i].by # cur.by
      OBVIOUS
    <3>1. CASE i <= Len(queue)
      BY <2>2, <3>1 DEF Awaited
    <3>2. CASE ~(i <= Len(queue))
      BY <2>1, <2>2, <2>6, <3>2
    <3> QED BY <3>1, <3>2
  <2>8. \A b \in {Ticker, Stopper} : pc'[b] \in {"enqueue", "send", "await"} => req[b].wait
    BY <2>1 DEF Awaited, After
  <2> QED BY <2>1, <2>4, <2>5, <2>6, <2>7, <2>8 DEF Awaited, Busy, Waiting
<1>6. ASSUME Take PROVE Awaited'
  <2>1. /\ UNCHANGED <<pc, req, analysed, failed>> /\ cur' = Head(queue) /\ queue' = Tail(queue)
        /\ wpc' = "save" /\ queue # <<>>
    BY <1>6 DEF Take
  <2>2. /\ queue \in Seq(Requests) /\ Len(queue) > 0 /\ cur' = queue[1]
        /\ 1 \in 1..Len(queue)
        /\ \A i \in 1..Len(queue') : i + 1 \in 1..Len(queue) /\ i + 1 # 1
                                     /\ queue'[i] = queue[i + 1]
        /\ \A i, j \in 1..Len(queue') : i # j => i + 1 # j + 1
    BY <1>0, <2>1 DEF TypeOK
  <2>3. \A r : Waiting(r) => Waiting(r)'
    BY <2>1 DEF Waiting
  <2> QED BY <2>1, <2>2, <2>3 DEF Awaited, Busy
<1>7. ASSUME SaveSucceeds \/ SaveFails \/ RunCallbacks PROVE Awaited'
  <2>1. /\ UNCHANGED <<pc, req, queue, cur>> /\ Busy /\ Busy'
        /\ wpc' = "signal" => cur.evs \subseteq analysed' \cup failed'
    BY <1>7 DEF SaveSucceeds, SaveFails, RunCallbacks, AfterSaveError, Busy
  <2>2. \A r : Waiting(r) => Waiting(r)'
    BY <2>1 DEF Waiting
  <2> QED BY <2>1, <2>2 DEF Awaited
<1>8. ASSUME Signal PROVE Awaited'
  <2>1. /\ UNCHANGED <<req, queue, cur, analysed, failed>> /\ Busy /\ ~Busy'
        /\ wpc' = "idle"
    BY <1>8 DEF Signal, Busy
  <2>2. /\ \A i \in 1..Len(queue) : queue[i].wait => pc'[queue[i].by] = pc[queue[i].by]
        /\ \A b \in {Ticker, Stopper} : pc'[b] = pc[b] \/ pc'[b] \in {"idle", "close"}
    <3>1. CASE cur.wait
      <4>1. cur.by \in Actors /\ pc' = [pc EXCEPT ![cur.by] = After(cur.by)]
        BY <1>0, <1>8, <3>1 DEF Signal, TypeOK, Requests
      <4>2. \A i \in 1..Len(queue) : queue[i].by \in Actors
        <5>1. \A i \in 1..Len(queue) : queue[i] \in Requests
          BY <1>0 DEF TypeOK
        <5> QED BY <5>1 DEF Requests
      <4> QED BY <1>0, <2>1, <3>1, <4>1, <4>2 DEF Awaited, After, TypeOK
    <3>2. CASE ~cur.wait
      BY <1>8, <3>2 DEF Signal
    <3> QED BY <3>1, <3>2
  <2> QED BY <2>1, <2>2 DEF Awaited, Waiting
<1>9. ASSUME WorkerExit PROVE Awaited'
  BY <1>9 DEF WorkerExit, Awaited, Waiting, Busy
<1>10. ASSUME TickerExit \/ JoinProducers \/ Cancel \/ CloseQueue \/ ShutdownReturns
              \/ UNCHANGED vars
       PROVE  Awaited'
  <2>1. UNCHANGED <<queue, cur, wpc, analysed, failed, req>>
    BY <1>10 DEF TickerExit, JoinProducers, Cancel, CloseQueue, ShutdownReturns, vars
  <2>2. \A a \in Actors : pc'[a] = pc[a]
          \/ (pc[a] # "await" /\ pc'[a] \notin {"enqueue", "send", "await"})
    BY <1>0, <1>10 DEF TickerExit, JoinProducers, Cancel, CloseQueue, ShutdownReturns, vars, TypeOK
  <2> QED BY <2>1, <2>2, AwaitedKept DEF Awaited
<1> QED
  BY <1>1, <1>2, <1>3, <1>4, <1>5, <1>6, <1>7, <1>8, <1>9, <1>10
  DEF Next, Enqueue, Worker, Stop, Down

(* The waiting discipline and the mutex discipline hold in every state.    *)
LEMMA Waits == SafeSpec => [](Awaited /\ HolderSends)
<1>1. Init => Awaited /\ HolderSends
  BY ActorFacts DEF Init, Awaited, HolderSends, Busy
<1>2. Typed /\ (Awaited /\ HolderSends) /\ [Next]_vars => (Awaited /\ HolderSends)'
  BY AwaitedStep, HolderStep
<1> QED BY <1>1, <1>2, TypeCorrect, PTL DEF SafeSpec

(* No goroutine ever sends on the closed flush channel, for any number of  *)
(* producers and whether or not they are joined before Shutdown.           *)
THEOREM SendSafe == SafeSpec => []NoSendOnClosedQueue
<1>1. HolderSends => NoSendOnClosedQueue
  BY ActorFacts DEF HolderSends, NoSendOnClosedQueue
<1> QED BY <1>1, Waits, PTL

-------------------------------------------------------------------------------
(* The phases of Shutdown.                                                 *)

(* Every step keeps the order of the phases: stopping, closing the queue,  *)
(* and the worker's exit.                                                  *)
LEMMA PhasesStep ==
  Typed /\ Awaited /\ HolderSends /\ Phases /\ [Next]_vars => Phases'
<1> SUFFICES ASSUME Typed, Awaited, HolderSends, Phases, [Next]_vars PROVE Phases'
  OBVIOUS
<1> USE ActorFacts DEF queueVars, workVars, envVars, aggVars, lifeVars
<1>0. TypeOK /\ Requested
  BY DEF Typed
<1>1. ASSUME NEW p \in Producers, NEW e \in Events, Process(p, e) PROVE Phases'
  <2>1. /\ UNCHANGED <<producing, stopping, wpc, queue, queueClosed, dropped>>
        /\ pc[p] = "idle" /\ producing /\ (stopping => buffer' = buffer)
    BY <1>1 DEF Process
  <2>2. \A b \in Actors \ {p} : pc'[b] = pc[b]
    BY <1>0, <1>1, ProcessMoves
  <2> QED BY <2>1, <2>2 DEF Phases
<1>2. ASSUME Flush PROVE Phases'
  <2>1. /\ UNCHANGED <<producing, stopping, wpc, queue, queueClosed, dropped>> /\ ~stopping
    BY <1>2 DEF Flush
  <2>2. \A b \in Actors \ {Ticker} : pc'[b] = pc[b]
    BY <1>0, <1>2, HandOffMoves DEF Flush
  <2> QED BY <2>1, <2>2 DEF Phases
<1>3. ASSUME DrainForShutdown PROVE Phases'
  <2>1. /\ UNCHANGED <<producing, wpc, queue, queueClosed, dropped>> /\ stopping' = TRUE
        /\ buffer' = {} /\ pc[Stopper] = "join" /\ pc[Ticker] = "exited"
    BY <1>3 DEF DrainForShutdown, DrainedBuffer
  <2>2. /\ \A b \in Actors \ {Stopper} : pc'[b] = pc[b]
        /\ pc'[Stopper] \in {"close", "enqueue"}
    BY <1>0, <1>3, HandOffMoves DEF DrainForShutdown, After
  <2> QED BY <2>1, <2>2 DEF Phases
<1>4. ASSUME NEW a \in Actors, LockQueue(a) PROVE Phases'
  <2>1. /\ UNCHANGED <<producing, stopping, buffer, wpc, queue, queueClosed>>
        /\ \A b \in Actors \ {a} : pc'[b] = pc[b]
        /\ pc[a] = "enqueue" /\ pc'[a] \in {After(a), "send"}
        /\ dropped' = dropped \/ queueClosed
    BY <1>0, <1>4 DEF LockQueue, TypeOK
  <2>2. ProducersJoined => dropped' = {}
    BY <2>1 DEF Phases, Actors
  <2> QED BY <2>1, <2>2 DEF Phases, After
<1>5. ASSUME NEW a \in Actors, Send(a) PROVE Phases'
  <2>1. /\ UNCHANGED <<producing, stopping, buffer, wpc, queueClosed, dropped>>
        /\ \A b \in Actors \ {a} : pc'[b] = pc[b]
        /\ pc[a] = "send" /\ pc'[a] \in {After(a), "await"}
    BY <1>0, <1>5 DEF Send, AfterSend, TypeOK
  <2>2. ~queueClosed
    BY <2>1 DEF HolderSends
  <2> QED BY <2>1, <2>2 DEF Phases, After
<1>6. ASSUME Signal PROVE Phases'
  <2>1. UNCHANGED <<producing, stopping, buffer, queue, queueClosed, dropped>>
        /\ wpc = "signal" /\ wpc' = "idle"
    BY <1>6 DEF Signal
  <2>2. CASE cur.wait
    <3>1. /\ cur.by \in {Ticker, Stopper} /\ pc[cur.by] = "await"
          /\ \A b \in Actors \ {cur.by} : pc'[b] = pc[b]
          /\ pc'[cur.by] = After(cur.by)
      BY <1>0, <1>6, <2>1, <2>2
      DEF Signal, Requested, ByItsBuilder, Awaited, Busy, Waiting, TypeOK
    <3> QED BY <2>1, <3>1 DEF Phases, After
  <2>3. CASE ~cur.wait
    BY <1>6, <2>1, <2>3 DEF Signal, Phases
  <2> QED BY <2>2, <2>3
<1>7. ASSUME Take \/ SaveSucceeds \/ SaveFails \/ RunCallbacks \/ WorkerExit PROVE Phases'
  BY <1>7 DEF Take, SaveSucceeds, SaveFails, AfterSaveError, RunCallbacks, WorkerExit, Phases
<1>8. ASSUME TickerExit \/ JoinProducers \/ Cancel PROVE Phases'
  BY <1>0, <1>8 DEF TickerExit, JoinProducers, Cancel, Phases, TypeOK
<1>9. ASSUME CloseQueue \/ ShutdownReturns PROVE Phases'
  BY <1>0, <1>9 DEF CloseQueue, ShutdownReturns, WorkerGone, Phases, TypeOK
<1>10. ASSUME UNCHANGED vars PROVE Phases'
  BY <1>10 DEF vars, Phases
<1> QED
  BY <1>1, <1>2, <1>3, <1>4, <1>5, <1>6, <1>7, <1>8, <1>9, <1>10
  DEF Next, Enqueue, Worker, Stop, Down

(* The inductive invariant as a theorem of the specification: what the     *)
(* proofs that follow start from.                                          *)
LEMMA Invariant == SafeSpec => [](TypeOK /\ IInv)
<1>1. Init => Phases
  BY ActorFacts DEF Init, Phases
<1>2. Typed /\ (Awaited /\ HolderSends) /\ Phases /\ [Next]_vars => Phases'
  BY PhasesStep
<1>3. Typed /\ (Awaited /\ HolderSends) /\ Phases => TypeOK /\ IInv
  BY DEF Typed, IInv
<1> QED BY <1>1, <1>2, <1>3, TypeCorrect, Waits, PTL DEF SafeSpec

-------------------------------------------------------------------------------
(* Accounting: where the accepted events are.                              *)

(* A request added to the queue adds its own events to those queued.       *)
LEMMA QueuedAppend ==
  ASSUME NEW q \in Seq(Requests), NEW r \in Requests
  PROVE  QueuedIn(Append(q, r)) = QueuedIn(q) \cup r.evs
<1>1. /\ Len(Append(q, r)) = Len(q) + 1 /\ Len(q) \in Nat
      /\ \A i \in 1..Len(q) : Append(q, r)[i] = q[i]
      /\ Append(q, r)[Len(q) + 1] = r
  OBVIOUS
<1> QED BY <1>1 DEF QueuedIn

(* The request that leaves the queue takes its own events with it.         *)
LEMMA QueuedTail ==
  ASSUME NEW q \in Seq(Requests), q # <<>>
  PROVE  QueuedIn(q) = q[1].evs \cup QueuedIn(Tail(q))
<1>1. /\ Len(Tail(q)) = Len(q) - 1 /\ Len(q) \in Nat /\ Len(q) > 0
      /\ \A i \in 1..Len(Tail(q)) : i + 1 \in 1..Len(q) /\ Tail(q)[i] = q[i + 1]
      /\ \A i \in 1..Len(q) : i = 1 \/ (i - 1 \in 1..Len(Tail(q)) /\ Tail(q)[i - 1] = q[i])
  OBVIOUS
<1>2. \A e : e \in QueuedIn(q) <=> \E i \in 1..Len(q) : e \in q[i].evs
  BY DEF QueuedIn
<1>3. \A e : e \in QueuedIn(Tail(q)) <=> \E i \in 1..Len(Tail(q)) : e \in Tail(q)[i].evs
  BY DEF QueuedIn
<1>4. ASSUME NEW e \in QueuedIn(q) PROVE e \in q[1].evs \cup QueuedIn(Tail(q))
  <2>1. PICK i \in 1..Len(q) : e \in q[i].evs
    BY <1>2, <1>4
  <2>2. CASE i = 1
    BY <2>1, <2>2
  <2>3. CASE i # 1
    <3>1. i - 1 \in 1..Len(Tail(q)) /\ Tail(q)[i - 1] = q[i]
      BY <1>1, <2>3
    <3>2. e \in Tail(q)[i - 1].evs
      BY <2>1, <3>1
    <3> QED BY <1>3, <3>1, <3>2
  <2> QED BY <2>2, <2>3
<1>5. ASSUME NEW e \in q[1].evs \cup QueuedIn(Tail(q)) PROVE e \in QueuedIn(q)
  <2>1. CASE e \in q[1].evs
    <3>1. 1 \in 1..Len(q)
      BY <1>1
    <3> QED BY <1>2, <2>1, <3>1
  <2>2. CASE e \in QueuedIn(Tail(q))
    <3>1. PICK i \in 1..Len(Tail(q)) : e \in Tail(q)[i].evs
      BY <1>3, <2>2
    <3>2. i + 1 \in 1..Len(q) /\ Tail(q)[i] = q[i + 1]
      BY <1>1
    <3>3. e \in q[i + 1].evs
      BY <3>1, <3>2
    <3> QED BY <1>2, <3>2, <3>3
  <2> QED BY <1>5, <2>1, <2>2
<1> QED BY <1>4, <1>5

(* What happens to AllHeld when one actor's hands fill or empty.           *)
LEMMA HeldKept ==
  ASSUME \A a \in Actors : Held(a)' = Held(a)
  PROVE  AllHeld' = AllHeld
BY DEF AllHeld

(* When one actor comes to hold events, they are added to those held.      *)
LEMMA HeldGained ==
  ASSUME NEW a \in Actors, Held(a) = {}, \A b \in Actors \ {a} : Held(b)' = Held(b)
  PROVE  AllHeld' = AllHeld \cup Held(a)'
BY DEF AllHeld

(* When one actor lets go of events nobody else holds, they are no longer  *)
(* held.                                                                   *)
LEMMA HeldLost ==
  ASSUME NEW a \in Actors, Held(a)' = {}, \A b \in Actors \ {a} : Held(b)' = Held(b),
         \A b \in Actors \ {a} : Disjoint(Held(a), Held(b))
  PROVE  AllHeld' = AllHeld \ Held(a)
BY DEF AllHeld, Disjoint

(* The drained rows change hands: from the buffer to those of actor a.     *)
LEMMA HandOffHeld ==
  ASSUME TypeOK, NEW a \in Actors, NEW rows \in SUBSET Events, NEW wait \in BOOLEAN,
         HandOff(a, rows, wait), pc[a] \notin {"enqueue", "send"}
  PROVE  /\ Held(a) = {} /\ Held(a)' = rows
         /\ \A b \in Actors \ {a} : Held(b)' = Held(b)
         /\ AllHeld' = AllHeld \cup rows
<1>1. \A b \in Actors \ {a} : pc'[b] = pc[b] /\ req'[b] = req[b]
  BY HandOffMoves
<1>2. Held(a) = {} /\ \A b \in Actors \ {a} : Held(b)' = Held(b)
  BY <1>1 DEF Held
<1>3. Held(a)' = rows
  <2>1. CASE rows = {}
    BY <2>1 DEF HandOff, Held, After, TypeOK
  <2>2. CASE rows # {}
    BY <2>2 DEF HandOff, Held, TypeOK
  <2> QED BY <2>1, <2>2
<1> QED BY <1>2, <1>3, HeldGained

(* The rows an actor drains leave the buffer and nobody else holds them.   *)
LEMMA DrainAccounted ==
  ASSUME TypeOK, AccountedOnce, NEW a \in Actors, NEW wait \in BOOLEAN,
         HandOff(a, buffer, wait), pc[a] \notin {"enqueue", "send"},
         NEW news \in SUBSET Events, news \cap accepted = {},
         buffer' = news, accepted' = accepted \cup news,
         UNCHANGED <<queue, wpc, cur, stored, failed, dropped>>
  PROVE  AccountedOnce'
<1>1. /\ Held(a) = {} /\ Held(a)' = buffer
      /\ \A b \in Actors \ {a} : Held(b)' = Held(b)
      /\ AllHeld' = AllHeld \cup buffer
  <2>1. buffer \in SUBSET Events
    BY DEF TypeOK
  <2> QED BY <2>1, HandOffHeld
<1>2. AllQueued' = AllQueued /\ InHand' = InHand /\ Settled' = Settled
  BY DEF AllQueued, QueuedIn, InHand, Settled
<1>3. \A b \in Actors : Held(b) \subseteq AllHeld
  BY DEF AllHeld
<1>4. \A b, c \in Actors : b # c => Disjoint(Held(b), Held(c))'
  BY <1>1, <1>3 DEF AccountedOnce, Disjoint
<1> QED BY <1>1, <1>2, <1>4 DEF AccountedOnce, Disjoint, Settled

(* Every step keeps an accepted event in exactly one place: the buffer, a  *)
(* holder, the queue, the worker's hand, or settled as stored, failed or   *)
(* dropped.                                                                *)
LEMMA AccountedStep == Typed /\ Awaited /\ AccountedOnce /\ [Next]_vars => AccountedOnce'
<1> SUFFICES ASSUME Typed, Awaited, AccountedOnce, [Next]_vars PROVE AccountedOnce'
  OBVIOUS
<1> USE ActorFacts DEF queueVars, workVars, envVars, aggVars, lifeVars
<1>0. TypeOK /\ Requested
  BY DEF Typed
<1>1. ASSUME NEW p \in Producers, NEW e \in Events, Process(p, e) PROVE AccountedOnce'
  <2>1. /\ UNCHANGED <<queue, wpc, cur, stored, failed, dropped>> /\ pc[p] = "idle"
        /\ e \notin accepted
    BY <1>0, <1>1 DEF Process, TypeOK
  <2>2. CASE UNCHANGED <<aggVars, pc, req>>
    BY <2>1, <2>2 DEF AccountedOnce, AllHeld, Held, AllQueued, QueuedIn, InHand, Settled, Disjoint
  <2>3. CASE Advances(e) /\ ~UNCHANGED <<aggVars, pc, req>>
    <3>1. HandOff(p, buffer, FALSE) /\ buffer' = {e} /\ accepted' = accepted \cup {e}
      BY <1>1, <2>3 DEF Process, Merge, DrainedBuffer
    <3> QED BY <1>0, <2>1, <3>1, DrainAccounted
  <2>4. CASE ~Advances(e) /\ ~UNCHANGED <<aggVars, pc, req>>
    <3>1. HandOff(p, {}, FALSE) /\ buffer' = buffer \cup {e} /\ accepted' = accepted \cup {e}
      BY <1>1, <2>4 DEF Process, Merge
    <3>2. \A b \in Actors : Held(b)' = Held(b)
      BY <1>0, <2>1, <3>1, HandOffHeld
    <3>3. AllHeld' = AllHeld /\ AllQueued' = AllQueued /\ InHand' = InHand /\ Settled' = Settled
      BY <2>1, <3>2, HeldKept DEF AllQueued, QueuedIn, InHand, Settled
    <3> QED BY <2>1, <3>1, <3>2, <3>3 DEF AccountedOnce, Disjoint, Settled
  <2> QED BY <2>2, <2>3, <2>4
<1>2. ASSUME Flush PROVE AccountedOnce'
  BY <1>0, <1>2, DrainAccounted DEF Flush, DrainedBuffer
<1>3. ASSUME DrainForShutdown PROVE AccountedOnce'
  BY <1>0, <1>3, DrainAccounted DEF DrainForShutdown, DrainedBuffer
<1>4. ASSUME NEW a \in Actors, LockQueue(a) PROVE AccountedOnce'
  <2>1. /\ UNCHANGED <<accepted, buffer, queue, wpc, cur, stored, failed, req>>
        /\ pc[a] = "enqueue" /\ \A b \in Actors \ {a} : Held(b)' = Held(b)
    BY <1>0, <1>4 DEF LockQueue, Held, TypeOK
  <2>2. AllQueued' = AllQueued /\ InHand' = InHand
    BY <2>1 DEF AllQueued, QueuedIn, InHand
  <2>3. CASE queueClosed
    <3>1. /\ Held(a)' = {} /\ dropped' = dropped \cup Held(a)
      BY <1>0, <1>4, <2>3 DEF LockQueue, Held, After, TypeOK
    <3>2. AllHeld' = AllHeld \ Held(a) /\ Held(a) \subseteq AllHeld
      BY <2>1, <3>1, HeldLost DEF AccountedOnce, AllHeld
    <3>3. \A b, c \in Actors : b # c => Disjoint(Held(b), Held(c))'
      BY <2>1, <3>1 DEF AccountedOnce, Disjoint
    <3> QED BY <2>1, <2>2, <3>1, <3>2, <3>3 DEF AccountedOnce, Disjoint, Settled
  <2>4. CASE ~queueClosed
    <3>1. Held(a)' = Held(a) /\ dropped' = dropped
      BY <1>0, <1>4, <2>4 DEF LockQueue, Held, TypeOK
    <3>2. AllHeld' = AllHeld
      BY <2>1, <3>1, HeldKept
    <3> QED BY <2>1, <2>2, <3>1, <3>2 DEF AccountedOnce, Disjoint, Settled
  <2> QED BY <2>3, <2>4
<1>5. ASSUME NEW a \in Actors, Send(a) PROVE AccountedOnce'
  <2>1. /\ UNCHANGED <<accepted, buffer, wpc, cur, stored, failed, dropped, req>>
        /\ pc[a] = "send" /\ queue' = Append(queue, req[a])
        /\ \A b \in Actors \ {a} : Held(b)' = Held(b)
    BY <1>0, <1>5 DEF Send, Held, TypeOK
  <2>2. Held(a) = req[a].evs /\ Held(a)' = {}
    BY <1>0, <1>5 DEF Send, AfterSend, Held, After, TypeOK
  <2>3. AllHeld' = AllHeld \ Held(a) /\ Held(a) \subseteq AllHeld
    BY <2>1, <2>2, HeldLost DEF AccountedOnce, AllHeld
  <2>4. req[a] \in Requests /\ queue \in Seq(Requests)
    BY <1>0 DEF TypeOK
  <2>5. AllQueued' = AllQueued \cup Held(a)
    BY <2>1, <2>2, <2>4, QueuedAppend DEF AllQueued
  <2>6. InHand' = InHand /\ Settled' = Settled
    BY <2>1 DEF InHand, Settled
  <2>7. \A b, c \in Actors : b # c => Disjoint(Held(b), Held(c))'
    BY <2>1, <2>2 DEF AccountedOnce, Disjoint
  <2>8. \A i, j \in 1..Len(queue') : i # j => Disjoint(queue'[i].evs, queue'[j].evs)
    <3>1. /\ Len(queue') = Len(queue) + 1 /\ Len(queue) \in Nat
          /\ \A i \in 1..Len(queue') : queue'[i] = IF i <= Len(queue) THEN queue[i] ELSE req[a]
      BY <2>1, <2>4
    <3>2. \A i \in 1..Len(queue) : Disjoint(queue[i].evs, Held(a))
      BY <2>3 DEF AccountedOnce, Disjoint, AllQueued, QueuedIn
    <3> QED BY <2>2, <3>1, <3>2 DEF AccountedOnce, Disjoint
  <2> QED BY <2>1, <2>3, <2>5, <2>6, <2>7, <2>8 DEF AccountedOnce, Disjoint, Settled
<1>6. ASSUME Take PROVE AccountedOnce'
  <2>1. /\ UNCHANGED <<accepted, buffer, stored, failed, dropped, pc, req>>
        /\ queue # <<>> /\ queue' = Tail(queue) /\ cur' = Head(queue)
        /\ wpc = "idle" /\ wpc' = "save"
    BY <1>6 DEF Take
  <2>2. queue \in Seq(Requests) /\ Head(queue) = queue[1] /\ Len(queue) \in Nat
        /\ Len(queue) > 0 /\ Len(queue') = Len(queue) - 1
        /\ \A i \in 1..Len(queue') : i + 1 \in 1..Len(queue) /\ queue'[i] = queue[i + 1]
    BY <1>0, <2>1 DEF TypeOK
  <2>3. InHand = {} /\ InHand' = queue[1].evs
    BY <2>1, <2>2 DEF InHand
  <2>4. AllQueued = queue[1].evs \cup AllQueued'
    BY <2>1, <2>2, QueuedTail DEF AllQueued
  <2>5. Disjoint(queue[1].evs, AllQueued')
    <3>1. \A i \in 1..Len(queue') : Disjoint(queue[1].evs, queue'[i].evs)
      BY <2>2 DEF AccountedOnce
    <3> QED BY <3>1 DEF AllQueued, QueuedIn, Disjoint
  <2>6. /\ AllHeld' = AllHeld /\ Settled' = Settled
        /\ \A b \in Actors : Held(b)' = Held(b)
    BY <2>1 DEF AllHeld, Held, Settled
  <2>7. \A i, j \in 1..Len(queue') : i # j => Disjoint(queue'[i].evs, queue'[j].evs)
    BY <2>2 DEF AccountedOnce
  <2> QED BY <2>1, <2>3, <2>4, <2>5, <2>6, <2>7 DEF AccountedOnce, Disjoint, Settled
<1>7. ASSUME SaveSucceeds \/ SaveFails PROVE AccountedOnce'
  <2>1. /\ UNCHANGED <<accepted, buffer, queue, dropped, pc, req>>
        /\ InHand = cur.evs /\ InHand' = {}
        /\ \/ stored' = stored \cup cur.evs /\ failed' = failed
           \/ failed' = failed \cup cur.evs /\ stored' = stored
    BY <1>7 DEF SaveSucceeds, SaveFails, AfterSaveError, InHand
  <2>2. /\ AllHeld' = AllHeld /\ AllQueued' = AllQueued
        /\ \A b \in Actors : Held(b)' = Held(b)
    BY <2>1 DEF AllHeld, Held, AllQueued, QueuedIn
  <2> QED BY <2>1, <2>2 DEF AccountedOnce, Disjoint, Settled
<1>8. ASSUME UNCHANGED <<accepted, buffer, queue, stored, failed, dropped, req, InHand>>,
             \A a \in Actors : pc'[a] = pc[a]
               \/ (pc[a] \notin {"enqueue", "send"} /\ pc'[a] \notin {"enqueue", "send"})
      PROVE  AccountedOnce'
  <2>1. \A a \in Actors : Held(a)' = Held(a)
    BY <1>8 DEF Held
  <2>2. AllHeld' = AllHeld /\ AllQueued' = AllQueued
    BY <1>8, <2>1, HeldKept DEF AllQueued, QueuedIn
  <2> QED BY <1>8, <2>1, <2>2 DEF AccountedOnce, Disjoint, Settled
<1>9. ASSUME Signal PROVE AccountedOnce'
  <2>1. UNCHANGED <<accepted, buffer, queue, stored, failed, dropped, req, InHand>>
    BY <1>9 DEF Signal, InHand
  <2>2. CASE cur.wait
    <3>1. pc[cur.by] = "await" /\ pc' = [pc EXCEPT ![cur.by] = After(cur.by)]
      BY <1>9, <2>2 DEF Signal, Awaited, Busy, Waiting
    <3> QED BY <1>0, <1>8, <2>1, <3>1 DEF After, TypeOK
  <2>3. CASE ~cur.wait
    BY <1>8, <1>9, <2>1, <2>3 DEF Signal
  <2> QED BY <2>2, <2>3
<1>10. ASSUME TickerExit \/ RunCallbacks \/ WorkerExit \/ JoinProducers \/ Cancel
              \/ CloseQueue \/ ShutdownReturns \/ UNCHANGED vars
       PROVE  AccountedOnce'
  <2>1. UNCHANGED <<accepted, buffer, queue, stored, failed, dropped, req, InHand>>
    BY <1>10 DEF TickerExit, RunCallbacks, WorkerExit, JoinProducers, Cancel, CloseQueue,
       ShutdownReturns, vars, InHand
  <2>2. \A a \in Actors : pc'[a] = pc[a]
          \/ (pc[a] \notin {"enqueue", "send"} /\ pc'[a] \notin {"enqueue", "send"})
    BY <1>0, <1>10 DEF TickerExit, RunCallbacks, WorkerExit, JoinProducers, Cancel, CloseQueue,
       ShutdownReturns, vars, TypeOK
  <2> QED BY <1>8, <2>1, <2>2
<1> QED
  BY <1>1, <1>2, <1>3, <1>4, <1>5, <1>6, <1>7, <1>9, <1>10
  DEF Next, Enqueue, Worker, Stop, Down

(* No accepted flow event is lost or counted in two batches, for any       *)
(* number of producers and events and any queue capacity.                  *)
THEOREM Accounted == SafeSpec => []AccountedOnce
<1>1. Init => AccountedOnce
  <2> SUFFICES ASSUME Init PROVE AccountedOnce
    OBVIOUS
  <2>1. AllHeld = {} /\ AllQueued = {} /\ InHand = {} /\ \A a \in Actors : Held(a) = {}
    BY DEF Init, AllHeld, Held, AllQueued, QueuedIn, InHand, NoRequest
  <2> QED BY <2>1 DEF Init, AccountedOnce, Disjoint, Settled
<1>2. Typed /\ (Awaited /\ HolderSends) /\ AccountedOnce /\ [Next]_vars => AccountedOnce'
  BY AccountedStep
<1> QED BY <1>1, <1>2, TypeCorrect, Waits, PTL DEF SafeSpec

-------------------------------------------------------------------------------
(* Well-formed batches.  Only Process stamps an event, and only its own,   *)
(* which is new: the rows of the batches under way keep their stamps.      *)
Stamped(stamp, evs, bucket) ==
  \A e \in evs :
    /\ Minute[e] <= bucket /\ stamp[e] <= bucket
    /\ \A f \in evs : Key[e] = Key[f] => stamp[e] = stamp[f]

(* A set of events stays within its minute when none of their stamps       *)
(* changed.                                                                *)
LEMMA StampedKept ==
  ASSUME NEW stamp, NEW stamp2, NEW evs, NEW bucket, Stamped(stamp, evs, bucket),
         \A e \in evs : stamp2[e] = stamp[e]
  PROVE  Stamped(stamp2, evs, bucket)
BY DEF Stamped

(* BatchesWellFormed says the same thing of the four places a batch can be *)
(* in.                                                                     *)
LEMMA StampedParts ==
  BatchesWellFormed <=>
    /\ Stamped(stampOf, buffer, currentBucket)
    /\ \A a \in Actors : Stamped(stampOf, Held(a), req[a].bucket)
    /\ \A i \in 1..Len(queue) : Stamped(stampOf, queue[i].evs, queue[i].bucket)
    /\ Stamped(stampOf, InHand, cur.bucket)
BY DEF BatchesWellFormed, WellFormed, Stamped

(* Merging a new event into well-formed rows of a bucket that is not       *)
(* older leaves them well formed.                                          *)
LEMMA MergeStamped ==
  ASSUME TypeOK, NEW e \in Events, NEW rows \in SUBSET Events, e \notin rows,
         NEW bucket \in Nat, Stamped(stampOf, rows, bucket), Minute[e] <= bucket, Merge(e, rows)
  PROVE  /\ Stamped(stampOf', buffer', bucket)
         /\ \A x \in Events : x # e => stampOf'[x] = stampOf[x]
<1> DEFINE row == {x \in rows : Key[x] = Key[e]}
           stamp == IF row = {} THEN Minute[e] ELSE stampOf[CHOOSE x \in row : TRUE]
<1>1. buffer' = rows \cup {e} /\ stampOf' = [stampOf EXCEPT ![e] = stamp]
  BY DEF Merge
<1>2. stamp <= bucket /\ \A x \in row : stamp = stampOf[x]
  <2>1. CASE row = {}
    BY <2>1
  <2>2. CASE row # {}
    <3>1. (CHOOSE x \in row : TRUE) \in row
      BY <2>2
    <3> QED BY <2>2, <3>1 DEF Stamped
  <2> QED BY <2>1, <2>2
<1> HIDE DEF stamp
<1>3. stampOf'[e] = stamp /\ \A x \in Events : x # e => stampOf'[x] = stampOf[x]
  BY <1>1 DEF TypeOK
<1>4. \A x \in rows : Key[x] = Key[e] => stampOf'[x] = stamp
  BY <1>2, <1>3
<1> QED BY <1>1, <1>2, <1>3, <1>4 DEF Stamped

(* Every step keeps each batch within the minute it is stamped with        *)
(* (Process, drainLocked, workerLoop).                                     *)
LEMMA BatchesStep == Typed /\ AccountedOnce /\ BatchesWellFormed /\ [Next]_vars
                       => BatchesWellFormed'
<1> SUFFICES ASSUME TypeOK, Requested, AccountedOnce, BatchesWellFormed, [Next]_vars
             PROVE  BatchesWellFormed'
  BY DEF Typed
<1> USE ActorFacts DEF queueVars, workVars, envVars, aggVars, lifeVars
<1>0. /\ Stamped(stampOf, buffer, currentBucket)
      /\ \A a \in Actors : Stamped(stampOf, Held(a), req[a].bucket)
      /\ \A i \in 1..Len(queue) : Stamped(stampOf, queue[i].evs, queue[i].bucket)
      /\ Stamped(stampOf, InHand, cur.bucket)
  BY StampedParts
<1>P. BatchesWellFormed' <=>
        /\ Stamped(stampOf', buffer', currentBucket')
        /\ \A a \in Actors : Stamped(stampOf', Held(a)', req'[a].bucket)
        /\ \A i \in 1..Len(queue') : Stamped(stampOf', queue'[i].evs, queue'[i].bucket)
        /\ Stamped(stampOf', InHand', cur'.bucket)
  BY DEF BatchesWellFormed, WellFormed, Stamped
<1>1. ASSUME NEW p \in Producers, NEW e \in Events, Process(p, e) PROVE BatchesWellFormed'
  <2>1. UNCHANGED <<queueVars, workVars>> /\ e \notin accepted /\ pc[p] = "idle"
        /\ \A b \in Actors \ {p} : pc'[b] = pc[b] /\ req'[b] = req[b]
    BY <1>1, ProcessMoves DEF Process
  <2>2. CASE UNCHANGED <<aggVars, pc, req>>
    BY <1>0, <1>P, <2>1, <2>2 DEF Held, InHand
  <2>3. CASE ~UNCHANGED <<aggVars, pc, req>>
    <3> DEFINE rows == IF Advances(e) THEN {} ELSE buffer
               drained == IF Advances(e) THEN buffer ELSE {}
    <3>1. /\ Merge(e, rows) /\ HandOff(p, drained, FALSE)
          /\ currentBucket' = IF currentBucket = 0 \/ Advances(e)
                              THEN Minute[e] ELSE currentBucket
      BY <1>1, <2>3 DEF Process, DrainedBuffer
    <3>2. /\ buffer \subseteq Events /\ currentBucket \in Nat /\ Minute[e] \in Nat
          /\ e \notin buffer /\ currentBucket' \in Nat /\ Minute[e] <= currentBucket'
      <4>1. /\ buffer \subseteq Events /\ currentBucket \in Nat /\ Minute[e] \in Nat
        BY MinuteFacts DEF TypeOK
      <4>2. e \notin buffer
        BY <2>1 DEF AccountedOnce
      <4>3. currentBucket' \in Nat /\ Minute[e] <= currentBucket'
        BY <3>1, <4>1 DEF Advances
      <4> QED BY <4>1, <4>2, <4>3
    <3>3. Stamped(stampOf, rows, currentBucket')
      <4>1. CASE currentBucket = 0
        <5>1. buffer = {}
          <6> SUFFICES ASSUME NEW x \in buffer PROVE FALSE
            OBVIOUS
          <6>1. Minute[x] <= 0
            BY <1>0, <4>1 DEF Stamped
          <6>2. Minute[x] \in Nat /\ Minute[x] > 0
            BY <3>2, EventAssumption
          <6> QED BY <6>1, <6>2
        <5> QED BY <5>1 DEF Stamped
      <4>2. CASE currentBucket # 0
        BY <1>0, <3>1, <4>2 DEF Stamped
      <4> QED BY <4>1, <4>2
    <3>4. /\ Stamped(stampOf', buffer', currentBucket')
          /\ \A x \in Events : x # e => stampOf'[x] = stampOf[x]
      <4>1. rows \in SUBSET Events /\ e \notin rows
        BY <3>2
      <4> HIDE DEF rows
      <4> QED BY <3>1, <3>2, <3>3, <4>1, MergeStamped
    <3>5. \A x \in accepted : stampOf'[x] = stampOf[x]
      BY <2>1, <3>4 DEF TypeOK
    <3>6. \A b \in Actors \ {p} : Stamped(stampOf', Held(b)', req'[b].bucket)
      <4> TAKE b \in Actors \ {p}
      <4>1. Held(b)' = Held(b) /\ req'[b] = req[b]
        BY <2>1 DEF Held
      <4>2. Held(b) \subseteq accepted
        BY DEF AccountedOnce, AllHeld
      <4> QED BY <1>0, <3>5, <4>1, <4>2, StampedKept
    <3>7. Stamped(stampOf', Held(p)', req'[p].bucket)
      <4>1. CASE drained = {}
        <5>1. Held(p)' = {}
          BY <3>1, <4>1, HandOffMoves DEF Held, After
        <5> QED BY <5>1 DEF Stamped
      <4>2. CASE drained # {}
        <5>1. drained = buffer
          BY <4>2
        <5>2. HandOff(p, buffer, FALSE) /\ buffer # {}
          BY <3>1, <4>2, <5>1
        <5>3. pc'[p] = "enqueue" /\ req'[p] = [by |-> p, bucket |-> currentBucket,
                                               evs |-> buffer, wait |-> FALSE]
          BY <5>2 DEF HandOff, TypeOK
        <5>4. Held(p)' = buffer /\ req'[p].bucket = currentBucket
          BY <5>3 DEF Held
        <5>5. buffer \subseteq accepted
          BY DEF AccountedOnce
        <5> QED BY <1>0, <3>5, <5>5, <5>4, StampedKept
      <4> QED BY <4>1, <4>2
    <3>8. \A i \in 1..Len(queue') : Stamped(stampOf', queue'[i].evs, queue'[i].bucket)
      <4> SUFFICES ASSUME NEW i \in 1..Len(queue)
                   PROVE  Stamped(stampOf', queue[i].evs, queue[i].bucket)
        BY <2>1
      <4>1. queue[i].evs \subseteq accepted
        BY DEF AccountedOnce, AllQueued, QueuedIn
      <4> QED BY <1>0, <3>5, <4>1, StampedKept
    <3>9. Stamped(stampOf', InHand', cur'.bucket)
      <4>1. InHand' = InHand /\ cur' = cur
        BY <2>1 DEF InHand
      <4>2. InHand \subseteq accepted
        BY DEF AccountedOnce
      <4> QED BY <1>0, <3>5, <4>1, <4>2, StampedKept
    <3> QED BY <1>P, <3>4, <3>6, <3>7, <3>8, <3>9
  <2> QED BY <2>2, <2>3
<1>2. ASSUME NEW a \in {Ticker, Stopper}, HandOff(a, buffer, TRUE), buffer' = {},
             UNCHANGED <<stampOf, currentBucket, queueVars, workVars>>
      PROVE  BatchesWellFormed'
  <2>1. \A b \in Actors \ {a} : Held(b)' = Held(b) /\ req'[b] = req[b]
    BY <1>2, HandOffMoves DEF Held
  <2>2. Stamped(stampOf', Held(a)', req'[a].bucket)
    <3>1. CASE buffer = {}
      <4>1. Held(a)' = {}
        BY <1>2, <3>1, HandOffMoves DEF Held, After
      <4> QED BY <4>1 DEF Stamped
    <3>2. CASE buffer # {}
      <4>1. pc'[a] = "enqueue" /\ req'[a] = [by |-> a, bucket |-> currentBucket,
                                             evs |-> buffer, wait |-> TRUE]
        BY <1>2, <3>2 DEF HandOff, TypeOK
      <4> QED BY <1>0, <1>2, <4>1 DEF Held
    <3> QED BY <3>1, <3>2
  <2>3. Stamped(stampOf', {}, currentBucket') /\ InHand' = InHand
    BY <1>2 DEF Stamped, InHand
  <2> QED BY <1>0, <1>2, <1>P, <2>1, <2>2, <2>3
<1>3. ASSUME UNCHANGED <<stampOf, buffer, currentBucket, req, queue>>,
             \A a \in Actors : Held(a)' = Held(a) \/ Held(a)' = {},
             InHand' = {} \/ (InHand' = InHand /\ cur' = cur)
      PROVE  BatchesWellFormed'
  <2>1. \A b : Stamped(stampOf, {}, b)
    BY DEF Stamped
  <2> QED BY <1>0, <1>3, <1>P, <2>1
<1>4. CASE Flush \/ DrainForShutdown
  BY <1>2, <1>4 DEF Flush, DrainForShutdown, DrainedBuffer
<1>5. ASSUME NEW a \in Actors, LockQueue(a) PROVE BatchesWellFormed'
  <2>1. \A b \in Actors : Held(b)' = Held(b) \/ Held(b)' = {}
    BY <1>5 DEF LockQueue, Held, After, TypeOK
  <2> QED BY <1>3, <1>5, <2>1 DEF LockQueue, InHand
<1>6. ASSUME NEW a \in Actors, Send(a) PROVE BatchesWellFormed'
  <2>1. /\ pc[a] = "send" /\ queue' = Append(queue, req[a]) /\ pc' = [pc EXCEPT ![a] = AfterSend(a)]
        /\ UNCHANGED <<stampOf, buffer, currentBucket, req, workVars>>
    BY <1>6 DEF Send
  <2>2. \A b \in Actors : Held(b)' = Held(b) \/ Held(b)' = {}
    BY <2>1 DEF Held, AfterSend, After, TypeOK
  <2>3. /\ Len(queue') = Len(queue) + 1 /\ Len(queue) \in Nat
        /\ \A i \in 1..Len(queue') : queue'[i] = IF i <= Len(queue) THEN queue[i] ELSE req[a]
    BY <2>1 DEF TypeOK
  <2>4. \A i \in 1..Len(queue') : Stamped(stampOf, queue'[i].evs, queue'[i].bucket)
    <3> SUFFICES ASSUME NEW i \in 1..Len(queue')
                 PROVE  Stamped(stampOf, queue'[i].evs, queue'[i].bucket)
      OBVIOUS
    <3>1. CASE i <= Len(queue)
      BY <1>0, <2>3, <3>1
    <3>2. CASE ~(i <= Len(queue))
      <4>1. queue'[i] = req[a] /\ Held(a) = req[a].evs
        BY <2>1, <2>3, <3>2 DEF Held
      <4> QED BY <1>0, <4>1
    <3> QED BY <3>1, <3>2
  <2>5. \A b : Stamped(stampOf, {}, b)
    BY DEF Stamped
  <2>6. InHand' = InHand
    BY <2>1 DEF InHand
  <2> QED BY <1>0, <1>P, <2>1, <2>2, <2>4, <2>5, <2>6
<1>7. ASSUME Take PROVE BatchesWellFormed'
  <2>1. /\ queue # <<>> /\ cur' = Head(queue) /\ queue' = Tail(queue) /\ wpc' = "save"
        /\ UNCHANGED <<stampOf, buffer, currentBucket, pc, req>>
    BY <1>7 DEF Take
  <2>2. /\ 1 \in 1..Len(queue) /\ cur' = queue[1]
        /\ \A i \in 1..Len(queue') : i + 1 \in 1..Len(queue) /\ queue'[i] = queue[i + 1]
    BY <2>1 DEF TypeOK
  <2>3. InHand' = cur'.evs /\ \A b \in Actors : Held(b)' = Held(b)
    BY <2>1 DEF InHand, Held
  <2> QED BY <1>0, <1>P, <2>1, <2>2, <2>3
<1>8. ASSUME Signal PROVE BatchesWellFormed'
  <2>1. \A b \in Actors : Held(b)' = Held(b) \/ Held(b)' = {}
    BY <1>8 DEF Signal, Held, After, TypeOK
  <2> QED BY <1>3, <1>8, <2>1 DEF Signal, InHand
<1>9. CASE SaveSucceeds \/ SaveFails \/ RunCallbacks \/ WorkerExit \/ JoinProducers
           \/ UNCHANGED vars
  BY <1>3, <1>9 DEF SaveSucceeds, SaveFails, AfterSaveError, RunCallbacks, WorkerExit,
     JoinProducers, vars, Held, InHand
<1>10. CASE TickerExit \/ Cancel \/ CloseQueue \/ ShutdownReturns
  <2>1. \A b \in Actors : Held(b)' = Held(b)
    BY <1>10 DEF TickerExit, Cancel, CloseQueue, ShutdownReturns, Held, TypeOK
  <2> QED BY <1>3, <1>10, <2>1 DEF TickerExit, Cancel, CloseQueue, ShutdownReturns, InHand
<1> QED BY <1>1, <1>4, <1>5, <1>6, <1>7, <1>8, <1>9, <1>10
        DEF Next, Enqueue, Worker, Stop, Down

(* A batch under way holds no event newer than its bucket, and one row per *)
(* key with one timestamp, however late events arrive and buckets advance. *)
THEOREM WellFormedBatches == SafeSpec => []BatchesWellFormed
<1>1. Init => BatchesWellFormed
  BY DEF Init, BatchesWellFormed, WellFormed, Held, InHand
<1>2. Typed /\ AccountedOnce /\ BatchesWellFormed /\ [Next]_vars => BatchesWellFormed'
  BY BatchesStep
<1> QED BY <1>1, <1>2, TypeCorrect, Accounted, PTL DEF SafeSpec

(* What Shutdown leaves behind.                                            *)
THEOREM Settles == SafeSpec => []ShutdownSettles
<1>1. TypeOK /\ IInv /\ AccountedOnce => ShutdownSettles
  <2> SUFFICES ASSUME TypeOK, IInv, AccountedOnce, pc[Stopper] = "done"
               PROVE  /\ stored = analysed
                      /\ accepted = Settled \cup UNION {Held(p) : p \in Producers}
                      /\ ProducersJoined => accepted = stored \cup failed
    BY DEF ShutdownSettles
  <2>1. /\ wpc = "exited" /\ queue = <<>> /\ buffer = {} /\ pc[Ticker] = "exited"
        /\ ProducersJoined => dropped = {} /\ \A p \in Producers : pc[p] = "idle"
    BY DEF IInv, Phases
  <2>2. AllQueued = {} /\ InHand = {} /\ stored = analysed
    BY <2>1 DEF AllQueued, QueuedIn, InHand, IInv, StoredThenAnalysed, StoredInHand
  <2>3. AllHeld = UNION {Held(p) : p \in Producers}
    <3>1. Held(Ticker) = {} /\ Held(Stopper) = {}
      BY <2>1 DEF Held
    <3> QED BY <3>1 DEF AllHeld, Actors
  <2>4. accepted = Settled \cup UNION {Held(p) : p \in Producers}
    BY <2>1, <2>2, <2>3 DEF AccountedOnce
  <2>5. ProducersJoined => accepted = stored \cup failed
    BY <2>1, <2>4 DEF Held, Settled
  <2> QED BY <2>2, <2>4, <2>5
<1> QED BY <1>1, Invariant, Accounted, PTL

(* Flush and Shutdown come back from enqueueFlush only with their batch    *)
(* settled and, if it was saved, analysed.                                 *)
THEOREM FlushesWait == SafeSpec => FlushWaits
<1> DEFINE A == \A a \in {Ticker, Stopper} :
                  pc[a] \in {"enqueue", "send", "await"} /\ pc'[a] = After(a)
                    => req[a].evs \subseteq analysed' \cup failed' \cup dropped'
<1>1. Typed /\ Awaited /\ [Next]_vars => [A]_vars
  <2> SUFFICES ASSUME TypeOK, Requested, Awaited, [Next]_vars,
                      NEW a \in {Ticker, Stopper},
                      pc[a] \in {"enqueue", "send", "await"}, pc'[a] = After(a)
               PROVE  req[a].evs \subseteq analysed' \cup failed' \cup dropped'
    BY DEF Typed
  <2> USE ActorFacts
  <2>0. pc'[a] # pc[a]
    BY DEF After
  <2>1. CASE \E b \in Actors : LockQueue(b)
    BY <2>0, <2>1 DEF LockQueue, TypeOK, After
  <2>2. CASE \E b \in Actors : Send(b)
    BY <2>0, <2>2 DEF Send, AfterSend, Awaited, TypeOK, After
  <2>3. CASE Signal
    <3>1. cur.wait /\ cur.by = a
      BY <2>0, <2>3 DEF Signal, TypeOK
    <3>2. cur = req[a] /\ cur.evs \subseteq analysed \cup failed
      BY <2>3, <3>1 DEF Signal, Awaited, Busy, Waiting
    <3> QED BY <2>3, <3>2 DEF Signal
  <2>4. CASE \E p \in Producers, e \in Events : Process(p, e)
    BY <2>0, <2>4, ProcessMoves
  <2>5. CASE Flush \/ DrainForShutdown
    BY <2>0, <2>5, HandOffMoves DEF Flush, DrainForShutdown
  <2>6. CASE TickerExit \/ Take \/ SaveSucceeds \/ SaveFails \/ RunCallbacks \/ WorkerExit
             \/ JoinProducers \/ Cancel \/ CloseQueue \/ ShutdownReturns \/ UNCHANGED vars
    BY <2>0, <2>6 DEF TickerExit, Take, SaveSucceeds, SaveFails, RunCallbacks, WorkerExit,
       JoinProducers, Cancel, CloseQueue, ShutdownReturns, vars, TypeOK
  <2> QED BY <2>1, <2>2, <2>3, <2>4, <2>5, <2>6 DEF Next, Enqueue, Worker, Stop, Down
<1>2. Typed /\ (Awaited /\ HolderSends) /\ [Next]_vars => [A]_vars
  BY <1>1
<1> HIDE DEF A
<1>3. SafeSpec => [][A]_vars
  BY <1>2, TypeCorrect, Waits, PTL DEF SafeSpec
<1> QED BY <1>3 DEF FlushWaits, A

-------------------------------------------------------------------------------
(* Refinement.                                                             *)

(* With the producers joined before Shutdown, as main.go does, the buffer, *)
(* the queue, the locks and the worker keep the ledger's promise: each     *)
(* step is a stutter, an acceptance, the commit or the refusal of a batch  *)
(* in transit, or the close with nothing in transit.                       *)
THEOREM KeepsLedger == ASSUME ProducersJoined PROVE SafeSpec => LedgerSpec
<1>1. Init => Ledger!Init
  BY ActorFacts DEF Init, Ledger!Init
<1>2. TypeOK /\ IInv /\ AccountedOnce /\ (TypeOK /\ IInv)' /\ AccountedOnce' /\ [Next]_vars
        => [Ledger!Next]_(Ledger!ledger)
  <2> SUFFICES ASSUME TypeOK, IInv, AccountedOnce, TypeOK', IInv', AccountedOnce', [Next]_vars
               PROVE  Ledger!Next \/ UNCHANGED Ledger!ledger
    OBVIOUS
  <2> USE ActorFacts DEF Ledger!ledger, queueVars, workVars, envVars, aggVars, lifeVars
  <2>0. pc[Stopper] = "done" => stopping
    BY DEF IInv, Phases
  <2>1. CASE \E p \in Producers, e \in Events : Process(p, e)
    <3>1. PICK p \in Producers, e \in Events : Process(p, e)
      BY <2>1
    <3>2. UNCHANGED <<stored, failed>> /\ pc'[Stopper] = pc[Stopper] /\ e \notin accepted
      <4>1. UNCHANGED <<stored, failed>>
        BY <3>1 DEF Process
      <4>2. pc'[Stopper] = pc[Stopper] /\ e \notin accepted
        BY <3>1, ProcessMoves
      <4> QED BY <4>1, <4>2
    <3>3. CASE UNCHANGED <<aggVars, pc, req>>
      BY <3>2, <3>3
    <3>4. CASE ~UNCHANGED <<aggVars, pc, req>>
      <4>1. ~stopping /\ accepted' = accepted \cup {e}
        BY <3>1, <3>4 DEF Process, Merge
      <4>2. Ledger!Accept(e)
        BY <2>0, <3>2, <4>1 DEF Ledger!Accept
      <4> QED BY <4>2 DEF Ledger!Next
    <3> QED BY <3>3, <3>4
  <2>2. CASE SaveSucceeds \/ SaveFails
    <3>1. UNCHANGED <<accepted, pc>> /\ InHand = cur.evs
      BY <2>2 DEF SaveSucceeds, SaveFails, InHand
    <3>2. cur.evs \subseteq Ledger!InTransit
      BY <3>1 DEF AccountedOnce, Disjoint, Settled, Ledger!InTransit
    <3>3. CASE cur.evs = {}
      BY <2>2, <3>1, <3>3 DEF SaveSucceeds, SaveFails
    <3>4. CASE cur.evs # {}
      <4>1. Ledger!Commit(cur.evs) \/ Ledger!Refuse(cur.evs)
        BY <2>2, <3>1, <3>4 DEF SaveSucceeds, SaveFails, Ledger!Commit, Ledger!Refuse
      <4> QED BY <3>2, <4>1 DEF Ledger!Next
    <3> QED BY <3>3, <3>4
  <2>3. CASE ShutdownReturns
    <3>1. /\ UNCHANGED <<accepted, stored, failed>>
          /\ pc[Stopper] = "flushwait" /\ pc'[Stopper] = "done" /\ wpc = "exited"
      BY <2>3 DEF ShutdownReturns, WorkerGone, TypeOK
    <3>2. /\ queue = <<>> /\ buffer = {} /\ dropped = {} /\ pc[Ticker] = "exited"
          /\ \A p \in Producers : pc[p] = "idle"
      BY <3>1 DEF IInv, Phases
    <3>3. AllHeld = {} /\ AllQueued = {} /\ InHand = {}
      <4>1. \A a \in Actors : Held(a) = {}
        BY <3>1, <3>2 DEF Held, Actors
      <4> QED BY <3>1, <3>2, <4>1 DEF AllHeld, AllQueued, QueuedIn, InHand
    <3>4. Ledger!InTransit = {}
      BY <3>2, <3>3 DEF AccountedOnce, Settled, Ledger!InTransit
    <3>5. Ledger!Close
      BY <3>1, <3>4 DEF Ledger!Close
    <3> QED BY <3>5 DEF Ledger!Next
  <2>4. CASE \E a \in Actors : LockQueue(a) \/ Send(a)
    BY <2>0, <2>4 DEF LockQueue, Send, AfterSend, After, TypeOK
  <2>5. CASE Flush \/ DrainForShutdown
    BY <2>5, HandOffMoves DEF Flush, DrainForShutdown, After
  <2>6. CASE Signal
    <3>1. UNCHANGED <<accepted, stored, failed>>
      BY <2>6 DEF Signal
    <3>2. cur.wait => pc[cur.by] = "await" /\ pc' = [pc EXCEPT ![cur.by] = After(cur.by)]
      BY <2>6 DEF Signal, IInv, Awaited, Busy, Waiting
    <3>3. ~cur.wait => pc' = pc
      BY <2>6 DEF Signal
    <3> QED BY <3>1, <3>2, <3>3 DEF After, TypeOK
  <2>7. CASE TickerExit \/ Take \/ RunCallbacks \/ WorkerExit \/ JoinProducers \/ Cancel
             \/ CloseQueue \/ UNCHANGED vars
    BY <2>7 DEF TickerExit, Take, RunCallbacks, WorkerExit, JoinProducers, Cancel, CloseQueue,
       vars, TypeOK
  <2> QED BY <2>1, <2>2, <2>3, <2>4, <2>5, <2>6, <2>7 DEF Next, Enqueue, Worker, Stop, Down
<1> QED BY <1>1, <1>2, Invariant, Accounted, PTL DEF SafeSpec, LedgerSpec, Ledger!Spec
===============================================================================

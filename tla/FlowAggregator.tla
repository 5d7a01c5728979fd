----------------------------- MODULE FlowAggregator -----------------------------
(***************************************************************************)
(* internal/storage/aggregator.go: the in-memory one-minute roll-up of     *)
(* flow events, its bounded flush queue, the single flush worker and the   *)
(* shutdown protocol.                                                      *)
(*                                                                         *)
(* Goroutines.  Producers are the goroutines that call Process (collector  *)
(* workers, packet capture); Ticker is flushLoop; Stopper is the caller of *)
(* Shutdown; the flush worker is the one goroutine started by the          *)
(* constructor.  A critical section under a.mu does not block and is one   *)
(* step; a.queueMu is held across a blocking channel send, so its holder   *)
(* is state.                                                               *)
(*                                                                         *)
(* Counters.  A row's bytes and packets are sums over the events merged    *)
(* into it, so a row is modelled as the set of those events: the events of *)
(* buffer with the row's key.  A batch is a set of events the same way.    *)
(***************************************************************************)
EXTENDS Naturals, Sequences

CONSTANTS
  Producers,       (* goroutines that call Process                          *)
  Ticker,          (* the flushLoop goroutine                               *)
  Stopper,         (* the goroutine that calls Shutdown                     *)
  Events,          (* flow events that may be handed to Process             *)
  Key,             (* Key[e]: the aggregation key of event e                *)
  Minute,          (* Minute[e]: e.Timestamp truncated to the minute, > 0   *)
  QueueCap,        (* aggregatorFlushQueueSize                              *)
  ProducersJoined  (* TRUE: Shutdown is called once no producer is running  *)

NoActor == "none"
Actors == Producers \cup {Ticker, Stopper}

ASSUME ActorAssumption ==
  /\ Ticker \notin Producers
  /\ Stopper \notin Producers
  /\ Ticker # Stopper
  /\ NoActor \notin Producers \cup {Ticker, Stopper}
ASSUME EventAssumption ==
  /\ Minute \in [Events -> Nat \ {0}]
  /\ DOMAIN Key = Events
ASSUME QueueAssumption == QueueCap \in Nat \ {0}
ASSUME JoinAssumption == ProducersJoined \in BOOLEAN

VARIABLES
  handed,          (* events passed to Process so far (environment)         *)
  accepted,        (* events merged into the buffer so far (history)        *)
  producing,       (* FALSE once the producers have been joined             *)
  buffer,          (* a.buffer                                              *)
  stampOf,         (* stampOf[e]: Timestamp of the row that counts e        *)
  currentBucket,   (* a.currentBucket, 0 for the zero time                  *)
  stopping,        (* a.stopping                                            *)
  cancelled,       (* a.ctx is done                                         *)
  pc,              (* where each actor is                                   *)
  req,             (* the flush request each actor last built               *)
  queueHolder,     (* owner of a.queueMu                                    *)
  queue,           (* a.flushQueue                                          *)
  queueClosed,     (* a.queueClosed                                         *)
  wpc,             (* where the flush worker is                             *)
  cur,             (* the request the worker is handling                    *)
  stored,          (* events whose batch SaveAggregates committed           *)
  failed,          (* events whose batch SaveAggregates refused             *)
  dropped,         (* events of batches enqueueFlush turned away            *)
  analysed         (* events whose batch went through the flush callbacks   *)

aggVars == <<buffer, stampOf, currentBucket, accepted>>
envVars == <<handed, producing>>
workVars == <<wpc, cur, stored, failed, analysed>>
queueVars == <<queueHolder, queue, queueClosed, dropped>>
lifeVars == <<stopping, cancelled>>
vars == <<handed, accepted, producing, buffer, stampOf, currentBucket,
          stopping, cancelled, pc, req, queueHolder, queue, queueClosed,
          wpc, cur, stored, failed, dropped, analysed>>

Minutes == {Minute[e] : e \in Events} \cup {0}
Requests == [by : Actors, bucket : Minutes, evs : SUBSET Events, wait : BOOLEAN]
NoRequest(a) == [by |-> a, bucket |-> 0, evs |-> {}, wait |-> FALSE]

ProducerPCs == {"idle", "enqueue", "send"}
TickerPCs == ProducerPCs \cup {"await", "exited"}
StopperPCs == {"running", "join", "enqueue", "send", "await",
               "close", "flushwait", "done"}

(* Bugs a change could introduce, each replacing the definition it is      *)
(* named after in one mutation run.                                        *)
DrainedBufferNotReset == buffer
AdvancesOneMinuteLate(e) == currentBucket # 0 /\ Minute[e] > currentBucket + 1
QueueFreeUnchecked == TRUE
QueueHasRoomOffByOne == Len(queue) <= QueueCap
AfterSaveErrorNoSignal == "idle"
WorkerGoneUnchecked == TRUE

(* Where an actor continues after enqueueFlush has returned.               *)
After(a) == IF a = Stopper THEN "close" ELSE "idle"

Init ==
  /\ handed = {}
  /\ accepted = {}
  /\ producing = TRUE
  /\ buffer = {}
  /\ stampOf = [e \in Events |-> 0]
  /\ currentBucket = 0
  /\ stopping = FALSE
  /\ cancelled = FALSE
  /\ pc = [a \in Actors |-> IF a = Stopper THEN "running" ELSE "idle"]
  /\ req = [a \in Actors |-> NoRequest(a)]
  /\ queueHolder = NoActor
  /\ queue = <<>>
  /\ queueClosed = FALSE
  /\ wpc = "idle"
  /\ cur = NoRequest(Ticker)
  /\ stored = {}
  /\ failed = {}
  /\ dropped = {}
  /\ analysed = {}

-------------------------------------------------------------------------------
(* Under a.mu: merging an event, draining the buffer.                      *)

(* drainBuffer leaves a fresh map behind.                                  *)
DrainedBuffer == {}

(* The bucket advances on a later minute; the old one is then drained.     *)
Advances(e) == currentBucket # 0 /\ Minute[e] > currentBucket

(* Merge e into the row of its key among the rows left, or open a row      *)
(* stamped with e's own minute.                                            *)
Merge(e, rows) ==
  LET row == {x \in rows : Key[x] = Key[e]}
  IN  /\ buffer' = rows \cup {e}
      /\ accepted' = accepted \cup {e}
      /\ stampOf' = [stampOf EXCEPT ![e] =
                       IF row = {} THEN Minute[e]
                                   ELSE stampOf[CHOOSE x \in row : TRUE]]

(* An actor leaves a.mu with the drained rows: nothing to do when there    *)
(* are none, otherwise enqueueFlush.                                       *)
HandOff(a, rows, wait) ==
  IF rows = {}
  THEN /\ pc' = [pc EXCEPT ![a] = After(a)]
       /\ UNCHANGED req
  ELSE /\ pc' = [pc EXCEPT ![a] = "enqueue"]
       /\ req' = [req EXCEPT ![a] = [by |-> a, bucket |-> currentBucket,
                                     evs |-> rows, wait |-> wait]]

(* FlowAggregator.Process up to the release of a.mu.                       *)
Process(p, e) ==
  /\ producing
  /\ pc[p] = "idle"
  /\ e \in Events \ handed
  /\ handed' = handed \cup {e}
  /\ \/ /\ stopping
        /\ UNCHANGED <<aggVars, pc, req>>
     \/ /\ ~stopping
        /\ Merge(e, IF Advances(e) THEN DrainedBuffer ELSE buffer)
        /\ currentBucket' = IF currentBucket = 0 \/ Advances(e)
                            THEN Minute[e] ELSE currentBucket
        /\ HandOff(p, IF Advances(e) THEN buffer ELSE {}, FALSE)
  /\ UNCHANGED <<producing, lifeVars, queueVars, workVars>>

(* FlowAggregator.Flush, called by flushLoop on each tick.  The select     *)
(* between a tick and a done context is random when both are ready, so a   *)
(* tick can still be served after cancel.                                  *)
Flush ==
  /\ pc[Ticker] = "idle"
  /\ ~stopping
  /\ buffer' = DrainedBuffer
  /\ HandOff(Ticker, buffer, TRUE)
  /\ UNCHANGED <<envVars, stampOf, currentBucket, accepted, lifeVars,
                 queueVars, workVars>>

TickerExit ==
  /\ pc[Ticker] = "idle"
  /\ cancelled
  /\ pc' = [pc EXCEPT ![Ticker] = "exited"]
  /\ UNCHANGED <<envVars, aggVars, lifeVars, req, queueVars, workVars>>

-------------------------------------------------------------------------------
(* enqueueFlush: a.queueMu is taken, the closed flag read, and the send    *)
(* may block while the mutex is held.                                      *)

QueueFree == queueHolder = NoActor
QueueHasRoom == Len(queue) < QueueCap

(* What the caller does once its request is in the channel.                *)
AfterSendNoWait(a) == After(a)
AfterSend(a) == IF req[a].wait THEN "await" ELSE After(a)

LockQueue(a) ==
  /\ pc[a] = "enqueue"
  /\ QueueFree
  /\ \/ /\ queueClosed
        /\ dropped' = dropped \cup req[a].evs
        /\ pc' = [pc EXCEPT ![a] = After(a)]
        /\ UNCHANGED queueHolder
     \/ /\ ~queueClosed
        /\ queueHolder' = a
        /\ pc' = [pc EXCEPT ![a] = "send"]
        /\ UNCHANGED dropped
  /\ UNCHANGED <<envVars, aggVars, lifeVars, req, queue, queueClosed, workVars>>

Send(a) ==
  /\ pc[a] = "send"
  /\ queueHolder = a
  /\ QueueHasRoom
  /\ queue' = Append(queue, req[a])
  /\ queueHolder' = NoActor
  /\ pc' = [pc EXCEPT ![a] = AfterSend(a)]
  /\ UNCHANGED <<envVars, aggVars, lifeVars, req, queueClosed, dropped, workVars>>

-------------------------------------------------------------------------------
(* flushWorker and flushBatch.                                             *)

AfterSaveError == "signal"

Take ==
  /\ wpc = "idle"
  /\ queue # <<>>
  /\ cur' = Head(queue)
  /\ queue' = Tail(queue)
  /\ wpc' = "save"
  /\ UNCHANGED <<envVars, aggVars, lifeVars, pc, req, queueHolder, queueClosed,
                 dropped, stored, failed, analysed>>

SaveSucceeds ==
  /\ wpc = "save"
  /\ stored' = stored \cup cur.evs
  /\ wpc' = "callback"
  /\ UNCHANGED <<envVars, aggVars, lifeVars, pc, req, queueVars, cur, failed, analysed>>

(* An error from SaveAggregates, its 10 s timeout included: the batch is   *)
(* logged and forgotten, and the callbacks do not run.                     *)
SaveFails ==
  /\ wpc = "save"
  /\ failed' = failed \cup cur.evs
  /\ wpc' = AfterSaveError
  /\ UNCHANGED <<envVars, aggVars, lifeVars, pc, req, queueVars, cur, stored, analysed>>

RunCallbacks ==
  /\ wpc = "callback"
  /\ analysed' = analysed \cup cur.evs
  /\ wpc' = "signal"
  /\ UNCHANGED <<envVars, aggVars, lifeVars, pc, req, queueVars, cur, stored, failed>>

(* close(req.done) lets the waiting caller return; without a done channel  *)
(* the worker only moves on.                                               *)
Signal ==
  /\ wpc = "signal"
  /\ wpc' = "idle"
  /\ pc' = IF cur.wait THEN [pc EXCEPT ![cur.by] = After(cur.by)] ELSE pc
  /\ UNCHANGED <<envVars, aggVars, lifeVars, req, queueVars, cur, stored, failed,
                 analysed>>

WorkerExit ==
  /\ wpc = "idle"
  /\ queueClosed
  /\ queue = <<>>
  /\ wpc' = "exited"
  /\ UNCHANGED <<envVars, aggVars, lifeVars, pc, req, queueVars, cur, stored, failed,
                 analysed>>

-------------------------------------------------------------------------------
(* Shutdown, in the order of its statements; the environment's part of it  *)
(* is JoinProducers.                                                       *)

(* The collectors' Shutdown returns: no goroutine is left inside Process.  *)
JoinProducers ==
  /\ producing
  /\ \A p \in Producers : pc[p] = "idle"
  /\ producing' = FALSE
  /\ UNCHANGED <<handed, aggVars, lifeVars, pc, req, queueVars, workVars>>

Cancel ==
  /\ pc[Stopper] = "running"
  /\ ProducersJoined => ~producing
  /\ cancelled' = TRUE
  /\ pc' = [pc EXCEPT ![Stopper] = "join"]
  /\ UNCHANGED <<envVars, aggVars, stopping, req, queueVars, workVars>>

(* wg.Wait has returned; drainForShutdown.                                 *)
DrainForShutdown ==
  /\ pc[Stopper] = "join"
  /\ pc[Ticker] = "exited"
  /\ stopping' = TRUE
  /\ buffer' = DrainedBuffer
  /\ HandOff(Stopper, buffer, TRUE)
  /\ UNCHANGED <<envVars, stampOf, currentBucket, accepted, cancelled,
                 queueVars, workVars>>

CloseQueue ==
  /\ pc[Stopper] = "close"
  /\ QueueFree
  /\ queueClosed' = TRUE
  /\ pc' = [pc EXCEPT ![Stopper] = "flushwait"]
  /\ UNCHANGED <<envVars, aggVars, lifeVars, req, queueHolder, queue, dropped, workVars>>

(* flushWG.Wait has returned.                                              *)
WorkerGone == wpc = "exited"

ShutdownReturns ==
  /\ pc[Stopper] = "flushwait"
  /\ WorkerGone
  /\ pc' = [pc EXCEPT ![Stopper] = "done"]
  /\ UNCHANGED <<envVars, aggVars, lifeVars, req, queueVars, workVars>>

(* The process goes on once the aggregator is down.                        *)
Down ==
  /\ pc[Stopper] = "done"
  /\ UNCHANGED vars

-------------------------------------------------------------------------------
Enqueue(a) == LockQueue(a) \/ Send(a)
Worker == Take \/ SaveSucceeds \/ SaveFails \/ RunCallbacks \/ Signal \/ WorkerExit
Stop == Cancel \/ DrainForShutdown \/ CloseQueue \/ ShutdownReturns

Next ==
  \/ \E p \in Producers, e \in Events : Process(p, e)
  \/ Flush \/ TickerExit
  \/ \E a \in Actors : Enqueue(a)
  \/ Worker
  \/ JoinProducers
  \/ Stop
  \/ Down

(* Goroutines are scheduled and the ticker ticks; nobody has to send       *)
(* events or to call Shutdown.                                             *)
Fairness ==
  /\ WF_vars(Flush)
  /\ WF_vars(TickerExit)
  /\ \A a \in Actors : WF_vars(Enqueue(a))
  /\ WF_vars(Worker)
  /\ WF_vars(DrainForShutdown \/ CloseQueue \/ ShutdownReturns)

SafeSpec == Init /\ [][Next]_vars
Spec == SafeSpec /\ Fairness
-------------------------------------------------------------------------------
(* Where an accepted event can be: in the buffer, in a request an actor    *)
(* has drained and not sent, in the channel, in the worker's hands, or at  *)
(* one of its ends.                                                        *)
Held(a) == IF pc[a] \in {"enqueue", "send"} THEN req[a].evs ELSE {}
QueuedIn(q) == UNION {q[i].evs : i \in 1..Len(q)}

AllHeld == UNION {Held(a) : a \in Actors}
AllQueued == QueuedIn(queue)
InHand == IF wpc = "save" THEN cur.evs ELSE {}
Settled == stored \cup failed \cup dropped

Disjoint(s, t) == s \cap t = {}

TypeOK ==
  /\ handed \subseteq Events
  /\ accepted \subseteq handed
  /\ producing \in BOOLEAN
  /\ buffer \subseteq Events
  /\ stampOf \in [Events -> Minutes]
  /\ currentBucket \in Minutes
  /\ stopping \in BOOLEAN
  /\ cancelled \in BOOLEAN
  /\ pc \in [Actors -> ProducerPCs \cup TickerPCs \cup StopperPCs]
  /\ \A p \in Producers : pc[p] \in ProducerPCs
  /\ pc[Ticker] \in TickerPCs
  /\ pc[Stopper] \in StopperPCs
  /\ req \in [Actors -> Requests]
  /\ queueHolder \in Actors \cup {NoActor}
  /\ queue \in Seq(Requests)
  /\ Len(queue) <= QueueCap
  /\ queueClosed \in BOOLEAN
  /\ wpc \in {"idle", "save", "callback", "signal", "exited"}
  /\ cur \in Requests
  /\ stored \subseteq Events
  /\ failed \subseteq Events
  /\ dropped \subseteq Events
  /\ analysed \subseteq stored

(* Every accepted event is in exactly one place: no interleaving of        *)
(* Process, Flush, Shutdown and the worker loses it, counts it in two      *)
(* batches or hands one batch over twice (aggregator.go drainBuffer,       *)
(* enqueueFlush, flushWorker).                                             *)
AccountedOnce ==
  /\ accepted = buffer \cup AllHeld \cup AllQueued \cup InHand \cup Settled
  /\ Disjoint(buffer, AllHeld \cup AllQueued \cup InHand \cup Settled)
  /\ Disjoint(AllHeld, AllQueued \cup InHand \cup Settled)
  /\ Disjoint(AllQueued, InHand \cup Settled)
  /\ Disjoint(InHand, Settled)
  /\ Disjoint(stored, failed \cup dropped)
  /\ Disjoint(failed, dropped)
  /\ \A a, b \in Actors : a # b => Disjoint(Held(a), Held(b))
  /\ \A i, j \in 1..Len(queue) : i # j => Disjoint(queue[i].evs, queue[j].evs)

(* No goroutine is ever about to send on the closed flush channel, which   *)
(* would panic the daemon (enqueueFlush and Shutdown share queueMu).       *)
NoSendOnClosedQueue == queueClosed => \A a \in Actors : pc[a] # "send"

(* A batch under way holds no event newer than the bucket it is saved for, *)
(* and its rows with the same key are one row, with one timestamp, although*)
(* late events are merged into rows of a later minute, or open rows that   *)
(* later events join (Process: bucket advance before the merge).           *)
WellFormed(evs, bucket) ==
  \A e \in evs :
    /\ Minute[e] <= bucket /\ stampOf[e] <= bucket
    /\ \A f \in evs : Key[e] = Key[f] => stampOf[e] = stampOf[f]

BatchesWellFormed ==
  /\ WellFormed(buffer, currentBucket)
  /\ \A a \in Actors : WellFormed(Held(a), req[a].bucket)
  /\ \A i \in 1..Len(queue) : WellFormed(queue[i].evs, queue[i].bucket)
  /\ WellFormed(InHand, cur.bucket)

(* When Flush or Shutdown comes back from enqueueFlush, the batch it       *)
(* drained has been saved and analysed, refused by the repository or       *)
(* turned away by the closed queue (docs/architecture.md: explicit Flush   *)
(* and shutdown paths wait for accepted flushes before continuing).        *)
FlushWaits ==
  [][\A a \in {Ticker, Stopper} :
       pc[a] \in {"enqueue", "send", "await"} /\ pc'[a] = After(a)
         => req[a].evs \subseteq analysed' \cup failed' \cup dropped']_vars

(* Once Shutdown has returned, everything saved was analysed and only      *)
(* producers that were still inside Process hold unsettled events; with    *)
(* the producers joined first (main.go) only a refused save loses flows.   *)
ShutdownSettles ==
  pc[Stopper] = "done" =>
    /\ stored = analysed
    /\ accepted = Settled \cup UNION {Held(p) : p \in Producers}
    /\ ProducersJoined => accepted = stored \cup failed

(* Every accepted event is settled in the end, whatever Shutdown does: the *)
(* ticker and the worker cannot block each other through the full channel, *)
(* queueMu and the done channels.                                          *)
EveryEventSettles == \A e \in Events : e \in accepted ~> e \in Settled

(* Shutdown returns: its joins on the ticker and on the worker end even if *)
(* it starts while the ticker is blocked in enqueueFlush.                  *)
ShutdownTerminates == pc[Stopper] = "join" ~> pc[Stopper] = "done"

(* The refinement: the aggregator keeps the ledger's promise.              *)
Ledger == INSTANCE FlowLedger WITH closed <- pc[Stopper] = "done"
LedgerSpec == Ledger!Spec
===============================================================================

------------------------------- MODULE IngestPath -------------------------------
(***************************************************************************)
(* The way of a flow from the wire to the aggregator: the UDP collector    *)
(* and the passive capture call the DDoS detector, which calls the device  *)
(* profiler, which calls the aggregator.  cmd/flowguard/main.go wires them *)
(* together and stops them, in this order: capture, collector, detector,   *)
(* profiler, aggregator, repository.                                       *)
(***************************************************************************)
EXTENDS FlowCollector, PcapCollector, DDoSDetector, DeviceProfiler

CONSTANT Workloads   (* what may come: datagrams, packets of each captured  *)
                     (* key, ticks of the detector, lookups a day old,      *)
                     (* writes of devices that fail                         *)

ASSUME WorkloadAssumption ==
  Workloads \subseteq [datagrams : SUBSET (FlowDatagrams \cup SyslogDatagrams),
                       packets : [Keys -> Nat], ticks : Nat, aging : Nat, failures : Nat]

VARIABLE stopping    (* what main is waiting for, or has stopped            *)

ingestVars == <<chainVars, collectorVars, pcapVars, ddosVars, profilerVars, stopping>>

Stopping == {"no", "capture", "collector", "detector", "profiler", "aggregator", "stopped"}

IngestTypeOK ==
  /\ CallTypeOK
  /\ CollectorTypeOK
  /\ PcapTypeOK
  /\ DDoSTypeOK
  /\ ProfilerTypeOK
  /\ stopping \in Stopping

IngestInit ==
  /\ \E load \in Workloads :
       /\ unread = load.datagrams /\ toCapture = load.packets
       /\ ticksLeft = load.ticks /\ agingLeft = load.aging
       /\ failuresLeft = load.failures
  /\ ChainInit
  /\ CollectorInit
  /\ PcapInit
  /\ DDoSInit
  /\ ProfilerInit
  /\ stopping = "no"

-------------------------------------------------------------------------------
(* A step of a goroutine through the chain, and those of the components.   *)
Chain(g) ==
  \/ /\ FetchRates(g) \/ CreateRates(g) \/ AddToField(g)
     /\ UNCHANGED <<collectorVars, pcapVars, profilerVars, stopping>>
  \/ /\ Discover(g) \/ QueueLookup(g)
     /\ UNCHANGED <<collectorVars, pcapVars, ddosVars, stopping>>
  \/ /\ Deliver(g)
     /\ UNCHANGED <<collectorVars, pcapVars, ddosVars, profilerVars, stopping>>

Collector ==
  /\ \/ \E d \in unread : ReceiveFlow(d) \/ ReceiveSyslog(d)
     \/ \E d \in pushing["flow"] : PushFlow(d)
     \/ \E d \in pushing["syslog"] : PushSyslog(d)
     \/ \E s \in Sockets : ListenerExit(s)
     \/ \E w \in Workers : TakePacket(w) \/ ForwardEvent(w) \/ PacketDone(w) \/ WorkerLeaves(w)
     \/ TakeMessage \/ StoreMessage \/ SyslogWorkerLeaves
  /\ UNCHANGED <<pcapVars, ddosVars, profilerVars, stopping>>

Pcap ==
  /\ \/ \E k \in Keys : Capture(k)
     \/ \E keys \in SUBSET ActiveKeys : Evict(keys)
     \/ \E g \in Emitters, k \in Keys : Emit(g, k)
     \/ CaptureExit \/ EmitReturns \/ EvictorExit
  /\ UNCHANGED <<collectorVars, ddosVars, profilerVars, stopping>>

Monitor ==
  /\ BeginWindow \/ (\E h \in LocalHosts : SwapField(h)) \/ UnlockRates \/ Report \/ StopMonitor
     \/ \E key \in alertDeduplicator : DedupExpires(key)
  /\ UNCHANGED <<collectorVars, pcapVars, profilerVars, stopping>>

Profiler ==
  /\ \/ \E h \in LocalHosts : EntryExpires(h)
     \/ \E u \in upserts : ReadCachedName(u) \/ UpsertDevice(u)
     \/ \E d \in Resolvers :
          \/ TakeLookup(d) \/ SaveName(d) \/ ResolverExit(d)
          \/ \E name \in HostNames : Answer(d, name)
  /\ UNCHANGED <<collectorVars, pcapVars, ddosVars, stopping>>

-------------------------------------------------------------------------------
(* main, after the termination signal (which finds it at "no").            *)
StopPcapCollector ==
  /\ \/ stopping = "no" /\ stopping' = "capture" /\ StopCapture
     \/ stopping = "capture" /\ UNCHANGED stopping /\ FlushRest
     \/ stopping = "capture" /\ stopping' = "collector" /\ PcapReturns
  /\ UNCHANGED <<chainVars, collectorVars, ddosVars, profilerVars>>

StopFlowCollector ==
  /\ stopping = "collector"
  /\ CancelCollector \/ CloseListeners \/ CloseChannels
  /\ UNCHANGED <<chainVars, pcapVars, ddosVars, profilerVars, stopping>>

(* ddosDetector.Shutdown begins when coll.Shutdown has returned.           *)
StopDDoSDetector ==
  /\ stopping = "collector"
  /\ CollectorGone
  /\ stopping' = "detector"
  /\ CancelDDoS
  /\ UNCHANGED <<chainVars, collectorVars, pcapVars, profilerVars>>

StopProfiler ==
  /\ stopping = "detector"
  /\ MonitorGone
  /\ stopping' = "profiler"
  /\ CloseLookups
  /\ UNCHANGED <<chainVars, collectorVars, pcapVars, ddosVars, agingLeft, failuresLeft>>

StopAggregator ==
  /\ stopping = "profiler"
  /\ ResolversGone
  /\ stopping' = "aggregator"
  /\ UNCHANGED <<chainVars, collectorVars, pcapVars, ddosVars, profilerVars>>

CloseStore ==
  /\ stopping = "aggregator"
  /\ stopping' = "stopped"
  /\ storeClosed' = TRUE
  /\ UNCHANGED <<chainVars, collectorVars, pcapVars, ddosVars>>
  /\ UNCHANGED <<dnsCache, lookupQueue, lookupClosed, profilerCancelled, resolver,
                 upserts, devices, agingLeft, failuresLeft, answered, unsaved>>

Stop ==
  \/ StopPcapCollector \/ StopFlowCollector \/ StopDDoSDetector
  \/ StopProfiler \/ StopAggregator \/ CloseStore

(* The process has ended.                                                  *)
Ended == stopping = "stopped" /\ upserts = {} /\ UNCHANGED ingestVars

IngestNext ==
  \/ \E g \in Goroutines : Chain(g)
  \/ Collector \/ Pcap \/ Monitor \/ Profiler \/ Stop \/ Ended

IngestSpec == IngestInit /\ [][IngestNext]_ingestVars

-------------------------------------------------------------------------------
(* No goroutine sends on a closed channel, which would end the process:    *)
(* the listeners are gone when rawPacketsChan and syslogChan are closed,   *)
(* and every caller of the profiler is gone when lookupChan is (Shutdown   *)
(* of FlowCollector and of DeviceProfiler, main.go).                       *)
NoSendOnClosedChannel ==
  /\ channelsClosed => \A s \in Sockets : pushing[s] = {}
  /\ lookupClosed => \A g \in Goroutines : ~At(g, "send")

(* Every datagram a listener read is accounted for: it was dropped, did    *)
(* not decode, was handled, or is on its way in a channel or a worker.     *)
(* Datagrams turned away before they are received are counted as dropped,  *)
(* and oversized ones as decode errors too (listenLoop, workerLoop,        *)
(* listenUniFiSyslogLoop).                                                 *)
Busy(p) == IF p THEN 1 ELSE 0
Forwarding == {w \in Workers : worker[w] = "forwarding"}
FlowPacketsAccounted ==
  stats.received - stats.receivedUniFi =
    Cardinality(pushing["flow"]) + Len(rawPacketsChan)
    + (stats.dropped - stats.droppedUniFi) + (stats.decodeErrors - stats.decodeErrorsUniFi)
    + Cardinality(Forwarding) + handled.packets
MessagesAccounted ==
  stats.receivedUniFi =
    Cardinality(pushing["syslog"]) + Len(syslogChan)
    + (stats.droppedUniFi - handled.refused) + (stats.decodeErrorsUniFi - handled.oversized)
    + Busy(syslogWorker = "saving") + handled.messages
DatagramsAccounted == FlowPacketsAccounted /\ MessagesAccounted

(* A passive packet is counted exactly once: it is in the table, in a      *)
(* batch, in an event under way, with the aggregator, or was turned away   *)
(* because the table was full (consumePacket, evictExpired, flushAll).     *)
TakenOut(g, k) == batch[g][k] + PacketsInHand(g, k) + delivered[g][k]
PacketsConserved ==
  \A k \in Keys :
    captured[k] = overflow[k] + active[k] + TakenOut(Evictor, k) + TakenOut(Main, k)

(* The aggregator is stopped after the last event: nothing captured or     *)
(* received is left behind, which is what module FlowAggregator assumes of *)
(* its producers (ProducersJoined; main.go).                               *)
AggregatorStopsLast ==
  stopping \in {"aggregator", "stopped"} =>
    /\ \A g \in Goroutines : ~InChain(g)
    /\ rawPacketsChan = <<>> /\ \A w \in Workers : pending[w] = <<>>
    /\ ActiveKeys = {} /\ \A g \in Emitters : StillToEmit(g) = {}

(* What the comment of FlowCollector.Shutdown says: it stops all listeners *)
(* and workers, draining the remaining packets.  The decoding workers do;  *)
(* the syslog worker may leave messages queued (unifiSyslogWorkerLoop).    *)
ShutdownDrains == CollectorGone => rawPacketsChan = <<>> /\ syslogChan = <<>>
===============================================================================

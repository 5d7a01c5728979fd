----------------------------- MODULE PcapCollector -----------------------------
(***************************************************************************)
(* The passive capture (internal/collector/pcap_collector.go): one         *)
(* goroutine reduces packets to a bounded table of active flows, another   *)
(* takes expired flows out of it and emits them, and Shutdown stops both   *)
(* and emits the rest.                                                     *)
(***************************************************************************)
EXTENDS FlowProcessor

CONSTANTS
  Keys,        (* 5-tuples seen on the interface                            *)
  Flow,        (* source, destination and kind of each                      *)
  MaxActive    (* maxActive, 65536                                          *)

ASSUME PcapAssumption ==
  /\ Keys \subseteq Tuples
  /\ \A k \in Keys : /\ Flow[k].src \in Hosts /\ Flow[k].dst \in Hosts
                     /\ Flow[k].kind \in Kinds
  /\ MaxActive \in Nat \ {0}

VARIABLES
  toCapture,   (* packets of each key the network has yet to carry          *)
  active,      (* packets in the active flow of each key; 0 is no flow      *)
  capturing,   (* captureLoop runs                                          *)
  evictor,     (* "ticking", "emitting" or "done"                           *)
  batch,       (* the flows evictor and main have yet to emit: packets of   *)
               (* each key                                                  *)
  pcapStop,    (* how far Shutdown is                                       *)
  captured,    (* history: packets of each key reduced, and those of them   *)
  overflow     (* that found no room                                        *)

pcapVars == <<toCapture, active, capturing, evictor, batch, pcapStop, captured, overflow>>

Emitters == {Evictor, Main}
NoFlows == [k \in Keys |-> 0]
ActiveKeys == {k \in Keys : active[k] > 0}
StillToEmit(g) == {k \in Keys : batch[g][k] > 0}

PcapTypeOK ==
  /\ toCapture \in [Keys -> Nat]
  /\ active \in [Keys -> Nat] /\ Cardinality(ActiveKeys) <= MaxActive
  /\ capturing \in BOOLEAN
  /\ evictor \in {"ticking", "emitting", "done"}
  /\ batch \in [Emitters -> [Keys -> Nat]]
  /\ pcapStop \in {"running", "stopped", "flushing", "returned"}
  /\ captured \in [Keys -> Nat] /\ overflow \in [Keys -> Nat]

PcapInit ==
  /\ active = NoFlows
  /\ capturing = TRUE
  /\ evictor = "ticking"
  /\ batch = [g \in Emitters |-> NoFlows]
  /\ pcapStop = "running"
  /\ captured = NoFlows
  /\ overflow = NoFlows

EventOf(k, packets) ==
  [tuple |-> k, src |-> Flow[k].src, dst |-> Flow[k].dst, kind |-> Flow[k].kind,
   packets |-> packets]

-------------------------------------------------------------------------------
(* consumePacket: a packet of a known flow is merged into it; a new flow   *)
(* needs room in the table.  While stop is closed and the source has       *)
(* packets, the select may still choose a packet.                          *)
HasRoomForOneMore(k) == active[k] > 0 \/ Cardinality(ActiveKeys) <= MaxActive
HasRoomFor(k) == active[k] > 0 \/ Cardinality(ActiveKeys) < MaxActive

Capture(k) ==
  /\ capturing
  /\ toCapture[k] > 0
  /\ toCapture' = [toCapture EXCEPT ![k] = @ - 1]
  /\ captured' = [captured EXCEPT ![k] = @ + 1]
  /\ \/ /\ HasRoomFor(k)
        /\ active' = [active EXCEPT ![k] = @ + 1]
        /\ UNCHANGED overflow
     \/ /\ ~HasRoomFor(k)
        /\ overflow' = [overflow EXCEPT ![k] = @ + 1]
        /\ UNCHANGED active
  /\ UNCHANGED <<chainVars, capturing, evictor, batch, pcapStop>>

CaptureExit ==
  /\ capturing
  /\ pcapStop # "running"
  /\ capturing' = FALSE
  /\ UNCHANGED <<chainVars, toCapture, active, evictor, batch, pcapStop, captured, overflow>>

(* Under c.mu the chosen flows move from the table to the batch.           *)
CopyOut(g, keys) ==
  /\ batch' = [batch EXCEPT ![g] = [k \in Keys |-> IF k \in keys THEN active[k] ELSE 0]]
  /\ UNCHANGED active
TakeOut(g, keys) ==
  /\ batch' = [batch EXCEPT ![g] = [k \in Keys |-> IF k \in keys THEN active[k] ELSE 0]]
  /\ active' = [k \in Keys |-> IF k \in keys THEN 0 ELSE active[k]]

(* evictExpired, and flushAll every half minute: which flows have expired  *)
(* is the clock's choice.                                                  *)
Evict(keys) ==
  /\ evictor = "ticking"
  /\ keys # {} /\ keys \subseteq ActiveKeys
  /\ TakeOut(Evictor, keys)
  /\ evictor' = "emitting"
  /\ UNCHANGED <<chainVars, toCapture, capturing, pcapStop, captured, overflow>>

(* emit.                                                                   *)
Emit(g, k) ==
  /\ batch[g][k] > 0
  /\ Process(g, EventOf(k, batch[g][k]))
  /\ batch' = [batch EXCEPT ![g][k] = 0]
  /\ UNCHANGED <<toCapture, active, capturing, evictor, pcapStop, captured, overflow>>

EmitReturns ==
  /\ evictor = "emitting"
  /\ StillToEmit(Evictor) = {}
  /\ ~InChain(Evictor)
  /\ evictor' = "ticking"
  /\ UNCHANGED <<chainVars, toCapture, active, capturing, batch, pcapStop, captured, overflow>>

EvictorExit ==
  /\ evictor = "ticking"
  /\ pcapStop # "running"
  /\ evictor' = "done"
  /\ UNCHANGED <<chainVars, toCapture, active, capturing, batch, pcapStop, captured, overflow>>

-------------------------------------------------------------------------------
(* Shutdown closes stop and the handle, waits for the two goroutines, and  *)
(* emits what is left.                                                     *)
StopCapture ==
  /\ pcapStop = "running"
  /\ pcapStop' = "stopped"
  /\ UNCHANGED <<toCapture, active, capturing, evictor, batch, captured, overflow>>

LoopsGone == ~capturing /\ evictor = "done"

FlushRest ==
  /\ pcapStop = "stopped"
  /\ LoopsGone
  /\ TakeOut(Main, ActiveKeys)
  /\ pcapStop' = "flushing"
  /\ UNCHANGED <<toCapture, capturing, evictor, captured, overflow>>

PcapReturns ==
  /\ pcapStop = "flushing"
  /\ StillToEmit(Main) = {}
  /\ ~InChain(Main)
  /\ pcapStop' = "returned"
  /\ UNCHANGED <<toCapture, active, capturing, evictor, batch, captured, overflow>>
===============================================================================

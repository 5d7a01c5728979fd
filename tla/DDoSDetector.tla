------------------------------ MODULE DDoSDetector ------------------------------
(***************************************************************************)
(* The volumetric flood detector (internal/ddos/detector.go).  Every       *)
(* goroutine that processes flows adds to the counters of the victim: it   *)
(* looks the counters up under d.mu, creates them if they are missing,     *)
(* releases the lock and adds to one field after the other with atomic     *)
(* additions.  Every five seconds the monitor takes d.mu and swaps each    *)
(* field for zero, then reports the hosts over a threshold.                *)
(***************************************************************************)
EXTENDS FlowProcessor

CONSTANTS
  Fields,       (* the counters of DeviceRates the instance tracks          *)
  Thresholds,   (* configured limit per second of each field                *)
  WindowLength  (* the 5 the swapped counts are divided by                  *)

AllFields == {"PacketsIn", "FlowsIn", "SYNPacketsIn", "UDPPacketsIn", "ICMPPacketsIn"}
ASSUME FieldAssumption ==
  /\ {"PacketsIn", "FlowsIn"} \subseteq Fields
  /\ Fields \subseteq AllFields
  /\ Thresholds \in [Fields -> Nat]
  /\ WindowLength \in Nat \ {0}

(* The type of the alert each counter raises.  BytesIn, which the instance *)
(* does not track, shares DDOS_ATTACK with PacketsIn.                      *)
AlertType == [PacketsIn |-> "DDOS_ATTACK", FlowsIn |-> "DDOS_FLOW_FLOOD",
              SYNPacketsIn |-> "DDOS_SYN_FLOOD", UDPPacketsIn |-> "DDOS_UDP_FLOOD",
              ICMPPacketsIn |-> "DDOS_ICMP_FLOOD"]
AlertTypes == {AlertType[f] : f \in AllFields}

VARIABLES
  rates,             (* d.rates: which counters a host has; 0 is none       *)
  counters,          (* the DeviceRates objects allocated so far            *)
  monitor,           (* what monitorRatesLoop does                          *)
  swaps,             (* per host, the fields evaluateRates has yet to swap  *)
  snapshot,          (* ratesSnapshot                                       *)
  alertDeduplicator, (* keys set less than ten minutes ago                  *)
  ticksLeft,         (* bound: how often the ticker will still fire         *)
  ddosCancelled,     (* d.ctx is done                                       *)
  uncounted          (* history: per host and field, what was added minus   *)
                     (* what the monitor swapped out                        *)

ddosVars == <<rates, counters, monitor, swaps, snapshot, alertDeduplicator,
              ticksLeft, ddosCancelled, uncounted>>

NoCounts == [f \in Fields |-> 0]
NoSwaps == [h \in LocalHosts |-> <<>>]
Counts == [Fields -> Nat]

DDoSTypeOK ==
  /\ rates \in [LocalHosts -> 0..Len(counters)]
  /\ counters \in Seq(Counts)
  /\ monitor \in {"waiting", "swapping", "reporting", "done"}
  /\ swaps \in [LocalHosts -> Seq(Fields)]
  /\ snapshot \in [LocalHosts -> Counts]
  /\ alertDeduplicator \subseteq LocalHosts \X AlertTypes
  /\ ticksLeft \in Nat
  /\ ddosCancelled \in BOOLEAN
  /\ uncounted \in [LocalHosts -> [Fields -> Int]]

DDoSInit ==
  /\ rates = [h \in LocalHosts |-> 0]
  /\ counters = <<>>
  /\ monitor = "waiting"
  /\ swaps = NoSwaps
  /\ snapshot = [h \in LocalHosts |-> NoCounts]
  /\ alertDeduplicator = {}
  /\ ddosCancelled = FALSE
  /\ uncounted = [h \in LocalHosts |-> NoCounts]

-------------------------------------------------------------------------------
(* The fields an event adds to, in the order of accumulateRates.           *)
IfTracked(f) == IF f \in Fields THEN <<f>> ELSE <<>>
FieldsOf(e) ==
  <<"PacketsIn", "FlowsIn">>
  \o CASE e.kind = "tcp-syn" -> IfTracked("SYNPacketsIn")
       [] e.kind = "udp" -> IfTracked("UDPPacketsIn")
       [] e.kind = "icmp" -> IfTracked("ICMPPacketsIn")
       [] OTHER -> <<>>
Amount(e, f) == IF f = "FlowsIn" THEN 1 ELSE e.packets

Victim(g) == call[g].event.dst
RatesLockFree == monitor # "swapping"

FetchRates(g) ==
  /\ At(g, "fetch")
  /\ RatesLockFree
  /\ LET r == rates[Victim(g)]
     IN call' = [call EXCEPT ![g].at = IF r = 0 THEN "create" ELSE "add",
                             ![g].counters = r]
  /\ UNCHANGED <<delivered, ddosVars>>

(* Under the write lock the host is looked up again: another goroutine may *)
(* have created its counters meanwhile.                                    *)
CountersMissingWithoutSecondLook(h) == TRUE
CountersMissing(h) == rates[h] = 0

CreateRates(g) ==
  /\ At(g, "create")
  /\ RatesLockFree
  /\ IF CountersMissing(Victim(g))
     THEN /\ counters' = Append(counters, NoCounts)
          /\ rates' = [rates EXCEPT ![Victim(g)] = Len(counters')]
     ELSE UNCHANGED <<counters, rates>>
  /\ call' = [call EXCEPT ![g].at = "add", ![g].counters = rates'[Victim(g)]]
  /\ UNCHANGED <<delivered, monitor, swaps, snapshot, alertDeduplicator,
                 ticksLeft, ddosCancelled, uncounted>>

(* The additions take no lock; after the last the profiler is called.      *)
AddToField(g) ==
  /\ At(g, "add")
  /\ LET e == call[g].event
         i == call[g].field
         f == FieldsOf(e)[i]
     IN /\ counters' = [counters EXCEPT ![call[g].counters][f] = @ + Amount(e, f)]
        /\ uncounted' = [uncounted EXCEPT ![e.dst][f] = @ + Amount(e, f)]
        /\ call' = [call EXCEPT ![g].field = i + 1,
                                ![g].at = IF i = Len(FieldsOf(e))
                                          THEN ProfilerStep(call[g].hosts) ELSE "add"]
  /\ UNCHANGED <<delivered, rates, monitor, swaps, snapshot, alertDeduplicator,
                 ticksLeft, ddosCancelled>>

-------------------------------------------------------------------------------
(* evaluateRates: d.mu is held over all the swaps of a window.  The map is *)
(* walked in any order.                                                    *)
FieldOrder == <<"PacketsIn", "FlowsIn">> \o IfTracked("SYNPacketsIn")
              \o IfTracked("UDPPacketsIn") \o IfTracked("ICMPPacketsIn")

BeginWindow ==
  /\ monitor = "waiting"
  /\ ticksLeft > 0
  /\ ticksLeft' = ticksLeft - 1
  /\ swaps' = [h \in LocalHosts |-> IF rates[h] = 0 THEN <<>> ELSE FieldOrder]
  /\ snapshot' = [h \in LocalHosts |-> NoCounts]
  /\ monitor' = "swapping"
  /\ UNCHANGED <<chainVars, rates, counters, alertDeduplicator, ddosCancelled, uncounted>>

(* The fields of a host are all swapped before those of the next.          *)
SwapField(h) ==
  /\ monitor = "swapping"
  /\ swaps[h] # <<>>
  /\ \A other \in LocalHosts \ {h} : swaps[other] \in {<<>>, FieldOrder}
  /\ LET f == Head(swaps[h])
         count == counters[rates[h]][f]
     IN /\ snapshot' = [snapshot EXCEPT ![h][f] = count]
        /\ counters' = [counters EXCEPT ![rates[h]][f] = 0]
        /\ uncounted' = [uncounted EXCEPT ![h][f] = @ - count]
  /\ swaps' = [swaps EXCEPT ![h] = Tail(@)]
  /\ UNCHANGED <<chainVars, rates, monitor, alertDeduplicator, ticksLeft, ddosCancelled>>

UnlockRates ==
  /\ monitor = "swapping"
  /\ swaps = NoSwaps
  /\ monitor' = "reporting"
  /\ UNCHANGED <<chainVars, rates, counters, swaps, snapshot, alertDeduplicator,
                 ticksLeft, ddosCancelled, uncounted>>

(* triggerAlert for each field over its limit sets the key of the host and *)
(* the alert's type, unless it was set in the last ten minutes; the         *)
(* anomaly is saved by the monitor itself.  No type is disabled here and   *)
(* no host muted, which would only leave keys out.                         *)
OverLimit == {<<key[1], AlertType[key[2]]>> : key \in
                {k \in LocalHosts \X Fields :
                   snapshot[k[1]][k[2]] \div WindowLength > Thresholds[k[2]]}}
Report ==
  /\ monitor = "reporting"
  /\ alertDeduplicator' = alertDeduplicator \cup OverLimit
  /\ monitor' = "waiting"
  /\ UNCHANGED <<chainVars, rates, counters, swaps, snapshot, ticksLeft, ddosCancelled, uncounted>>

(* Ten minutes after it was set a key no longer holds an alert back.       *)
DedupExpires(key) ==
  /\ key \in alertDeduplicator
  /\ alertDeduplicator' = alertDeduplicator \ {key}
  /\ UNCHANGED <<chainVars, rates, counters, monitor, swaps, snapshot,
                 ticksLeft, ddosCancelled, uncounted>>

StopMonitor ==
  /\ monitor = "waiting"
  /\ ddosCancelled
  /\ monitor' = "done"
  /\ UNCHANGED <<chainVars, rates, counters, swaps, snapshot, alertDeduplicator,
                 ticksLeft, ddosCancelled, uncounted>>

CancelDDoS ==
  /\ ddosCancelled' = TRUE
  /\ UNCHANGED <<rates, counters, monitor, swaps, snapshot, alertDeduplicator,
                 ticksLeft, uncounted>>
MonitorGone == monitor = "done"

-------------------------------------------------------------------------------
(* No traffic escapes the detector: what was added to the counters of a    *)
(* host and not yet evaluated is in the counters the next window will      *)
(* read, however goroutines race to create them and additions fall among   *)
(* the swaps (accumulateRates, evaluateRates).                             *)
RatesConserved ==
  \A h \in LocalHosts :
    uncounted[h] = IF rates[h] = 0 THEN NoCounts ELSE counters[rates[h]]
===============================================================================

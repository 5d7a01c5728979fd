------------------------------ MODULE BatchMetrics ------------------------------
(***************************************************************************)
(* What AnalyzeBatch makes of the rows of one batch: a record of bounded   *)
(* sets and counters per local source address (internal/anomaly/metrics.go) *)
(* and the two scan detectors that read it (fanout.go).                    *)
(*                                                                         *)
(* The aggregator drains a map, so the rows of a batch come in any order,  *)
(* and once a set is full the order decides what is counted.  Destinations *)
(* are numbers in the order of their addresses; all rows have one protocol.*)
(***************************************************************************)
EXTENDS DetectorTable

CONSTANTS
  Destinations,   (* addresses rows go to, the local Peers among them      *)
  Unicast,        (* those isFanoutDestination accepts                     *)
  Ports,          (* destination ports; a row of a portless protocol has 0 *)
  MaxCardinality, (* maxFanoutCardinality: 4096                            *)
  FanoutMin,      (* destinationFanoutMin: 32                              *)
  FanoutMax,      (* destinationFanoutMaxLimit: 4096                       *)
  PortMin,        (* portFanoutMin: 16                                     *)
  MaxDensity      (* maxScanPacketsPerTarget: 12                           *)

NoPort == 0

ASSUME MetricsAssumption ==
  /\ Destinations \subseteq Nat \ {0} /\ Peers \subseteq Destinations
  /\ Unicast \subseteq Destinations
  /\ Ports \subseteq Nat \ {NoPort}
  /\ MaxCardinality \in Nat \ {0} /\ MaxDensity \in Nat
  /\ FanoutMin \in Nat \ {0} /\ PortMin \in Nat \ {0}
  /\ FanoutMax \in FanoutMin..MaxCardinality

VARIABLES
  batch,   (* the rows still to be aggregated                              *)
  metrics  (* the deviceMetrics of the sources met so far                  *)
metricsVars == <<batch, metrics>>

(* rows is a history field: the rows that were aggregated.                 *)
NoMetrics ==
  [bytes |-> 0, packets |-> 0, dstIPs |-> {}, dstIPsTruncated |-> FALSE,
   dstPorts |-> {}, dstIPByPort |-> <<>>, internalDstIPs |-> {},
   portsByDestination |-> <<>>, packetsByDestination |-> <<>>,
   timestamp |-> NoTime, rows |-> {}]

Packets(rows) == MapThenSumSet(LAMBDA r : r.packets, rows)
DestinationsOf(rows) == {r.dst : r \in rows}
PortsOf(rows) == {r.port : r \in rows} \ {NoPort}

-------------------------------------------------------------------------------
(* Bugs a change could introduce, each replacing the definition it is      *)
(* named after in one mutation run.                                        *)
PacketsOfNewTargets(m, f) == IF f.dst \in m.dstIPs THEN 0 ELSE f.packets

-------------------------------------------------------------------------------
(* aggregateDeviceMetrics, one row.                                        *)
Room(set) == Cardinality(set) < MaxCardinality

PacketsOf(m, f) == f.packets
AddVolume(m, f) ==
  [m EXCEPT !.bytes = @ + f.bytes, !.packets = @ + PacketsOf(m, f),
            !.timestamp = Later(f.t, @), !.rows = @ \cup {f}]

AddDestination(m, f) ==
  CASE f.dst \notin Unicast -> m
    [] f.dst \in Unicast /\ Room(m.dstIPs) -> [m EXCEPT !.dstIPs = @ \cup {f.dst}]
    [] OTHER -> [m EXCEPT !.dstIPsTruncated = @ \/ f.dst \notin m.dstIPs]

AddPeer(m, f) ==
  IF f.dst \in Peers /\ Cardinality(m.internalDstIPs) < MaxPeers
  THEN [m EXCEPT !.internalDstIPs = @ \cup {f.dst}] ELSE m

AddPort(m, f) ==
  [m EXCEPT
     !.dstPorts = IF Room(@) THEN @ \cup {f.port} ELSE @,
     !.dstIPByPort = IF f.port \notin DOMAIN @ /\ Room(DOMAIN @) THEN With(@, f.port, f.dst) ELSE @]

(* Once the ports of a target are full neither a port nor a packet to it   *)
(* is counted any more.                                                    *)
CountsForTarget(m, f) ==
  /\ f.dst \in DOMAIN m.portsByDestination \/ Room(DOMAIN m.portsByDestination)
  /\ Room(Entry(m.portsByDestination, f.dst, {}))
AddTarget(m, f) ==
  IF CountsForTarget(m, f)
  THEN [m EXCEPT
          !.portsByDestination = With(@, f.dst, Entry(@, f.dst, {}) \cup {f.port}),
          !.packetsByDestination = With(@, f.dst, Entry(@, f.dst, 0) + f.packets)]
  ELSE m

AddRow(m, f) ==
  LET seen == AddPeer(AddDestination(AddVolume(m, f), f), f)
  IN IF f.port = NoPort THEN seen ELSE AddTarget(AddPort(seen, f), f)

AggregateRow(f) ==
  /\ f \in batch
  /\ batch' = batch \ {f}
  /\ metrics' = IF f.src \in Devices
                THEN With(metrics, f.src, AddRow(Entry(metrics, f.src, NoMetrics), f))
                ELSE metrics

MetricsInit == batch = {} /\ metrics = <<>>

-------------------------------------------------------------------------------
(* checkFanout: many destinations, or many ports of the one target that    *)
(* has the most, with few packets for each of them.                        *)
LowDensity(count, packets) == packets <= count * MaxDensity

DestinationFanout(m, limit) ==
  Cardinality(m.dstIPs) >= limit /\ LowDensity(Cardinality(m.dstIPs), m.packets)

HighestPortFanout(m) ==
  LET Count(d) == Cardinality(m.portsByDestination[d])
      Targets == DOMAIN m.portsByDestination
  IN {d \in Targets : \A e \in Targets : Count(d) > Count(e) \/ (Count(d) = Count(e) /\ d <= e)}

PortFanouts(m) ==
  {d \in HighestPortFanout(m) :
     LET count == Cardinality(m.portsByDestination[d])
     IN count >= PortMin /\ LowDensity(count, m.packetsByDestination[d])}
===============================================================================

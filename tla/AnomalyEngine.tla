------------------------------ MODULE AnomalyEngine ------------------------------
(***************************************************************************)
(* The anomaly engine (internal/anomaly/engine.go, alerts.go): the flush   *)
(* worker calls AnalyzeBatch for one batch after the other, and for each   *)
(* device of a batch the detectors look at its metrics; then each row goes *)
(* to the beacon detector.  Settings may change the controls meanwhile.    *)
(*                                                                         *)
(* Only the controls and the baselines can change between two devices of a *)
(* batch, so a batch is the sequence of its devices' steps, in any order.  *)
(* A feed gives rows, which are saved and aggregated into the metrics of   *)
(* their device, or the metrics themselves, for the detectors that keep    *)
(* state across batches; rows reach the beacon detector one at a time.     *)
(***************************************************************************)
EXTENDS ProfileDetector, PeerDetector, NightDetector, BeaconDetector, FlowBaseline

CONSTANTS
  SourceOf,    (* the source address of each tuple                         *)
  SignatureOf, (* deviceProfileSignature, of the ports and the peer band   *)
  Feeds        (* bound: the batches, metrics, rows and settings of a run  *)

Types == {"TRAFFIC_SPIKE", "DESTINATION_FANOUT", "PORT_FANOUT", "DEVICE_PROFILE_CHANGE",
          "NEW_INTERNAL_COMMUNICATION", "NIGHTTIME_TRAFFIC", "NEW_DESTINATION", "NEW_PORT",
          "BEACONING"}

(* deviceMetrics, reduced to what the stateful detectors read.             *)
Metrics == [ip: Devices, t: Minutes, signature: Signatures, peers: SUBSET Peers,
            significant: BOOLEAN]
Controls == [disabled: SUBSET Types, muted: SUBSET Devices,
             minObservations: Nat \ {0}, minSeconds: Nat, minHistory: Nat \ {0}]
Rows == [src: STRING, dst: Destinations, port: Ports \cup {NoPort}, packets: Nat, bytes: Nat, t: Minutes]

Bands == {"0", "1-4", "5-15", "16+"}
PeerBand(n) == CASE n = 0 -> "0" [] n \in 1..4 -> "1-4" [] n \in 5..15 -> "5-15" [] OTHER -> "16+"

ASSUME EngineAssumption ==
  /\ SourceOf \in [Tuples -> Devices]
  /\ SignatureOf \in [(SUBSET Ports) \X Bands -> Signatures]
  /\ \A feed \in Feeds :
       /\ feed.metrics \subseteq Metrics
       /\ feed.storage \in {"sqlite", "duckdb"}
       /\ feed.batches \subseteq [rows: SUBSET Rows, bucket: Minutes]
       /\ \A b \in feed.batches : \A f \in b.rows : f.t <= b.bucket
       /\ feed.thresholds \subseteq Nat \X Nat
       /\ feed.rows \subseteq Tuples \X Minutes
       /\ feed.controls \subseteq Controls
       /\ feed.controls # {}

VARIABLES
  feed,              (* the load of this behaviour                         *)
  controls,          (* e.controls                                         *)
  alertDeduplicator, (* keys set less than fifteen minutes ago             *)
  raised,            (* history: the alerts handed to SaveAnomaly          *)
  verdict            (* history: what was found in the last metrics        *)

alertVars == <<alertDeduplicator, raised>>
batchVars == <<metricsVars, baselineVars, verdict>>
detectorVars == <<profileVars, peerVars, nightVars, beaconVars>>
engineVars == <<feed, controls, alertVars, batchVars, detectorVars>>

Alert(ip, type, about) == [ip |-> ip, type |-> type, about |-> about]
Alerts == [ip: Devices, type: Types, about: Destinations \cup {NoPeer}]
NoVerdict == [found |-> {}, rows |-> {}, before |-> {}, limit |-> FanoutMin,
              answered |-> FALSE, minHistory |-> 1]

EngineTypeOK ==
  /\ ProfileTypeOK
  /\ PeerTypeOK
  /\ NightTypeOK
  /\ BeaconTypeOK
  /\ controls \in Controls
  /\ alertDeduplicator \subseteq Devices \X Types
  /\ raised \subseteq Alerts
  /\ \A ip \in DOMAIN metrics : LET m == metrics[ip] IN
       /\ DOMAIN m.dstIPByPort = m.dstPorts
       /\ DOMAIN m.packetsByDestination = DOMAIN m.portsByDestination
       /\ Cardinality(m.dstIPs) <= MaxCardinality

EngineInit ==
  /\ feed \in Feeds
  /\ controls \in feed.controls
  /\ alertDeduplicator = {}
  /\ raised = {}
  /\ ProfileInit
  /\ PeerInit
  /\ NightInit
  /\ BeaconInit
  /\ MetricsInit
  /\ BaselineInit
  /\ verdict = NoVerdict

-------------------------------------------------------------------------------
(* What the detectors that keep state report of one device.                *)
Found(m) ==
  (IF ReportsNight(m.ip, m.t, m.significant)
   THEN {Alert(m.ip, "NIGHTTIME_TRAFFIC", NoPeer)} ELSE {})
  \cup (IF ReplacesBaseline(m.ip, m.signature, m.t)
        THEN {Alert(m.ip, "DEVICE_PROFILE_CHANGE", NoPeer)} ELSE {})
  \cup {Alert(m.ip, "NEW_INTERNAL_COMMUNICATION", peer) :
          peer \in ReportedPeers(m.ip, m.peers, m.t)}

(* What the others find in the metrics of one device.  A lookup of the     *)
(* history may fail, and its destination or port is skipped.               *)
FoundIn(ip, m, answered) ==
  (IF IsAnomaly(ip, m.bytes, m.packets) THEN {Alert(ip, "TRAFFIC_SPIKE", NoPeer)} ELSE {})
  \cup (IF DestinationFanout(m, DestinationLimit(ip))
        THEN {Alert(ip, "DESTINATION_FANOUT", NoPeer)} ELSE {})
  \cup {Alert(ip, "PORT_FANOUT", d) : d \in PortFanouts(m)}
  \cup (IF ~answered THEN {} ELSE
        {Alert(ip, "NEW_DESTINATION", d) : d \in NewDestinations(ip, m, controls.minHistory)}
        \cup {Alert(ip, "NEW_PORT", m.dstIPByPort[p]) : p \in NewPorts(ip, m, controls.minHistory)})

(* triggerAlertWithDestination, for each alert the detectors found: of     *)
(* several with one key, the first in the order of a map is raised.        *)
alertSuppressed(a) == a.type \in controls.disabled \/ a.ip \in controls.muted
KeyOf(a) == <<a.ip, a.type>>
Duplicate(a) == KeyOf(a) \in alertDeduplicator

TriggerAlerts(found) ==
  LET passing == {a \in found : ~alertSuppressed(a) /\ ~Duplicate(a)}
      keys == {KeyOf(a) : a \in passing}
  IN /\ alertDeduplicator' = alertDeduplicator \cup keys
     /\ \E first \in SUBSET passing :
          /\ {KeyOf(a) : a \in first} = keys /\ Cardinality(first) = Cardinality(keys)
          /\ raised' = raised \cup first

Analyze(m, found) ==
  /\ CheckNighttime(m.ip, m.t, m.significant)
  /\ ObserveDeviceProfile(m.ip, m.signature, m.t)
  /\ ObserveInternalPeer(m.ip, m.peers, m.t)
  /\ TriggerAlerts(Found(m) \cup found)
  /\ UNCHANGED <<feed, controls, baselineVars, beaconVars>>

AnalyzeMetrics(m) == Analyze(m, {}) /\ UNCHANGED <<metricsVars, verdict>>

AnalyzeDevice(ip) ==
  /\ batch = {}
  /\ LET m == metrics[ip]
     IN \E answered \in BOOLEAN :
          /\ Analyze([ip |-> ip, t |-> m.timestamp, peers |-> m.internalDstIPs,
                      signature |-> SignatureOf[<<m.dstPorts, PeerBand(Cardinality(m.dstIPs))>>],
                      significant |-> Significant(m.bytes, m.packets, Cardinality(m.dstIPs))],
                     FoundIn(ip, m, answered))
          /\ verdict' = [found |-> FoundIn(ip, m, answered), rows |-> m.rows,
                         before |-> {e \in stored : e.row.src = ip /\ e.row \notin m.rows},
                         limit |-> DestinationLimit(ip), answered |-> answered,
                         minHistory |-> controls.minHistory]
  /\ metrics' = [d \in DOMAIN metrics \ {ip} |-> metrics[d]]
  /\ UNCHANGED batch

(* The flush worker saves a batch and analyses it, before the next one.    *)
ReceiveBatch(b) ==
  /\ SaveBatch(b, feed.storage)
  /\ UNCHANGED <<feed, controls, verdict, alertVars, detectorVars>>

Aggregate(row) ==
  /\ AggregateRow(row)
  /\ UNCHANGED <<feed, controls, verdict, baselineVars, alertVars, detectorVars>>

Learn(ip, now) ==
  /\ CalculateBaseline(ip, now)
  /\ UNCHANGED <<feed, controls, metricsVars, verdict, alertVars, detectorVars>>

ChangeThresholds(minBytes, minPackets) ==
  /\ UpdateThresholds(minBytes, minPackets)
  /\ UNCHANGED <<feed, controls, metricsVars, verdict, alertVars, detectorVars>>

CheckBeaconing(key, t) ==
  /\ ObserveBeacon(key, t)
  /\ TriggerAlerts(IF ReportsBeacon(key, t, controls.minObservations, controls.minSeconds)
                   THEN {Alert(SourceOf[key], "BEACONING", NoPeer)} ELSE {})
  /\ UNCHANGED <<feed, controls, batchVars, profileVars, peerVars, nightVars>>

(* The settings handler replaces the controls as a whole.                  *)
UpdateConfig(c) ==
  /\ controls' = c
  /\ UNCHANGED <<feed, alertVars, batchVars, detectorVars>>

(* Fifteen minutes after it was set a key no longer holds an alert back.   *)
DedupExpires(key) ==
  /\ alertDeduplicator' = alertDeduplicator \ {key}
  /\ UNCHANGED <<feed, controls, raised, batchVars, detectorVars>>

EngineNext ==
  \/ \E m \in feed.metrics : AnalyzeMetrics(m)
  \/ \E b \in feed.batches : ReceiveBatch(b)
  \/ \E row \in batch : Aggregate(row)
  \/ \E ip \in DOMAIN metrics : AnalyzeDevice(ip)
  \/ \E ip \in Devices, now \in Minutes : feed.batches # {} /\ Learn(ip, now)
  \/ \E th \in feed.thresholds : ChangeThresholds(th[1], th[2])
  \/ \E row \in feed.rows : CheckBeaconing(row[1], row[2])
  \/ \E c \in feed.controls : UpdateConfig(c)
  \/ \E key \in alertDeduplicator : DedupExpires(key)

EngineSpec == EngineInit /\ [][EngineNext]_engineVars

-------------------------------------------------------------------------------
(* What the scan detectors find is true of the rows of the batch, whatever *)
(* their order and whatever no longer fitted: the numbers of an alert are  *)
(* those of a scan, and unless something was cut a scan is found.  Packets *)
(* of a target whose ports are full are not counted (aggregateDeviceMetrics, *)
(* checkFanout).                                                           *)
ScansTrue(v) ==
  LET n == Cardinality(DestinationsOf(v.rows) \cap Unicast)
      To(d) == {r \in v.rows : r.dst = d /\ r.port # NoPort}
  IN /\ \A a \in v.found : a.type = "DESTINATION_FANOUT" =>
          n >= FanoutMin /\ LowDensity(n, Packets(v.rows))
     /\ v.limit <= n /\ n <= MaxCardinality /\ LowDensity(n, Packets(v.rows)) =>
          \E a \in v.found : a.type = "DESTINATION_FANOUT"
     /\ \A a \in v.found : a.type = "PORT_FANOUT" =>
          LET ports == Cardinality(PortsOf(To(a.about)))
          IN /\ ports >= PortMin
             /\ ports < MaxCardinality => LowDensity(ports, Packets(To(a.about)))

(* "identify external peers [...] a device has not used in the past 7      *)
(* days": a destination is not reported if a row to it was saved for a     *)
(* bucket before the newest row of the batch, however late the row and     *)
(* whatever the database.  Rows that came late, saved for a later bucket,  *)
(* count only if the lookup sees them, which a row over midnight, or any   *)
(* in DuckDB, it may not.  Unless rows of an older minute came with the    *)
(* batch, a destination was not counted or its lookup failed, the report   *)
(* is exactly that (checkNewDestinations, after SaveAggregates).           *)
NewDestinationsTrue(v) ==
  LET newest == Max({f.t : f \in v.rows} \cup {NoTime})
      sure == {e \in v.before : e.bucket < newest /\ e.row.t + Lookback >= newest}
      visible == {e \in v.before : e.stamp < newest /\ e.stamp + Lookback >= newest
                                   /\ ShardOf(e) <= DateOf(newest - 1)}
      met == (DestinationsOf(v.rows) \cap Unicast) \ Peers
      Beyond(entries) == met \ DestinationsOf(RowsOf(entries))
      reported == {a.about : a \in {x \in v.found : x.type = "NEW_DESTINATION"}}
  IN /\ reported \subseteq Beyond(sure)
     /\ (\A f \in v.rows : f.t = newest) /\ v.answered
        /\ Cardinality(DestinationsOf(v.rows) \cap Unicast) <= MaxCardinality =>
          reported = IF Mature(visible, v.minHistory) THEN Beyond(visible) ELSE {}

FindingsTrue == ScansTrue(verdict) /\ NewDestinationsTrue(verdict)

(* internal_peer_test.go:59: "The new peer is added to the learned set     *)
(* after alerting": a peer the detector reported, and will therefore not   *)
(* report again, reached SaveAnomaly.  The code learns the peer whether    *)
(* triggerAlert lets the alert through or not.                             *)
LearnedPeersWereAlerted ==
  \A ip \in DOMAIN internalPeerProfiles : \A peer \in Peers :
    internalPeerProfiles[ip].reports[peer] > 0
      => Alert(ip, "NEW_INTERNAL_COMMUNICATION", peer) \in raised
===============================================================================

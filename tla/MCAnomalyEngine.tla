----------------------------- MODULE MCAnomalyEngine -----------------------------
(* Small instances of AnomalyEngine.  Each feed exercises one detector with    *)
(* rows in any order and feeds the others nothing that changes them much, so   *)
(* that the state spaces add instead of multiplying.                           *)
EXTENDS AnomalyEngine

MCDevices == {"d1", "d2"}
MCMinutes == 1..7
MCSignatures == {"web", "dns", "scan"}
MCPeers == 1..3
MCNights == {1, 2, 3, 4}
MCDays == {5, 6}
MCTuples == {"d1-c2", "d2-c2"}
MCSourceOf == [k \in MCTuples |-> IF k = "d1-c2" THEN "d1" ELSE "d2"]

Seen(ip, t, signature, peers, significant) ==
  [ip |-> ip, t |-> t, signature |-> signature, peers |-> peers,
   significant |-> significant]
Control(disabled, muted, n) ==
  [disabled |-> disabled, muted |-> muted, minObservations |-> n, minSeconds |-> 90,
   minHistory |-> 2]
Default == Control({}, {}, 3)

ProfileFeed ==
  [metrics |-> {Seen("d1", t, s, {}, FALSE) : t \in 1..3, s \in MCSignatures},
   storage |-> "sqlite", batches |-> {}, thresholds |-> {}, rows |-> {}, controls |-> {Default, Control({"DEVICE_PROFILE_CHANGE"}, {}, 3)}]
PeerFeed ==
  [metrics |-> {Seen("d1", t, "web", peers, FALSE) :
                  t \in 1..3, peers \in (SUBSET MCPeers) \ {{}}},
   storage |-> "sqlite", batches |-> {}, thresholds |-> {}, rows |-> {}, controls |-> {Default}]
NightFeed ==
  [metrics |-> {Seen("d1", t, "web", {}, TRUE) : t \in MCNights \cup MCDays},
   storage |-> "sqlite", batches |-> {}, thresholds |-> {}, rows |-> {}, controls |-> {Default, Control({}, {"d1"}, 3)}]
TwoDevicesFeed ==
  [metrics |-> {Seen(ip, t, "web", {1}, TRUE) : ip \in MCDevices, t \in {1, 2, 5}},
   storage |-> "sqlite", batches |-> {}, thresholds |-> {}, rows |-> {}, controls |-> {Default}]
BeaconFeed ==
  [metrics |-> {}, storage |-> "sqlite", batches |-> {}, thresholds |-> {}, rows |-> MCTuples \X MCMinutes,
   controls |-> {Default, Control({}, {}, 5)}]

(* Two quiet minutes, then batches that scan, with a late row, with a row of   *)
(* another network, and with more destinations and ports than are counted.    *)
To(dst, port, n, t) == [src |-> "d1", dst |-> dst, port |-> port, packets |-> n, bytes |-> n, t |-> t]
Foreign == [To(4, 1, 1, 2) EXCEPT !.src = "elsewhere"]
MCDestinations == 1..8
MCUnicast == 1..7
MCPorts == 1..4
MCSignatureOf ==
  [x \in (SUBSET MCPorts) \X Bands |->
     CASE x[1] = {} -> "dns" [] x[1] # {} /\ x[1] \subseteq {1, 2} -> "web" [] OTHER -> "scan"]
Batches(storage, B) ==
  [metrics |-> {}, rows |-> {}, storage |-> storage, batches |-> B, thresholds |-> {<<0, 2>>},
   controls |-> {Control(Types \ {"DESTINATION_FANOUT", "NEW_DESTINATION"}, {}, 3)}]
For(bucket, rows) == [rows |-> rows, bucket |-> bucket]
Quiet1 == For(1, {To(4, 1, 1, 1)})
Quiet2 == For(2, {To(4, 1, 1, 2), To(8, 0, 1, 2)})
Contact == For(3, {To(4, 1, 1, 3), To(5, 1, 2, 3), To(1, 0, 3, 3)})
PortScan == For(4, {To(5, 1, 1, 4), To(5, 2, 1, 4), To(5, 3, 4, 4), To(5, 4, 1, 4), To(6, 1, 1, 2)})
Scan == For(5, {To(4, 1, 1, 5), To(5, 1, 2, 5), To(6, 1, 2, 5), To(7, 2, 1, 5), Foreign})

(* The day ends with minute 3: the row of minute 3 to destination 5 is saved   *)
(* after midnight, and the next contact, itself late, has a lookup that ends   *)
(* before it.                                                                  *)
OverMidnight == {For(2, {To(4, 1, 1, 2)}), For(3, {To(4, 1, 2, 3)}),
                 For(4, {To(5, 1, 1, 3), To(4, 1, 1, 4)}), For(5, {To(5, 1, 2, 4)})}
BatchFeeds == {Batches("sqlite", {Quiet1, Quiet2, Contact}),
               Batches("duckdb", {Quiet1, Contact, Scan}),
               Batches("sqlite", {Quiet2, PortScan}),
               Batches("sqlite", OverMidnight), Batches("duckdb", OverMidnight)}

MCFeeds == {ProfileFeed, PeerFeed, NightFeed, TwoDevicesFeed, BeaconFeed} \cup BatchFeeds
MCPeerFeeds == {PeerFeed}
===============================================================================

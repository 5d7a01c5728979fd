--------------------------- MODULE AnomalyEngine_proofs ---------------------------
(***************************************************************************)
(* Proofs about the detectors that keep state, and the engine that feeds   *)
(* them, for any feed of rows and metrics, in any order of their minutes.  *)
(*                                                                         *)
(* A detector keeps a table of profiles, and what is known of a profile is *)
(* stated as a set: the sound ones.  A fresh profile is sound, every       *)
(* handler maps sound profiles to sound ones, and pruning only drops some: *)
(* so a table of sound profiles stays one.                                 *)
(***************************************************************************)
EXTENDS AnomalyEngine, SetTheorems, SequenceTheorems

-------------------------------------------------------------------------------
(* The inductive invariant.                                                *)

(* The last k of the windows w are all in G.                               *)
InLast(w, k, G) == k <= Len(w) /\ \A j \in (Len(w) - k + 1)..Len(w) : w[j] \in G

(* A candidate is in all windows that are counted for it.  What was        *)
(* reported is known, unless there is no room.                             *)
Showing(peer) == {P \in SUBSET Peers : peer \in P}
SoundPeers == {p \in InternalPeerProfiles :
  /\ Cardinality(p.known) <= MaxPeers /\ Cardinality(p.learning) <= MaxPeers
  /\ Learning(p) => /\ p.known = {} /\ p.candidate = NoPeer
                    /\ \A x \in Peers : p.reports[x] = 0
  /\ \A x \in Peers : /\ p.reports[x] > 0 => x \in p.known \/ Cardinality(p.known) = MaxPeers
                      /\ p.reports[x] > 1 => Cardinality(p.known) = MaxPeers
  /\ p.candidateWindows < PeerConfirm /\ Len(p.windows) <= PeerConfirm
  /\ p.candidate # NoPeer => InLast(p.windows, p.candidateWindows, Showing(p.candidate))}

(* A candidate signature is that of all windows counted for it, and no     *)
(* signature was learned more often than there were windows.               *)
SoundProfiles == {p \in DeviceFeatureProfiles :
  /\ \A s \in Signatures : p.learning[s] <= p.learningWindows
  /\ p.learningWindows < ProfileLearning
  /\ p.candidateWindows < ProfileConfirm /\ Len(p.windows) <= ProfileConfirm
  /\ InLast(p.windows, p.candidateWindows, {p.candidate})
  /\ p.baseline = NoSignature => p.candidateWindows = 0}

(* A night that was reported is recorded, until enough are.                *)
SoundActivities == {p \in ActivityProfiles :
  /\ Len(p.nighttimeBuckets) <= ExpectedNights
  /\ Len(p.daytimeBuckets) <= MinDaytimeWindows
  /\ Len(p.nighttimeBuckets) < ExpectedNights => p.alerted \subseteq ToSet(p.nighttimeBuckets)
  /\ IsFiniteSet(p.alerted) /\ Cardinality(p.alerted) <= ExpectedNights}

(* A series was last seen in its last minute.                              *)
SoundSeries == {p \in BeaconSeries :
  /\ AreMostRecent(p.observations, p.seen, MaxObservations)
  /\ p.observations # <<>> /\ p.lastSeen = p.observations[Len(p.observations)]}

(* The metrics of a device count no more than fits, and the same targets   *)
(* and ports in each of their maps.                                        *)
MetricFields == DOMAIN NoMetrics
SoundMetrics(m) ==
  /\ m = [f \in MetricFields |-> m[f]]
  /\ m.bytes \in Nat /\ m.packets \in Nat
  /\ m.dstIPs \subseteq Destinations /\ IsFiniteSet(m.dstIPs)
  /\ Cardinality(m.dstIPs) <= MaxCardinality
  /\ m.internalDstIPs \subseteq Peers
  /\ m.dstPorts \subseteq Ports /\ DOMAIN m.dstIPByPort = m.dstPorts
  /\ \A port \in m.dstPorts : m.dstIPByPort[port] \in Destinations
  /\ DOMAIN m.portsByDestination \subseteq Destinations
  /\ DOMAIN m.packetsByDestination = DOMAIN m.portsByDestination
  /\ m.rows \subseteq Rows

(* A table has no more entries than it may, all of them sound.             *)
Table(table, Keys, Entries, limit) ==
  IsTable(table, Keys, Entries, limit) /\ IsFiniteSet(DOMAIN table)

PeerInv == /\ Table(internalPeerProfiles, Devices, SoundPeers, MaxDevices)
           /\ internalPeerWatermark \in Minutes \cup {NoTime}
ProfileInv == /\ Table(deviceProfiles, Devices, SoundProfiles, MaxDevices)
              /\ profileWatermark \in Minutes \cup {NoTime}
NightInv == /\ Table(activityProfiles, Devices, SoundActivities, MaxDevices)
            /\ activityWatermark \in Minutes \cup {NoTime}
BeaconInv == /\ Table(beacons, Tuples, SoundSeries, MaxSeries)
             /\ beaconWatermark \in Minutes \cup {NoTime}
MetricsInv ==
  /\ batch \subseteq Rows
  /\ DOMAIN metrics \subseteq Devices
  /\ \A ip \in DOMAIN metrics : SoundMetrics(metrics[ip]) /\ metrics[ip].timestamp \in Minutes
AlertsInv ==
  /\ feed \in Feeds /\ controls \in Controls
  /\ alertDeduplicator \subseteq Devices \X Types
  /\ raised \subseteq Alerts
EngineInv == PeerInv /\ ProfileInv /\ NightInv /\ BeaconInv /\ MetricsInv /\ AlertsInv

-------------------------------------------------------------------------------
(* Numbers and sequences.                                                  *)

(* The smaller of two numbers, and the larger.                             *)
LEMMA OfTwo ==
  ASSUME NEW a \in Int, NEW b \in Int
  PROVE  /\ Min({a, b}) = IF a <= b THEN a ELSE b
         /\ Max({a, b}) = IF a <= b THEN b ELSE a
<1>1. \A x \in {a, b} : (\A y \in {a, b} : x <= y) <=> x = IF a <= b THEN a ELSE b
  OBVIOUS
<1>2. \A x \in {a, b} : (\A y \in {a, b} : x >= y) <=> x = IF a <= b THEN b ELSE a
  OBVIOUS
<1>3. (IF a <= b THEN a ELSE b) \in {a, b} /\ (IF a <= b THEN b ELSE a) \in {a, b}
  OBVIOUS
<1> QED BY <1>1, <1>2, <1>3 DEF Min, Max

(* What LastOf keeps of a sequence.                                        *)
LEMMA LastOfKeeps ==
  ASSUME NEW S, NEW s \in Seq(S), NEW n \in Nat \ {0}
  PROVE  /\ LastOf(s, n) \in Seq(S)
         /\ Len(LastOf(s, n)) = IF Len(s) <= n THEN Len(s) ELSE n
         /\ \A i \in 1..Len(LastOf(s, n)) :
              /\ i + (Len(s) - Len(LastOf(s, n))) \in 1..Len(s)
              /\ LastOf(s, n)[i] = s[i + (Len(s) - Len(LastOf(s, n)))]
<1>1. PICK l \in Nat : l = Len(s)
  BY LenProperties
<1> DEFINE m == IF l <= n THEN 1 ELSE l - n + 1
<1>2. Max({1, l - n + 1}) = m
  <2>1. PICK d \in Int : d = l - n + 1
    OBVIOUS
  <2>2. PICK c \in Int : c = 1
    OBVIOUS
  <2>3. Max({c, d}) = IF c <= d THEN d ELSE c
    BY OfTwo
  <2> QED BY <2>1, <2>2, <2>3
<1>3. LastOf(s, n) = SubSeq(s, m, l)
  BY <1>1, <1>2 DEF LastOf
<1>4. \A i \in m..l : s[i] \in S
  BY <1>1, ElementOfSeq
<1>5. m \in Nat /\ m >= 1 /\ m <= l + 1
  OBVIOUS
<1> HIDE DEF m
<1>6. /\ SubSeq(s, m, l) \in Seq(S)
      /\ Len(SubSeq(s, m, l)) = IF m <= l THEN l - m + 1 ELSE 0
      /\ \A i \in 1..(l - m + 1) : SubSeq(s, m, l)[i] = s[m + i - 1]
  BY <1>4, <1>5, SubSeqProperties
<1> DEFINE v == SubSeq(s, m, l)
<1>7. Len(v) = l - m + 1 /\ l - m + 1 = IF l <= n THEN l ELSE n
  BY <1>5, <1>6 DEF m
<1> HIDE DEF v
<1>8. \A i \in 1..(l - m + 1) : i + (l - (l - m + 1)) = m + i - 1 /\ m + i - 1 \in 1..l
  BY <1>5
<1> QED BY <1>1, <1>3, <1>6, <1>7, <1>8 DEF v

(* One more window, and which were there before.                           *)
Shifted(v, w, e, n) ==
  /\ Len(v) \in 1..n /\ v[Len(v)] = e
  /\ Len(v) = IF Len(w) < n THEN Len(w) + 1 ELSE n
  /\ \A i \in 1..Len(v) : i # Len(v) =>
       /\ i + (Len(w) + 1 - Len(v)) \in 1..Len(w)
       /\ v[i] = w[i + (Len(w) + 1 - Len(v))]
(* Appending a window and keeping the last n shifts the windows.           *)
LEMMA NextWindow ==
  ASSUME NEW S, NEW w \in Seq(S), NEW e \in S, NEW n \in Nat \ {0}, Len(w) <= n
  PROVE  /\ LastOf(Append(w, e), n) \in Seq(S)
         /\ Shifted(LastOf(Append(w, e), n), w, e, n)
<1>0. PICK v : v = LastOf(Append(w, e), n)
  OBVIOUS
<1>1. PICK l \in Nat : l = Len(w)
  BY LenProperties
<1>2. /\ Append(w, e) \in Seq(S) /\ Len(Append(w, e)) = l + 1
      /\ \A i \in 1..l : Append(w, e)[i] = w[i]
      /\ Append(w, e)[l + 1] = e
  BY <1>1, AppendProperties
<1>3. PICK u \in Seq(S) : u = Append(w, e)
  BY <1>2
<1>4. /\ v \in Seq(S) /\ Len(v) = IF l + 1 <= n THEN l + 1 ELSE n
      /\ \A i \in 1..Len(v) : /\ i + (l + 1 - Len(v)) \in 1..(l + 1)
                              /\ v[i] = u[i + (l + 1 - Len(v))]
  <2>1. Len(u) = l + 1 /\ v = LastOf(u, n)
    BY <1>0, <1>2, <1>3
  <2>2. /\ LastOf(u, n) \in Seq(S)
        /\ Len(LastOf(u, n)) = IF Len(u) <= n THEN Len(u) ELSE n
        /\ \A i \in 1..Len(LastOf(u, n)) :
             /\ i + (Len(u) - Len(LastOf(u, n))) \in 1..Len(u)
             /\ LastOf(u, n)[i] = u[i + (Len(u) - Len(LastOf(u, n)))]
    BY LastOfKeeps
  <2> QED BY <2>1, <2>2
<1>5. PICK m \in Nat : m = Len(v) /\ m = IF l < n THEN l + 1 ELSE n
  BY <1>1, <1>4
<1>6. m \in 1..n /\ m \in 1..m /\ m + (l + 1 - m) = l + 1
  BY <1>1, <1>5
<1>7. v[m] = e
  BY <1>2, <1>3, <1>4, <1>5, <1>6
<1>8. \A i \in 1..m : i # m => i + (l + 1 - m) \in 1..l
  BY <1>1, <1>5
<1>b. \A i \in 1..m : i # m => v[i] = w[i + (l + 1 - m)]
  BY <1>2, <1>3, <1>4, <1>5, <1>8
<1>9. Shifted(v, w, e, n)
  BY <1>1, <1>4, <1>5, <1>6, <1>7, <1>8, <1>b DEF Shifted
<1> QED BY <1>0, <1>4, <1>9

(* What all windows of a candidate show, and the next one too, they show   *)
(* with that.                                                              *)
LEMMA StillLast ==
  ASSUME NEW S, NEW w \in Seq(S), NEW e \in S, NEW n \in Nat \ {0}, Len(w) <= n,
         NEW G, e \in G, NEW k \in Nat, k < n, InLast(w, k, G)
  PROVE  InLast(LastOf(Append(w, e), n), k + 1, G)
<1>1. PICK v : v = LastOf(Append(w, e), n)
  OBVIOUS
<1>2. PICK l \in Nat : l = Len(w)
  BY LenProperties
<1>a. Shifted(v, w, e, n)
  BY <1>1, NextWindow
<1>3. PICK m \in 1..n : m = Len(v) /\ m = IF l < n THEN l + 1 ELSE n
  BY <1>2, <1>a DEF Shifted
<1>4. v[m] = e /\ \A i \in 1..m : i # m => v[i] = w[i + (l + 1 - m)]
  BY <1>2, <1>3, <1>a DEF Shifted
<1>5. k <= l /\ \A j \in (l - k + 1)..l : w[j] \in G
  BY <1>2 DEF InLast
<1>6. k + 1 <= m
  BY <1>2, <1>3, <1>5
<1>7. ASSUME NEW j \in (m - (k + 1) + 1)..m, j # m PROVE v[j] \in G
  <2>1. j \in 1..m /\ j + (l + 1 - m) \in (l - k + 1)..l
    BY <1>3, <1>6, <1>7
  <2> QED BY <1>4, <1>5, <1>7, <2>1
<1> QED BY <1>1, <1>3, <1>4, <1>6, <1>7 DEF InLast

-------------------------------------------------------------------------------
(* Tables.                                                                 *)

(* What pruning leaves of a table.                                         *)
Restricted(small, table) ==
  DOMAIN small \subseteq DOMAIN table /\ \A k \in DOMAIN small : small[k] = table[k]

(* Pruned only drops entries.                                              *)
LEMMA PrunedDrops ==
  ASSUME NEW table, NEW t, NEW watermark
  PROVE  Restricted(Pruned(table, t, watermark), table)
BY DEF Pruned, Restricted

(* Dropping entries leaves a table of sound entries one.                   *)
LEMMA StaysTable ==
  ASSUME NEW table, NEW small, NEW Keys, NEW Entries, NEW limit \in Nat,
         Table(table, Keys, Entries, limit), Restricted(small, table)
  PROVE  Table(small, Keys, Entries, limit)
<1>1. /\ DOMAIN table \subseteq Keys /\ IsFiniteSet(DOMAIN table)
      /\ Cardinality(DOMAIN table) <= limit
      /\ \A k \in DOMAIN table : table[k] \in Entries
  BY DEF Table, IsTable
<1>2. /\ DOMAIN small \subseteq DOMAIN table
      /\ \A k \in DOMAIN small : small[k] = table[k]
  BY DEF Restricted
<1>3. IsFiniteSet(DOMAIN small) /\ Cardinality(DOMAIN small) <= Cardinality(DOMAIN table)
  BY <1>1, <1>2, FS_Subset
<1>4. Cardinality(DOMAIN small) \in Nat /\ Cardinality(DOMAIN table) \in Nat
  BY <1>1, <1>3, FS_CardinalityType
<1>5. \A k \in DOMAIN small : small[k] \in Entries
  BY <1>1, <1>2
<1> QED BY <1>1, <1>2, <1>3, <1>4, <1>5 DEF Table, IsTable

(* What is found in a table, or started afresh, is sound.                  *)
LEMMA EntryIsSound ==
  ASSUME NEW table, NEW Keys, NEW Entries, NEW limit,
         Table(table, Keys, Entries, limit), NEW key, NEW fresh \in Entries
  PROVE  Entry(table, key, fresh) \in Entries
BY DEF Table, IsTable, Entry

(* A sound entry may be put into a table that admits its key.              *)
LEMMA TableTakes ==
  ASSUME NEW table, NEW Keys, NEW Entries, NEW limit \in Nat,
         Table(table, Keys, Entries, limit), NEW key \in Keys, NEW entry \in Entries,
         key \in DOMAIN table \/ Cardinality(DOMAIN table) < limit
  PROVE  Table(With(table, key, entry), Keys, Entries, limit)
<1>1. /\ DOMAIN table \subseteq Keys /\ IsFiniteSet(DOMAIN table)
      /\ Cardinality(DOMAIN table) <= limit
      /\ \A k \in DOMAIN table : table[k] \in Entries
  BY DEF Table, IsTable
<1>2. PICK K : K = DOMAIN table \cup {key}
  OBVIOUS
<1>3. PICK w : w = [k \in K |-> IF k = key THEN entry ELSE table[k]]
  OBVIOUS
<1>4. With(table, key, entry) = w /\ DOMAIN w = K
  BY <1>2, <1>3 DEF With
<1>5. /\ IsFiniteSet(DOMAIN table \cup {key})
      /\ Cardinality(DOMAIN table \cup {key}) =
           IF key \in DOMAIN table THEN Cardinality(DOMAIN table) ELSE Cardinality(DOMAIN table) + 1
  BY <1>1, FS_AddElement
<1>6. Cardinality(DOMAIN table) \in Nat
  BY <1>1, FS_CardinalityType
<1>7. Cardinality(K) <= limit
  BY <1>1, <1>2, <1>5, <1>6
<1>8. K \subseteq Keys /\ \A k \in K : w[k] \in Entries
  BY <1>1, <1>2, <1>3
<1> QED BY <1>2, <1>4, <1>5, <1>7, <1>8 DEF Table, IsTable

(* The empty table.                                                        *)
LEMMA EmptyIsTable ==
  ASSUME NEW Keys, NEW Entries, NEW limit \in Nat
  PROVE  Table(<<>>, Keys, Entries, limit)
<1>1. DOMAIN <<>> = {}
  OBVIOUS
<1> QED BY <1>1, FS_EmptySet DEF Table, IsTable

(* A watermark is the time of a row, or none.                              *)
LEMMA LaterIsTime ==
  ASSUME NEW t \in Minutes, NEW w \in Minutes \cup {NoTime}
  PROVE  Later(t, w) \in Minutes \cup {NoTime}
BY DEF Later

-------------------------------------------------------------------------------
(* New internal communication.                                             *)

(* A profile that has taken a window into account, but no peer of it.      *)
PeersSeen(p, peers, t) ==
  [p EXCEPT !.lastBucket = t, !.lastSeen = t, !.windows = LastOf(Append(@, peers), PeerConfirm)]

(* What it keeps, and what it knows of its candidate.                      *)
HasSeen(s, p, peers) ==
  /\ s \in InternalPeerProfiles
  /\ s.known = p.known /\ s.learning = p.learning /\ s.learningWindows = p.learningWindows
  /\ s.candidate = p.candidate /\ s.candidateWindows = p.candidateWindows
  /\ s.reports = p.reports
  /\ Len(s.windows) <= PeerConfirm
  /\ \A x \in peers : InLast(s.windows, 1, Showing(x))
  /\ p.candidate \in peers => InLast(s.windows, p.candidateWindows + 1, Showing(p.candidate))

(* The fields of a sound profile.                                          *)
LEMMA PeerFields ==
  ASSUME NEW p \in InternalPeerProfiles
  PROVE  /\ p.known \in SUBSET Peers /\ p.learning \in SUBSET Peers
         /\ p.learningWindows \in 0..PeerLearning
         /\ p.candidate \in Peers \cup {NoPeer} /\ p.candidateWindows \in 0..PeerConfirm
         /\ p.lastBucket \in Minutes \cup {NoTime} /\ p.lastSeen \in Minutes \cup {NoTime}
         /\ p.windows \in Seq(SUBSET Peers) /\ p.reports \in [Peers -> 0..2]
BY DEF InternalPeerProfiles

(* The parameters of the detector.                                         *)
LEMMA PeerNumbers ==
  /\ PeerLearning \in Nat /\ PeerLearning > 0
  /\ PeerConfirm \in Nat \ {0} /\ PeerConfirm > 1
  /\ MaxPeers \in Nat /\ MaxPeers > 0 /\ NoPeer \notin Peers
  /\ Peers \in SUBSET Nat /\ IsFiniteSet(Peers)
BY TableAssumption, PeerAssumption DEF NoPeer

(* Sets of peers are finite.                                               *)
LEMMA PeersAreFinite ==
  ASSUME NEW S \in SUBSET Peers
  PROVE  IsFiniteSet(S) /\ Cardinality(S) \in Nat
BY PeerNumbers, FS_Subset, FS_CardinalityType

(* A new profile is sound.                                                 *)
LEMMA FreshPeerIsSound == FreshPeerProfile \in SoundPeers
<1>1. PICK p : p = FreshPeerProfile
  OBVIOUS
<1>2. /\ p.known = {} /\ p.learning = {} /\ p.learningWindows = 0 /\ p.candidate = NoPeer
      /\ p.candidateWindows = 0 /\ p.windows = <<>> /\ p.reports = [x \in Peers |-> 0]
  BY <1>1 DEF FreshPeerProfile
<1>3. p \in InternalPeerProfiles
  BY <1>1, PeerNumbers DEF FreshPeerProfile, InternalPeerProfiles
<1>4. Len(p.windows) = 0
  BY <1>2, EmptySeq
<1>5. Cardinality(p.known) = 0 /\ Cardinality(p.learning) = 0
  BY <1>2, FS_EmptySet
<1>6. Learning(p) => /\ p.known = {} /\ p.candidate = NoPeer
                     /\ \A x \in Peers : p.reports[x] = 0
  BY <1>2
<1>7. Cardinality(p.known) <= MaxPeers /\ Cardinality(p.learning) <= MaxPeers
  BY <1>5, PeerNumbers
<1>8. \A x \in Peers : p.reports[x] = 0 /\ ~(p.reports[x] > 0) /\ ~(p.reports[x] > 1)
  BY <1>2
<1>9. p.candidateWindows < PeerConfirm /\ Len(p.windows) <= PeerConfirm
  BY <1>2, <1>4, PeerNumbers
<1>10. p \in SoundPeers
  BY <1>2, <1>3, <1>6, <1>7, <1>8, <1>9 DEF SoundPeers
<1> QED BY <1>1, <1>10

(* A window is counted for the candidate it shows.                         *)
LEMMA SeeingPeers ==
  ASSUME NEW p \in SoundPeers, NEW peers \in SUBSET Peers, NEW t \in Minutes
  PROVE  HasSeen(PeersSeen(p, peers, t), p, peers)
<1>1. PICK s : s = PeersSeen(p, peers, t)
  OBVIOUS
<1>2. /\ p \in InternalPeerProfiles /\ p.candidateWindows < PeerConfirm
      /\ Len(p.windows) <= PeerConfirm
      /\ p.candidate # NoPeer => InLast(p.windows, p.candidateWindows, Showing(p.candidate))
  BY DEF SoundPeers
<1>3. p.windows \in Seq(SUBSET Peers) /\ p.candidateWindows \in Nat
  BY <1>2, PeerFields
<1>4. PICK w : w = LastOf(Append(p.windows, peers), PeerConfirm)
  OBVIOUS
<1>0. PICK W \in Seq(SUBSET Peers) : W = p.windows
  BY <1>3
<1>a. PeerConfirm \in Nat \ {0} /\ Len(W) <= PeerConfirm
  BY <1>0, <1>2, PeerNumbers
<1>b. /\ LastOf(Append(W, peers), PeerConfirm) \in Seq(SUBSET Peers)
      /\ Shifted(LastOf(Append(W, peers), PeerConfirm), W, peers, PeerConfirm)
  BY <1>a, NextWindow
<1>5. w \in Seq(SUBSET Peers) /\ Shifted(w, p.windows, peers, PeerConfirm)
  BY <1>0, <1>4, <1>b
<1>6. s = [p EXCEPT !.lastBucket = t, !.lastSeen = t, !.windows = w]
  BY <1>1, <1>4 DEF PeersSeen
<1>7. s \in InternalPeerProfiles
  BY <1>2, <1>5, <1>6 DEF InternalPeerProfiles
<1>8. /\ s.known = p.known /\ s.learning = p.learning /\ s.learningWindows = p.learningWindows
      /\ s.candidate = p.candidate /\ s.candidateWindows = p.candidateWindows
      /\ s.reports = p.reports /\ s.windows = w
  BY <1>2, <1>6 DEF InternalPeerProfiles
<1>9. Len(w) \in 1..PeerConfirm /\ w[Len(w)] = peers
  BY <1>5 DEF Shifted
<1>10. \A x \in peers : InLast(w, 1, Showing(x))
  <2>1. PICK n \in 1..PeerConfirm : n = Len(w)
    BY <1>9
  <2>2. \A j \in (n - 1 + 1)..n : j = n
    OBVIOUS
  <2>3. \A x \in peers : \A j \in (n - 1 + 1)..n : w[j] \in Showing(x)
    BY <1>9, <2>1, <2>2 DEF Showing
  <2> QED BY <2>1, <2>3 DEF InLast
<1>11. ASSUME p.candidate \in peers
       PROVE  InLast(w, p.candidateWindows + 1, Showing(p.candidate))
  <2>1. InLast(p.windows, p.candidateWindows, Showing(p.candidate))
    BY <1>2, <1>11, PeerNumbers
  <2>2. peers \in Showing(p.candidate)
    BY <1>11 DEF Showing
  <2>3. PICK k \in Nat : k = p.candidateWindows
    BY <1>3
  <2>4. PICK G : G = Showing(p.candidate)
    OBVIOUS
  <2>5. k < PeerConfirm /\ InLast(W, k, G) /\ peers \in G
    BY <1>0, <1>2, <2>1, <2>2, <2>3, <2>4
  <2>6. InLast(LastOf(Append(W, peers), PeerConfirm), k + 1, G)
    BY <1>a, <2>5, StillLast
  <2> QED BY <1>0, <1>4, <2>3, <2>4, <2>6
<1> QED BY <1>1, <1>7, <1>8, <1>9, <1>10, <1>11 DEF HasSeen

(* What learning makes of a sound profile is sound, and reports nothing.   *)
LEMMA LearningPeers ==
  ASSUME NEW p \in SoundPeers, NEW peers \in SUBSET Peers, NEW s, HasSeen(s, p, peers),
         Learning(s), NEW next \in LearnPeers(s, peers)
  PROVE  next \in SoundPeers /\ next.reports = p.reports
<1>1. /\ p \in InternalPeerProfiles /\ p.candidateWindows < PeerConfirm
      /\ Cardinality(p.known) <= MaxPeers
      /\ Learning(p) => /\ p.known = {} /\ p.candidate = NoPeer
                        /\ \A x \in Peers : p.reports[x] = 0
  BY DEF SoundPeers
<1>2. /\ s \in InternalPeerProfiles
      /\ s.known = p.known /\ s.learningWindows = p.learningWindows
      /\ s.candidate = p.candidate /\ s.candidateWindows = p.candidateWindows
      /\ s.reports = p.reports /\ Len(s.windows) <= PeerConfirm
  BY DEF HasSeen
<1>3. /\ s.known = {} /\ s.candidate = NoPeer /\ \A x \in Peers : s.reports[x] = 0
  BY <1>1, <1>2 DEF Learning
<1>4. PICK union \in SUBSET Peers : union = s.learning \cup peers
  BY <1>2, PeerFields
<1>5. PICK room : room = Min({MaxPeers, Cardinality(union)})
  OBVIOUS
<1>6. PICK S \in SUBSET union :
        /\ Cardinality(S) = room
        /\ next = IF s.learningWindows + 1 = PeerLearning
                  THEN [s EXCEPT !.known = S, !.learning = {}, !.learningWindows = @ + 1]
                  ELSE [s EXCEPT !.learning = S, !.learningWindows = @ + 1]
  BY <1>4, <1>5 DEF LearnPeers
<1>7. Cardinality(S) <= MaxPeers
  <2>1. PICK a \in Int : a = MaxPeers
    BY PeerNumbers
  <2>2. PICK b \in Int : b = Cardinality(union)
    BY PeersAreFinite
  <2>3. Min({a, b}) = IF a <= b THEN a ELSE b
    BY OfTwo
  <2> QED BY <1>5, <1>6, <2>1, <2>2, <2>3
<1>8. PICK n \in Nat : n = s.learningWindows /\ n < PeerLearning
  BY <1>2, PeerFields DEF Learning
<1>9. /\ next \in InternalPeerProfiles
      /\ next.candidate = NoPeer /\ next.candidateWindows = s.candidateWindows
      /\ next.windows = s.windows /\ next.reports = s.reports
      /\ next.learningWindows = n + 1
  <2>1. n + 1 \in 0..PeerLearning /\ S \in SUBSET Peers
    BY <1>4, <1>6, <1>8, PeerNumbers
  <2>2. CASE s.learningWindows + 1 = PeerLearning
    <3>1. next = [s EXCEPT !.known = S, !.learning = {}, !.learningWindows = n + 1]
      BY <1>6, <1>8, <2>2
    <3> QED BY <1>2, <1>3, <2>1, <3>1 DEF InternalPeerProfiles
  <2>3. CASE s.learningWindows + 1 # PeerLearning
    <3>1. next = [s EXCEPT !.learning = S, !.learningWindows = n + 1]
      BY <1>6, <1>8, <2>3
    <3> QED BY <1>2, <1>3, <2>1, <3>1 DEF InternalPeerProfiles
  <2> QED BY <2>2, <2>3
<1>10. \/ next.known = S /\ next.learning = {} /\ n + 1 = PeerLearning
       \/ next.known = {} /\ next.learning = S /\ n + 1 # PeerLearning
  BY <1>2, <1>3, <1>6, <1>8 DEF InternalPeerProfiles
<1>11. Cardinality(next.known) <= MaxPeers /\ Cardinality(next.learning) <= MaxPeers
  BY <1>7, <1>10, FS_EmptySet, PeerNumbers
<1>12. \A x \in Peers : next.reports[x] = 0 /\ ~(next.reports[x] > 0) /\ ~(next.reports[x] > 1)
  BY <1>3, <1>9
<1>13. Learning(next) => next.known = {}
  BY <1>8, <1>9, <1>10 DEF Learning
<1>14. next.candidateWindows < PeerConfirm /\ Len(next.windows) <= PeerConfirm
  BY <1>1, <1>2, <1>9
<1>15. next \in SoundPeers
  BY <1>9, <1>11, <1>12, <1>13, <1>14 DEF SoundPeers
<1> QED BY <1>2, <1>9, <1>15

(* The first unknown peer is an unknown peer.                              *)
LEMMA FirstIsUnknown ==
  ASSUME NEW s \in InternalPeerProfiles, NEW peers \in SUBSET Peers, Unknown(s, peers) # {}
  PROVE  /\ FirstUnknown(s, peers) \in peers \ s.known
         /\ FirstUnknown(s, peers) \in Peers
<1>1. PICK U \in SUBSET Nat : U = Unknown(s, peers)
  BY PeerNumbers DEF Unknown
<1>2. Min(U) \in U
  BY <1>1, Least
<1> QED BY <1>1, <1>2 DEF Unknown, FirstUnknown

(* Every window of the last ones counted shows the peer.                   *)
Confirmed(p, peer) ==
  Len(p.windows) = PeerConfirm /\ \A i \in 1..PeerConfirm : peer \in p.windows[i]

(* What follows when a profile that is not learning changes only what it   *)
(* thinks of its candidate.                                                *)
LEMMA OtherCandidate ==
  ASSUME NEW p \in SoundPeers, NEW peers \in SUBSET Peers, NEW s, HasSeen(s, p, peers),
         ~Learning(s), NEW next \in InternalPeerProfiles,
         next.known = s.known, next.learning = s.learning,
         next.learningWindows = s.learningWindows,
         next.windows = s.windows, next.reports = s.reports,
         next.candidateWindows < PeerConfirm,
         next.candidate # NoPeer =>
           InLast(s.windows, next.candidateWindows, Showing(next.candidate))
  PROVE  next \in SoundPeers
<1>1. /\ Cardinality(p.known) <= MaxPeers /\ Cardinality(p.learning) <= MaxPeers
      /\ \A x \in Peers :
           /\ p.reports[x] > 0 => x \in p.known \/ Cardinality(p.known) = MaxPeers
           /\ p.reports[x] > 1 => Cardinality(p.known) = MaxPeers
  BY DEF SoundPeers
<1>2. /\ s.known = p.known /\ s.learning = p.learning /\ s.reports = p.reports
      /\ Len(s.windows) <= PeerConfirm
  BY DEF HasSeen
<1>3. ~Learning(next)
  BY DEF Learning
<1> QED BY <1>1, <1>2, <1>3 DEF SoundPeers

(* A reported peer was in all of the last windows, and the profile stays   *)
(* sound.                                                                  *)
LEMMA ReportingPeer ==
  ASSUME NEW p \in SoundPeers, NEW peers \in SUBSET Peers, NEW s, HasSeen(s, p, peers),
         Confirms(s, peers), NEW peer, peer = FirstUnknown(s, peers)
  PROVE  /\ ReportPeer(s, peer) \in SoundPeers
         /\ \A x \in Peers : x # peer => ReportPeer(s, peer).reports[x] = p.reports[x]
         /\ Confirmed(ReportPeer(s, peer), peer)
<1>1. /\ p \in InternalPeerProfiles /\ p.candidateWindows < PeerConfirm
      /\ Cardinality(p.known) <= MaxPeers /\ Cardinality(p.learning) <= MaxPeers
      /\ \A x \in Peers :
           /\ p.reports[x] > 0 => x \in p.known \/ Cardinality(p.known) = MaxPeers
           /\ p.reports[x] > 1 => Cardinality(p.known) = MaxPeers
  BY DEF SoundPeers
<1>2. /\ s \in InternalPeerProfiles
      /\ s.known = p.known /\ s.learning = p.learning /\ s.learningWindows = p.learningWindows
      /\ s.candidate = p.candidate /\ s.candidateWindows = p.candidateWindows
      /\ s.reports = p.reports /\ Len(s.windows) <= PeerConfirm
      /\ p.candidate \in peers => InLast(s.windows, p.candidateWindows + 1, Showing(p.candidate))
  BY DEF HasSeen
<1>3. peer \in peers \ s.known /\ peer \in Peers /\ peer = s.candidate
  BY <1>2, FirstIsUnknown DEF Confirms
<1>4. ~Learning(s) /\ s.candidateWindows + 1 = PeerConfirm
  <2>1. PICK c \in Nat : c = s.candidateWindows
    BY <1>2, PeerFields
  <2> QED BY <1>1, <1>2, <2>1, PeerNumbers DEF Confirms
<1>5. InLast(s.windows, PeerConfirm, Showing(peer))
  BY <1>2, <1>3, <1>4
<1>6. Len(s.windows) = PeerConfirm /\ \A i \in 1..PeerConfirm : peer \in s.windows[i]
  <2>1. PICK n \in Nat : n = Len(s.windows)
    BY <1>2, PeerFields, LenProperties
  <2>2. n = PeerConfirm
    BY <1>2, <1>5, <2>1, PeerNumbers DEF InLast
  <2>3. \A i \in 1..PeerConfirm : i \in (n - PeerConfirm + 1)..n
    BY <2>2, PeerNumbers
  <2>4. \A i \in 1..PeerConfirm : s.windows[i] \in Showing(peer)
    BY <1>5, <2>1, <2>3 DEF InLast
  <2> QED BY <2>1, <2>2, <2>4 DEF Showing
<1>7. PICK known \in SUBSET Peers : known = s.known \cup LearnsReported(s, peer)
  BY <1>2, <1>3, PeerFields DEF LearnsReported
<1>8. PICK times \in 1..2 : times = Min({s.reports[peer] + 1, 2}) /\ (times = 2 => s.reports[peer] > 0)
  <2>1. PICK a \in Int : a = s.reports[peer] + 1 /\ a > 0 /\ (a >= 2 => s.reports[peer] > 0)
    BY <1>2, <1>3, PeerFields
  <2>2. PICK b \in Int : b = 2
    OBVIOUS
  <2>3. Min({a, b}) = IF a <= b THEN a ELSE b
    BY OfTwo
  <2> QED BY <2>1, <2>2, <2>3
<1>9. PICK reports \in [Peers -> 0..2] : reports = [s.reports EXCEPT ![peer] = times]
  <2>1. PICK r \in [Peers -> 0..2] : r = s.reports
    BY <1>2, PeerFields
  <2>2. times \in 0..2
    OBVIOUS
  <2>3. [r EXCEPT ![peer] = times] \in [Peers -> 0..2]
    BY <2>2
  <2> QED BY <2>1, <2>3
<1>10. PICK next : next = ReportPeer(s, peer)
  OBVIOUS
<1>11. next = [s EXCEPT !.known = known, !.candidate = NoPeer, !.candidateWindows = 0,
                        !.reports = reports]
  <2>1. [s.reports EXCEPT ![peer] = Min({s.reports[peer] + 1, 2})] = reports
    BY <1>8, <1>9
  <2>2. s.known \cup LearnsReported(s, peer) = known
    BY <1>7
  <2> QED BY <1>2, <1>10, <2>1, <2>2 DEF ReportPeer, InternalPeerProfiles
<1>12. /\ next \in InternalPeerProfiles /\ next.known = known /\ next.learning = s.learning
       /\ next.learningWindows = s.learningWindows /\ next.candidate = NoPeer
       /\ next.candidateWindows = 0 /\ next.windows = s.windows /\ next.reports = reports
  <2>1. 0 \in 0..PeerConfirm
    BY PeerNumbers
  <2>2. next \in InternalPeerProfiles
    BY <1>2, <1>11, <2>1 DEF InternalPeerProfiles
  <2> QED BY <1>2, <1>11, <2>2 DEF InternalPeerProfiles
<1>13. /\ reports[peer] = times
       /\ \A x \in Peers : x # peer => reports[x] = s.reports[x]
  BY <1>2, <1>3, <1>9, PeerFields
<1>14. /\ Cardinality(known) <= MaxPeers
       /\ \A x \in Peers : /\ reports[x] > 0 => x \in known \/ Cardinality(known) = MaxPeers
                           /\ reports[x] > 1 => Cardinality(known) = MaxPeers
  <2>1. Cardinality(s.known) \in Nat
    BY <1>2, PeerFields, PeersAreFinite
  <2>2. CASE Cardinality(s.known) < MaxPeers
    <3>1. known = s.known \cup {peer}
      BY <1>7, <2>2 DEF LearnsReported
    <3>2. IsFiniteSet(s.known)
      BY <1>2, PeerFields, PeersAreFinite
    <3>3. Cardinality(known) <= MaxPeers
      <4>1. Cardinality(s.known \cup {peer}) = Cardinality(s.known) + 1
        BY <1>3, <3>2, FS_AddElement
      <4> QED BY <2>1, <2>2, <3>1, <4>1, PeerNumbers
    <3>4. \A x \in Peers : ~(s.reports[x] > 1) /\ (s.reports[x] > 0 => x \in s.known)
      BY <1>1, <1>2, <2>1, <2>2, PeerNumbers
    <3>5. ~(times > 1)
      BY <1>3, <1>8, <3>4
    <3>6. \A x \in Peers : ~(reports[x] > 1) /\ (reports[x] > 0 => x \in known)
      BY <1>13, <3>1, <3>4, <3>5
    <3> QED BY <3>3, <3>6
  <2>3. CASE Cardinality(s.known) >= MaxPeers
    <3>1. known = s.known
      BY <1>7, <2>1, <2>3, PeerNumbers DEF LearnsReported
    <3> QED BY <1>1, <1>2, <2>1, <2>3, <3>1, PeerNumbers
  <2> QED BY <2>1, <2>2, <2>3, PeerNumbers
<1>15. ~Learning(next) /\ Cardinality(next.learning) <= MaxPeers
  BY <1>1, <1>2, <1>4, <1>12 DEF Learning
<1>16. next.candidateWindows < PeerConfirm /\ Len(next.windows) <= PeerConfirm
  BY <1>2, <1>12, PeerNumbers
<1>17. next \in SoundPeers
  BY <1>12, <1>14, <1>15, <1>16 DEF SoundPeers
<1> QED BY <1>2, <1>6, <1>10, <1>12, <1>13, <1>17 DEF Confirmed

(* What a profile becomes is sound, and it reports only a peer that is     *)
(* confirmed.                                                              *)
ReportsConfirmed(next, p) ==
  \A x \in Peers : next.reports[x] # p.reports[x] => Confirmed(next, x)

(* Comparing with the known peers keeps a profile sound.                   *)
LEMMA ComparingPeers ==
  ASSUME NEW p \in SoundPeers, NEW peers \in SUBSET Peers, NEW s, HasSeen(s, p, peers),
         ~Learning(s)
  PROVE  /\ ComparePeers(s, peers) \in SoundPeers
         /\ ReportsConfirmed(ComparePeers(s, peers), p)
<1>1. p \in InternalPeerProfiles /\ p.candidateWindows < PeerConfirm
  BY DEF SoundPeers
<1>2. /\ s \in InternalPeerProfiles /\ s.candidate = p.candidate
      /\ s.candidateWindows = p.candidateWindows /\ s.reports = p.reports
      /\ \A x \in peers : InLast(s.windows, 1, Showing(x))
      /\ p.candidate \in peers => InLast(s.windows, p.candidateWindows + 1, Showing(p.candidate))
  BY DEF HasSeen
<1>3. PICK next : next = ComparePeers(s, peers)
  OBVIOUS
<1>4. CASE Unknown(s, peers) = {}
  <2>1. next = [s EXCEPT !.candidate = NoPeer, !.candidateWindows = 0]
    <3>1. ~Confirms(s, peers)
      BY <1>4 DEF Confirms
    <3> QED BY <1>3, <1>4, <3>1 DEF ComparePeers, ForgetsCandidate
  <2>2. 0 \in 0..PeerConfirm
    BY PeerNumbers
  <2>3. next \in InternalPeerProfiles
    BY <1>2, <2>1, <2>2 DEF InternalPeerProfiles
  <2>4. /\ next.known = s.known /\ next.learning = s.learning
        /\ next.learningWindows = s.learningWindows
        /\ next.windows = s.windows /\ next.reports = s.reports
        /\ next.candidate = NoPeer /\ next.candidateWindows = 0
    BY <1>2, <2>1 DEF InternalPeerProfiles
  <2>5. next.candidateWindows < PeerConfirm
    BY <2>4, PeerNumbers
  <2>6. next \in SoundPeers
    BY <2>3, <2>4, <2>5, OtherCandidate
  <2> QED BY <1>2, <1>3, <2>4, <2>6 DEF ReportsConfirmed
<1>5. CASE Confirms(s, peers)
  <2>1. PICK peer : peer = FirstUnknown(s, peers)
    OBVIOUS
  <2>2. next = ReportPeer(s, peer)
    BY <1>3, <1>5, <2>1 DEF ComparePeers, Confirms
  <2>3. /\ next \in SoundPeers /\ Confirmed(next, peer)
        /\ \A x \in Peers : x # peer => next.reports[x] = p.reports[x]
    BY <1>5, <2>1, <2>2, ReportingPeer
  <2> QED BY <1>3, <2>3 DEF ReportsConfirmed
<1>6. CASE Unknown(s, peers) # {} /\ ~Confirms(s, peers)
  <2>1. PICK first \in peers \cap Peers : first = FirstUnknown(s, peers)
    BY <1>2, <1>6, FirstIsUnknown
  <2>2. PICK c \in Nat : c = s.candidateWindows
    BY <1>2, PeerFields
  <2>3. PICK n : n = IF first = s.candidate THEN c + 1 ELSE 1
    OBVIOUS
  <2>4. next = [s EXCEPT !.candidate = first,
                         !.candidateWindows = IF first = s.candidate THEN @ + 1 ELSE 1]
    BY <1>3, <1>6, <2>1 DEF ComparePeers
  <2>5. next = [s EXCEPT !.candidate = first, !.candidateWindows = n]
    BY <1>2, <2>2, <2>3, <2>4
  <2>6. n \in Nat /\ n < PeerConfirm
    <3>1. first = s.candidate => ~(c + 1 >= PeerConfirm)
      BY <1>6, <2>1, <2>2 DEF Confirms
    <3> QED BY <2>3, <3>1, PeerNumbers
  <2>7. n \in 0..PeerConfirm /\ first \in Peers \cup {NoPeer}
    BY <2>6, PeerNumbers
  <2>8. next \in InternalPeerProfiles
    BY <1>2, <2>5, <2>7 DEF InternalPeerProfiles
  <2>9. /\ next.known = s.known /\ next.learning = s.learning
        /\ next.learningWindows = s.learningWindows
        /\ next.windows = s.windows /\ next.reports = s.reports
        /\ next.candidate = first /\ next.candidateWindows = n
    BY <1>2, <2>5 DEF InternalPeerProfiles
  <2>10. InLast(s.windows, n, Showing(first))
    BY <1>2, <2>1, <2>2, <2>3
  <2>11. next.candidateWindows < PeerConfirm
    BY <2>6, <2>9
  <2>12. next \in SoundPeers
    BY <2>8, <2>9, <2>10, <2>11, OtherCandidate
  <2> QED BY <1>2, <1>3, <2>9, <2>12 DEF ReportsConfirmed
<1> QED BY <1>4, <1>5, <1>6

(* What a profile may become when a window is counted for it.              *)
PeersNext(p, peers, t) ==
  LET s == PeersSeen(p, peers, t)
  IN IF Learning(s) THEN LearnPeers(s, peers) ELSE {ComparePeers(s, peers)}

(* Counting a window keeps a profile sound.                                *)
LEMMA CountingPeers ==
  ASSUME NEW p \in SoundPeers, NEW peers \in SUBSET Peers, NEW t \in Minutes,
         NEW next \in PeersNext(p, peers, t)
  PROVE  next \in SoundPeers /\ ReportsConfirmed(next, p)
<1>1. PICK s : s = PeersSeen(p, peers, t)
  OBVIOUS
<1>2. HasSeen(s, p, peers)
  BY <1>1, SeeingPeers
<1>3. CASE Learning(s)
  <2>1. next \in LearnPeers(s, peers)
    BY <1>1, <1>3 DEF PeersNext
  <2> QED BY <1>2, <1>3, <2>1, LearningPeers DEF ReportsConfirmed
<1>4. CASE ~Learning(s)
  <2>1. next = ComparePeers(s, peers)
    BY <1>1, <1>4 DEF PeersNext
  <2> QED BY <1>2, <1>4, <2>1, ComparingPeers
<1> QED BY <1>3, <1>4

(* What observing a device may do to the table: prune it, and count a      *)
(* window of that device.                                                  *)
LEMMA PeerCases ==
  ASSUME NEW ip, NEW peers, NEW t, ObserveInternalPeer(ip, peers, t)
  PROVE  \/ UNCHANGED peerVars
         \/ /\ internalPeerWatermark' = Later(t, internalPeerWatermark)
            /\ \/ internalPeerProfiles' = PeerTable(t)
               \/ /\ Admits(PeerTable(t), ip)
                  /\ \E next \in PeersNext(PeerProfile(ip, t), peers, t) :
                       internalPeerProfiles' = With(PeerTable(t), ip, next)
BY DEF ObserveInternalPeer, CountsPeers, PeersNext, PeersSeen

(* Observing a device keeps the table sound.                               *)
LEMMA PeerStep ==
  ASSUME PeerInv, NEW ip \in Devices, NEW peers \in SUBSET Peers, NEW t \in Minutes,
         ObserveInternalPeer(ip, peers, t)
  PROVE  PeerInv'
<1>1. CASE UNCHANGED peerVars
  BY <1>1 DEF PeerInv, peerVars
<1>2. CASE ~UNCHANGED peerVars
  <2>1. /\ Table(internalPeerProfiles, Devices, SoundPeers, MaxDevices)
        /\ internalPeerWatermark \in Minutes \cup {NoTime}
    BY DEF PeerInv
  <2>2. PICK table : table = PeerTable(t)
    OBVIOUS
  <2>3. Table(table, Devices, SoundPeers, MaxDevices)
    BY <2>1, <2>2, PrunedDrops, StaysTable, TableAssumption DEF PeerTable
  <2>4. internalPeerWatermark' \in Minutes \cup {NoTime}
    BY <1>2, <2>1, PeerCases, LaterIsTime
  <2>5. CASE internalPeerProfiles' = table
    BY <2>3, <2>4, <2>5 DEF PeerInv
  <2>6. CASE /\ Admits(table, ip)
             /\ \E next \in PeersNext(PeerProfile(ip, t), peers, t) :
                  internalPeerProfiles' = With(table, ip, next)
    <3>1. PICK p \in SoundPeers : p = PeerProfile(ip, t)
      BY <2>2, <2>3, EntryIsSound, FreshPeerIsSound DEF PeerProfile
    <3>2. PICK next \in PeersNext(p, peers, t) : internalPeerProfiles' = With(table, ip, next)
      BY <2>6, <3>1
    <3>3. next \in SoundPeers
      BY CountingPeers
    <3>4. Table(With(table, ip, next), Devices, SoundPeers, MaxDevices)
      BY <2>3, <2>6, <3>3, TableTakes, TableAssumption DEF Admits
    <3> QED BY <2>4, <3>2, <3>4 DEF PeerInv
  <2> QED BY <1>2, <2>2, <2>5, <2>6, PeerCases
<1> QED BY <1>1, <1>2

(* A peer is reported when the last windows counted all showed it.         *)
PeerConfirmedStep ==
  \A ip \in DOMAIN internalPeerProfiles' : \A peer \in Peers :
    LET p == internalPeerProfiles'[ip]
    IN p.reports[peer] > Entry(internalPeerProfiles, ip, FreshPeerProfile).reports[peer] =>
         /\ Len(p.windows) = PeerConfirm
         /\ \A i \in 1..PeerConfirm : peer \in p.windows[i]
(* Observing a device is such a step.                                      *)
LEMMA PeerConfirms ==
  ASSUME PeerInv, NEW ip \in Devices, NEW peers \in SUBSET Peers, NEW t \in Minutes,
         ObserveInternalPeer(ip, peers, t)
  PROVE  PeerConfirmedStep
<1>1. Table(internalPeerProfiles, Devices, SoundPeers, MaxDevices)
  BY DEF PeerInv
<1>2. PICK table : table = PeerTable(t)
  OBVIOUS
<1>3. /\ Table(table, Devices, SoundPeers, MaxDevices)
      /\ Restricted(table, internalPeerProfiles)
  BY <1>1, <1>2, PrunedDrops, StaysTable, TableAssumption DEF PeerTable
<1>4. SUFFICES ASSUME NEW k \in DOMAIN internalPeerProfiles', NEW x \in Peers,
                      NEW p, p = internalPeerProfiles'[k],
                      NEW old, old = Entry(internalPeerProfiles, k, FreshPeerProfile),
                      p.reports[x] > old.reports[x]
               PROVE  Confirmed(p, x)
  BY DEF PeerConfirmedStep, Confirmed
<1>5. old \in SoundPeers
  BY <1>1, <1>4, EntryIsSound, FreshPeerIsSound
<1>6. old.reports[x] \in Nat
  BY <1>5, PeerFields DEF SoundPeers
<1>7. k \in DOMAIN internalPeerProfiles => old = internalPeerProfiles[k]
  BY <1>4 DEF Entry
<1>8. k \in DOMAIN table => old = table[k]
  BY <1>3, <1>7 DEF Restricted
<1>9. CASE UNCHANGED peerVars
  BY <1>4, <1>6, <1>7, <1>9 DEF peerVars
<1>10. CASE internalPeerProfiles' = table
  BY <1>4, <1>6, <1>8, <1>10
<1>11. CASE \E next \in PeersNext(PeerProfile(ip, t), peers, t) :
              internalPeerProfiles' = With(table, ip, next)
  <2>1. PICK q \in SoundPeers : q = PeerProfile(ip, t)
    BY <1>2, <1>3, EntryIsSound, FreshPeerIsSound DEF PeerProfile
  <2>2. PICK next \in PeersNext(q, peers, t) : internalPeerProfiles' = With(table, ip, next)
    BY <1>11, <2>1
  <2>3. ReportsConfirmed(next, q)
    BY CountingPeers
  <2>a. PICK w : w = With(table, ip, next)
    OBVIOUS
  <2>b. DOMAIN w = DOMAIN table \cup {ip} /\ w[ip] = next
    BY <2>a DEF With
  <2>c. \A j \in DOMAIN table : j # ip => w[j] = table[j]
    BY <2>a DEF With
  <2>d. k \in DOMAIN w /\ p = w[k]
    BY <1>4, <2>2, <2>a
  <2>4. CASE k # ip
    <3>1. k \in DOMAIN table /\ p = table[k]
      BY <2>4, <2>b, <2>c, <2>d
    <3> QED BY <1>4, <1>6, <1>8, <3>1
  <2>5. CASE k = ip
    <3>1. p = next
      BY <2>5, <2>b, <2>d
    <3>2. q.reports[x] = old.reports[x] \/ q.reports[x] = 0
      BY <1>2, <1>8, <2>1, <2>5 DEF PeerProfile, Entry, FreshPeerProfile
    <3>3. next.reports[x] # q.reports[x]
      BY <1>4, <1>6, <3>1, <3>2
    <3> QED BY <2>3, <3>1, <3>3 DEF ReportsConfirmed
  <2> QED BY <2>4, <2>5
<1> QED BY <1>2, <1>9, <1>10, <1>11, PeerCases

-------------------------------------------------------------------------------
(* Changes of the profile of a device.                                     *)

(* A profile that has taken a window into account, but not its signature.  *)
WindowSeen(p, s, t) ==
  [[p EXCEPT !.lastBucket = t, !.lastSeen = t]
     EXCEPT !.windows = LastOf(Append(@, s), ProfileConfirm)]

(* What it keeps, and what it knows of its candidate.                      *)
HasCounted(c, p, s) ==
  /\ c \in DeviceFeatureProfiles
  /\ c.baseline = p.baseline /\ c.learning = p.learning
  /\ c.learningWindows = p.learningWindows
  /\ c.candidate = p.candidate /\ c.candidateWindows = p.candidateWindows
  /\ Len(c.windows) <= ProfileConfirm
  /\ InLast(c.windows, 1, {s})
  /\ s = p.candidate => InLast(c.windows, p.candidateWindows + 1, {s})

(* The fields of a profile.                                                *)
LEMMA ProfileFields ==
  ASSUME NEW p \in DeviceFeatureProfiles
  PROVE  /\ p.baseline \in Signatures \cup {NoSignature}
         /\ p.learning \in [Signatures -> 0..ProfileLearning]
         /\ p.learningWindows \in 0..ProfileLearning
         /\ p.candidate \in Signatures \cup {NoSignature}
         /\ p.candidateWindows \in 0..ProfileConfirm
         /\ p.windows \in Seq(Signatures)
BY DEF DeviceFeatureProfiles

(* The parameters of the detector.                                         *)
LEMMA ProfileNumbers ==
  /\ ProfileLearning \in Nat /\ ProfileLearning > 1
  /\ ProfileConfirm \in Nat \ {0} /\ ProfileConfirm > 1
  /\ NoSignature \notin Signatures
BY ProfileAssumption

(* The last none of the windows show anything.                             *)
LEMMA NoneInLast ==
  ASSUME NEW S, NEW w \in Seq(S), NEW G
  PROVE  InLast(w, 0, G)
<1>1. PICK n \in Nat : n = Len(w)
  BY LenProperties
<1> QED BY <1>1 DEF InLast

(* What is known of a sound profile.                                       *)
LEMMA ProfileFacts ==
  ASSUME NEW p \in SoundProfiles
  PROVE  /\ p \in DeviceFeatureProfiles
         /\ \A x \in Signatures : p.learning[x] <= p.learningWindows
         /\ p.learningWindows < ProfileLearning
         /\ p.candidateWindows < ProfileConfirm /\ Len(p.windows) <= ProfileConfirm
         /\ InLast(p.windows, p.candidateWindows, {p.candidate})
         /\ p.baseline = NoSignature => p.candidateWindows = 0
BY DEF SoundProfiles

(* A new profile is sound.                                                 *)
LEMMA FreshProfileIsSound == FreshProfile \in SoundProfiles
<1>1. PICK p : p = FreshProfile
  OBVIOUS
<1>2. /\ p.baseline = NoSignature /\ p.learning = NothingLearned /\ p.learningWindows = 0
      /\ p.candidate = NoSignature /\ p.candidateWindows = 0 /\ p.windows = <<>>
  BY <1>1 DEF FreshProfile
<1>3. NothingLearned \in [Signatures -> 0..ProfileLearning]
  BY ProfileNumbers DEF NothingLearned
<1>4. p \in DeviceFeatureProfiles
  BY <1>1, <1>3, ProfileNumbers DEF FreshProfile, DeviceFeatureProfiles
<1>5. Len(p.windows) = 0 /\ InLast(p.windows, p.candidateWindows, {p.candidate})
  BY <1>2, <1>4, ProfileFields, NoneInLast, EmptySeq
<1>6. \A x \in Signatures : p.learning[x] <= p.learningWindows
  BY <1>2 DEF NothingLearned
<1>7. /\ p.learningWindows < ProfileLearning /\ p.candidateWindows < ProfileConfirm
      /\ Len(p.windows) <= ProfileConfirm
  BY <1>2, <1>5, ProfileNumbers
<1>8. p \in SoundProfiles
  BY <1>2, <1>4, <1>5, <1>6, <1>7 DEF SoundProfiles
<1> QED BY <1>1, <1>8

(* A window is counted for the candidate it shows.                         *)
LEMMA SeeingWindow ==
  ASSUME NEW p \in SoundProfiles, NEW s \in Signatures, NEW t \in Minutes
  PROVE  HasCounted(WindowSeen(p, s, t), p, s)
<1>1. PICK c : c = WindowSeen(p, s, t)
  OBVIOUS
<1>2. /\ p \in DeviceFeatureProfiles /\ p.candidateWindows < ProfileConfirm
      /\ Len(p.windows) <= ProfileConfirm
      /\ InLast(p.windows, p.candidateWindows, {p.candidate})
  BY ProfileFacts
<1>3. PICK W \in Seq(Signatures) : W = p.windows
  BY <1>2, ProfileFields
<1>4. PICK w : w = LastOf(Append(W, s), ProfileConfirm)
  OBVIOUS
<1>5. ProfileConfirm \in Nat \ {0} /\ Len(W) <= ProfileConfirm
  BY <1>2, <1>3, ProfileNumbers
<1>6. /\ LastOf(Append(W, s), ProfileConfirm) \in Seq(Signatures)
      /\ Shifted(LastOf(Append(W, s), ProfileConfirm), W, s, ProfileConfirm)
  BY <1>5, NextWindow
<1>7. w \in Seq(Signatures) /\ Len(w) \in 1..ProfileConfirm /\ w[Len(w)] = s
  BY <1>4, <1>6 DEF Shifted
<1>8. c = [p EXCEPT !.lastBucket = t, !.lastSeen = t, !.windows = w]
  BY <1>1, <1>2, <1>3, <1>4 DEF WindowSeen, DeviceFeatureProfiles
<1>9. c \in DeviceFeatureProfiles
  BY <1>2, <1>7, <1>8 DEF DeviceFeatureProfiles
<1>10. /\ c.baseline = p.baseline /\ c.learning = p.learning
       /\ c.learningWindows = p.learningWindows
       /\ c.candidate = p.candidate /\ c.candidateWindows = p.candidateWindows
       /\ c.windows = w
  BY <1>2, <1>8 DEF DeviceFeatureProfiles
<1>11. InLast(w, 1, {s})
  <2>1. PICK n \in 1..ProfileConfirm : n = Len(w)
    BY <1>7
  <2>2. \A j \in (n - 1 + 1)..n : j = n
    OBVIOUS
  <2>3. \A j \in (n - 1 + 1)..n : w[j] \in {s}
    BY <1>7, <2>1, <2>2
  <2> QED BY <2>1, <2>3 DEF InLast
<1>12. ASSUME s = p.candidate PROVE InLast(w, p.candidateWindows + 1, {s})
  <2>1. PICK k \in Nat : k = p.candidateWindows
    BY <1>2, ProfileFields
  <2>2. PICK G : G = {s}
    OBVIOUS
  <2>3. k < ProfileConfirm /\ InLast(W, k, G) /\ s \in G
    BY <1>2, <1>3, <1>12, <2>1, <2>2
  <2>4. InLast(LastOf(Append(W, s), ProfileConfirm), k + 1, G)
    BY <1>5, <2>3, StillLast
  <2> QED BY <1>4, <2>1, <2>2, <2>4
<1> QED BY <1>1, <1>7, <1>9, <1>10, <1>11, <1>12 DEF HasCounted

(* Learning keeps a profile sound.                                         *)
LEMMA LearningSignature ==
  ASSUME NEW p \in SoundProfiles, NEW s \in Signatures, NEW c, HasCounted(c, p, s),
         p.baseline = NoSignature
  PROVE  /\ LearnSignature(c, s) \in SoundProfiles
         /\ p.learningWindows = 0 => LearnSignature(c, s).baseline = NoSignature
<1>1. /\ p \in DeviceFeatureProfiles
      /\ \A x \in Signatures : p.learning[x] <= p.learningWindows
      /\ p.learningWindows < ProfileLearning /\ p.candidateWindows = 0
  BY ProfileFacts
<1>2. /\ c \in DeviceFeatureProfiles
      /\ c.baseline = NoSignature /\ c.learning = p.learning
      /\ c.learningWindows = p.learningWindows /\ c.candidateWindows = 0
      /\ Len(c.windows) <= ProfileConfirm
  BY <1>1 DEF HasCounted
<1>3. PICK L \in [Signatures -> 0..ProfileLearning] : L = c.learning
  BY <1>2, ProfileFields
<1>4. PICK n \in Nat : n = c.learningWindows /\ n < ProfileLearning
  BY <1>1, <1>2, ProfileFields
<1>5. PICK counts : counts = [L EXCEPT ![s] = L[s] + 1]
  OBVIOUS
<1>6. \A x \in Signatures : L[x] \in Nat /\ L[x] <= n
  BY <1>1, <1>2, <1>3, <1>4
<1>7. DOMAIN counts = Signatures /\ counts = [x \in Signatures |-> counts[x]]
  BY <1>3, <1>5
<1>8. \A x \in Signatures : counts[x] \in Nat /\ counts[x] <= n + 1
  BY <1>3, <1>4, <1>5, <1>6
<1>9. counts \in [Signatures -> 0..ProfileLearning]
  <2>1. \A x \in Signatures : counts[x] \in 0..ProfileLearning
    BY <1>4, <1>8, ProfileNumbers
  <2> QED BY <1>7, <2>1
<1>10. PICK next : next = LearnSignature(c, s)
  OBVIOUS
<1>11. InLast(c.windows, 0, {c.candidate}) /\ \A G : InLast(c.windows, 0, G)
  BY <1>2, ProfileFields, NoneInLast
<1>12. CASE n + 1 < ProfileLearning
  <2>1. next = [c EXCEPT !.learning = counts, !.learningWindows = @ + 1]
    BY <1>3, <1>4, <1>5, <1>10, <1>12 DEF LearnSignature
  <2>2. next = [c EXCEPT !.learning = counts, !.learningWindows = n + 1]
    BY <1>2, <1>4, <2>1 DEF DeviceFeatureProfiles
  <2>3. n + 1 \in 0..ProfileLearning
    BY <1>4, <1>12, ProfileNumbers
  <2>4. next \in DeviceFeatureProfiles
    BY <1>2, <1>9, <2>2, <2>3 DEF DeviceFeatureProfiles
  <2>5. /\ next.learning = counts /\ next.learningWindows = n + 1
        /\ next.baseline = NoSignature /\ next.candidateWindows = 0
        /\ next.windows = c.windows
    BY <1>2, <2>2 DEF DeviceFeatureProfiles
  <2>6. next.candidateWindows < ProfileConfirm /\ Len(next.windows) <= ProfileConfirm
    BY <1>2, <2>5, ProfileNumbers
  <2>7. InLast(next.windows, next.candidateWindows, {next.candidate})
    BY <1>11, <2>5
  <2>8. next \in SoundProfiles
    BY <1>8, <1>12, <2>4, <2>5, <2>6, <2>7 DEF SoundProfiles
  <2> QED BY <1>10, <2>5, <2>8
<1>13. CASE ~(n + 1 < ProfileLearning)
  <2>1. PICK b \in Signatures \cup {NoSignature} :
          next = [c EXCEPT !.learning = NothingLearned, !.learningWindows = 0, !.baseline = b]
    <3>1. PICK D \in SUBSET Signatures : D = {x \in Signatures : counts[x] >= ProfileDominance}
      OBVIOUS
    <3>2. PICK b : b = IF D = {} THEN NoSignature ELSE CHOOSE x \in D : TRUE
      OBVIOUS
    <3>3. b \in Signatures \cup {NoSignature}
      BY <3>2
    <3>4. next = [c EXCEPT !.learning = NothingLearned, !.learningWindows = 0, !.baseline = b]
      BY <1>3, <1>4, <1>5, <1>10, <1>13, <3>1, <3>2 DEF LearnSignature
    <3> QED BY <3>3, <3>4
  <2>2. NothingLearned \in [Signatures -> 0..ProfileLearning] /\ 0 \in 0..ProfileLearning
    BY ProfileNumbers DEF NothingLearned
  <2>3. next \in DeviceFeatureProfiles
    BY <1>2, <2>1, <2>2 DEF DeviceFeatureProfiles
  <2>4. /\ next.learning = NothingLearned /\ next.learningWindows = 0
        /\ next.candidateWindows = 0 /\ next.windows = c.windows
    BY <1>2, <2>1 DEF DeviceFeatureProfiles
  <2>5. \A x \in Signatures : next.learning[x] <= next.learningWindows
    BY <2>4 DEF NothingLearned
  <2>6. /\ next.learningWindows < ProfileLearning
        /\ next.candidateWindows < ProfileConfirm /\ Len(next.windows) <= ProfileConfirm
    BY <1>2, <2>4, ProfileNumbers
  <2>7. InLast(next.windows, next.candidateWindows, {next.candidate})
    BY <1>11, <2>4
  <2>8. next \in SoundProfiles
    BY <2>3, <2>4, <2>5, <2>6, <2>7 DEF SoundProfiles
  <2>9. p.learningWindows # 0
    BY <1>2, <1>4, <1>13, ProfileNumbers
  <2> QED BY <1>10, <2>8, <2>9
<1> QED BY <1>12, <1>13

(* All of the last windows show the signature.                             *)
Repeated(p, s) == p.windows = [i \in 1..ProfileConfirm |-> s]

(* Comparing with the baseline keeps a profile sound, and replaces the     *)
(* baseline only by what all of the last windows show.                     *)
LEMMA ComparingSignature ==
  ASSUME NEW p \in SoundProfiles, NEW s \in Signatures, NEW c, HasCounted(c, p, s),
         p.baseline # NoSignature
  PROVE  LET next == CompareSignature(c, s)
         IN /\ next \in SoundProfiles
            /\ next.baseline # p.baseline => next.baseline = s /\ Repeated(next, s)
<1>1. /\ p \in DeviceFeatureProfiles
      /\ \A x \in Signatures : p.learning[x] <= p.learningWindows
      /\ p.learningWindows < ProfileLearning /\ p.candidateWindows < ProfileConfirm
  BY ProfileFacts
<1>2. /\ c \in DeviceFeatureProfiles
      /\ c.baseline = p.baseline /\ c.learning = p.learning
      /\ c.learningWindows = p.learningWindows
      /\ c.candidate = p.candidate /\ c.candidateWindows = p.candidateWindows
      /\ Len(c.windows) <= ProfileConfirm
      /\ InLast(c.windows, 1, {s})
      /\ s = p.candidate => InLast(c.windows, p.candidateWindows + 1, {s})
  BY DEF HasCounted
<1>3. PICK n \in Nat : n = c.candidateWindows /\ n < ProfileConfirm
  BY <1>1, <1>2, ProfileFields
<1>4. PICK next : next = CompareSignature(c, s)
  OBVIOUS
<1>5. \A G : InLast(c.windows, 0, G)
  BY <1>2, ProfileFields, NoneInLast
<1>6. ASSUME NEW b \in Signatures, NEW d \in Signatures \cup {NoSignature},
             NEW k \in Nat, k < ProfileConfirm, InLast(c.windows, k, {d}),
             next = [c EXCEPT !.baseline = b, !.candidate = d, !.candidateWindows = k]
      PROVE  next \in SoundProfiles /\ next.baseline = b /\ next.windows = c.windows
  <2>1. k \in 0..ProfileConfirm
    BY <1>6, ProfileNumbers
  <2>2. next \in DeviceFeatureProfiles
    BY <1>2, <1>6, <2>1 DEF DeviceFeatureProfiles
  <2>3. /\ next.learning = c.learning /\ next.learningWindows = c.learningWindows
        /\ next.baseline = b /\ next.candidate = d /\ next.candidateWindows = k
        /\ next.windows = c.windows
    BY <1>2, <1>6 DEF DeviceFeatureProfiles
  <2>4. next.baseline # NoSignature
    BY <2>3, ProfileNumbers
  <2> QED BY <1>1, <1>2, <1>6, <2>2, <2>3, <2>4 DEF SoundProfiles
<1>7. p.baseline \in Signatures
  BY <1>1, ProfileFields
<1>a. /\ NoSignature \in Signatures \cup {NoSignature} /\ 0 \in Nat /\ 0 < ProfileConfirm
       /\ InLast(c.windows, 0, {NoSignature})
  BY <1>5, ProfileNumbers
<1>8. CASE s = c.baseline
  <2>1. next = [c EXCEPT !.baseline = p.baseline, !.candidate = NoSignature, !.candidateWindows = 0]
    BY <1>2, <1>4, <1>8 DEF CompareSignature, DropCandidate, DeviceFeatureProfiles
  <2>2. next \in SoundProfiles /\ next.baseline = p.baseline
    BY <1>6, <1>7, <1>a, <2>1
  <2> QED BY <1>4, <2>2
<1>9. CASE s \notin {c.baseline, c.candidate}
  <2>1. next = [c EXCEPT !.baseline = p.baseline, !.candidate = s, !.candidateWindows = 1]
    BY <1>2, <1>4, <1>9 DEF CompareSignature, DeviceFeatureProfiles
  <2> QED BY <1>2, <1>4, <1>6, <1>7, <2>1, ProfileNumbers
<1>10. CASE s # c.baseline /\ s = c.candidate /\ n + 1 < ProfileConfirm
  <2>1. next = [c EXCEPT !.candidateWindows = @ + 1]
    BY <1>3, <1>4, <1>10 DEF CompareSignature
  <2>2. next = [c EXCEPT !.baseline = p.baseline, !.candidate = s, !.candidateWindows = n + 1]
    BY <1>2, <1>3, <1>10, <2>1 DEF DeviceFeatureProfiles
  <2>3. InLast(c.windows, n + 1, {s}) /\ n + 1 \in Nat
    BY <1>2, <1>3, <1>10
  <2> QED BY <1>4, <1>6, <1>7, <1>10, <2>2, <2>3
<1>11. CASE s # c.baseline /\ s = c.candidate /\ ~(n + 1 < ProfileConfirm)
  <2>1. next = [c EXCEPT !.baseline = s, !.candidate = NoSignature, !.candidateWindows = 0]
    BY <1>3, <1>4, <1>11 DEF CompareSignature
  <2>2. next \in SoundProfiles /\ next.baseline = s /\ next.windows = c.windows
    BY <1>6, <1>a, <2>1
  <2>3. n + 1 = ProfileConfirm
    BY <1>3, <1>11, ProfileNumbers
  <2>4. InLast(c.windows, ProfileConfirm, {s})
    BY <1>2, <1>3, <1>11, <2>3
  <2>5. PICK w \in Seq(Signatures) : w = c.windows
    BY <1>2, ProfileFields
  <2>6. PICK l \in Nat : l = Len(w) /\ DOMAIN w = 1..l
    BY LenProperties
  <2>7. l = ProfileConfirm
    BY <1>2, <2>4, <2>5, <2>6, ProfileNumbers DEF InLast
  <2>8. \A i \in 1..l : i \in (l - ProfileConfirm + 1)..l
    BY <2>7, ProfileNumbers
  <2>9. \A i \in 1..ProfileConfirm : w[i] = s
    BY <2>4, <2>5, <2>6, <2>7, <2>8 DEF InLast
  <2>10. w = [i \in 1..ProfileConfirm |-> s]
    BY <2>6, <2>7, <2>9, LenProperties
  <2> QED BY <1>4, <2>2, <2>5, <2>10 DEF Repeated
<1> QED BY <1>8, <1>9, <1>10, <1>11

(* Counting a window keeps a profile sound; a new one gets no baseline     *)
(* yet, and a baseline is replaced only by a repeated signature.           *)
LEMMA CountingWindow ==
  ASSUME NEW p \in SoundProfiles, NEW s \in Signatures, NEW t \in Minutes
  PROVE  LET next == CountWindow(p, s, t)
         IN /\ next \in SoundProfiles
            /\ p.baseline = NoSignature /\ p.learningWindows = 0 => next.baseline = NoSignature
            /\ p.baseline # NoSignature /\ next.baseline # p.baseline =>
                 next.baseline = s /\ Repeated(next, s)
<1>1. PICK c : c = WindowSeen(p, s, t)
  OBVIOUS
<1>2. HasCounted(c, p, s)
  BY <1>1, SeeingWindow
<1>3. PICK next : next = CountWindow(p, s, t)
  OBVIOUS
<1>4. CASE p.baseline # NoSignature
  <2>1. next = CompareSignature(c, s)
    BY <1>1, <1>3, <1>4 DEF CountWindow, WindowSeen
  <2> QED BY <1>2, <1>3, <1>4, <2>1, ComparingSignature
<1>5. CASE p.baseline = NoSignature /\ SignaturesFull(p, s)
  <2>1. next = [p EXCEPT !.lastBucket = t, !.lastSeen = t]
    BY <1>3, <1>5 DEF CountWindow
  <2>2. p \in DeviceFeatureProfiles
    BY ProfileFacts
  <2>3. next \in DeviceFeatureProfiles
    BY <2>1, <2>2 DEF DeviceFeatureProfiles
  <2>4. /\ next.baseline = p.baseline /\ next.learning = p.learning
        /\ next.learningWindows = p.learningWindows
        /\ next.candidate = p.candidate /\ next.candidateWindows = p.candidateWindows
        /\ next.windows = p.windows
    BY <2>1, <2>2 DEF DeviceFeatureProfiles
  <2>5. next \in SoundProfiles
    BY <2>3, <2>4, ProfileFacts DEF SoundProfiles
  <2> QED BY <1>3, <1>5, <2>4, <2>5
<1>6. CASE p.baseline = NoSignature /\ ~SignaturesFull(p, s)
  <2>1. next = LearnSignature(c, s)
    BY <1>1, <1>3, <1>6 DEF CountWindow, WindowSeen
  <2> QED BY <1>2, <1>3, <1>6, <2>1, LearningSignature
<1> QED BY <1>4, <1>5, <1>6

(* Observing a device keeps the table sound.                               *)
LEMMA ProfileStep ==
  ASSUME ProfileInv, NEW ip \in Devices, NEW s \in Signatures, NEW t \in Minutes,
         ObserveDeviceProfile(ip, s, t)
  PROVE  ProfileInv'
<1>1. /\ Table(deviceProfiles, Devices, SoundProfiles, MaxDevices)
      /\ profileWatermark \in Minutes \cup {NoTime}
  BY DEF ProfileInv
<1>2. PICK table : table = ProfileTable(t)
  OBVIOUS
<1>3. Table(table, Devices, SoundProfiles, MaxDevices)
  BY <1>1, <1>2, PrunedDrops, StaysTable, TableAssumption DEF ProfileTable
<1>4. profileWatermark' \in Minutes \cup {NoTime}
  BY <1>1, LaterIsTime DEF ObserveDeviceProfile
<1>5. PICK p \in SoundProfiles : p = Entry(table, ip, FreshProfile)
  BY <1>3, EntryIsSound, FreshProfileIsSound
<1>6. \/ deviceProfiles' = table
      \/ Admits(table, ip) /\ deviceProfiles' = With(table, ip, CountWindow(p, s, t))
  BY <1>2, <1>5 DEF ObserveDeviceProfile
<1>7. PICK next \in SoundProfiles : next = CountWindow(p, s, t)
  BY CountingWindow
<1>8. Admits(table, ip) => Table(With(table, ip, next), Devices, SoundProfiles, MaxDevices)
  BY <1>3, TableTakes, TableAssumption DEF Admits
<1> QED BY <1>3, <1>4, <1>6, <1>7, <1>8 DEF ProfileInv

(* A baseline is replaced only by what all of the last windows show.       *)
ProfileChangeStep ==
  \A ip \in DOMAIN deviceProfiles \cap DOMAIN deviceProfiles' :
    LET old == deviceProfiles[ip].baseline
        new == deviceProfiles'[ip].baseline
    IN old # NoSignature /\ new \notin {old, NoSignature} =>
         deviceProfiles'[ip].windows = [i \in 1..ProfileConfirm |-> new]
(* Observing a device is such a step.                                      *)
LEMMA ProfileChanges ==
  ASSUME ProfileInv, NEW ip \in Devices, NEW s \in Signatures, NEW t \in Minutes,
         ObserveDeviceProfile(ip, s, t)
  PROVE  ProfileChangeStep
<1>1. Table(deviceProfiles, Devices, SoundProfiles, MaxDevices)
  BY DEF ProfileInv
<1>2. PICK table : table = ProfileTable(t)
  OBVIOUS
<1>3. /\ Table(table, Devices, SoundProfiles, MaxDevices)
      /\ Restricted(table, deviceProfiles)
  BY <1>1, <1>2, PrunedDrops, StaysTable, TableAssumption DEF ProfileTable
<1>4. PICK p \in SoundProfiles : p = Entry(table, ip, FreshProfile)
  BY <1>3, EntryIsSound, FreshProfileIsSound
<1>5. PICK next \in SoundProfiles : next = CountWindow(p, s, t)
  BY CountingWindow
<1>6. \/ deviceProfiles' = table
      \/ deviceProfiles' = With(table, ip, next)
  BY <1>2, <1>4, <1>5 DEF ObserveDeviceProfile
<1>7. SUFFICES ASSUME NEW k \in DOMAIN deviceProfiles, k \in DOMAIN deviceProfiles',
                      NEW q, q = deviceProfiles'[k],
                      deviceProfiles[k].baseline # NoSignature,
                      q.baseline \notin {deviceProfiles[k].baseline, NoSignature}
               PROVE  Repeated(q, q.baseline)
  BY DEF ProfileChangeStep, Repeated
<1>8. k \in DOMAIN table => table[k] = deviceProfiles[k]
  BY <1>3 DEF Restricted
<1>9. CASE deviceProfiles' = table
  BY <1>7, <1>8, <1>9
<1>10. CASE deviceProfiles' = With(table, ip, next)
  <2>1. PICK w : w = With(table, ip, next)
    OBVIOUS
  <2>2. /\ DOMAIN w = DOMAIN table \cup {ip} /\ w[ip] = next
        /\ \A j \in DOMAIN table : j # ip => w[j] = table[j]
    BY <2>1 DEF With
  <2>3. k \in DOMAIN w /\ q = w[k]
    BY <1>7, <1>10, <2>1
  <2>4. k = ip /\ q = next
    BY <1>7, <1>8, <2>2, <2>3
  <2>5. CASE ip \in DOMAIN table
    <3>1. p = deviceProfiles[ip]
      BY <1>4, <1>8, <2>4, <2>5 DEF Entry
    <3> QED BY <1>5, <1>7, <2>4, <3>1, CountingWindow
  <2>6. CASE ip \notin DOMAIN table
    <3>1. p.baseline = NoSignature /\ p.learningWindows = 0
      BY <1>4, <2>6 DEF Entry, FreshProfile
    <3> QED BY <1>5, <1>7, <2>4, <3>1, CountingWindow
  <2> QED BY <2>5, <2>6
<1> QED BY <1>6, <1>9, <1>10

-------------------------------------------------------------------------------
(* Insertion.                                                              *)

(* The place of a time in a list: what is before it is earlier.            *)
IsPlace(s, t, i) ==
  /\ i \in 1..(Len(s) + 1)
  /\ i <= Len(s) => s[i] >= t
  /\ \A j \in 1..Len(s) : j < i => s[j] < t
(* sort.Search finds it.                                                   *)
LEMMA PlaceFound ==
  ASSUME NEW S \in SUBSET Nat, NEW s \in Seq(S), NEW t \in S
  PROVE  IsPlace(s, t, Place(s, t))
<1>1. PICK l \in Nat : l = Len(s)
  BY LenProperties
<1>2. \A j \in 1..l : s[j] \in Nat
  BY <1>1, ElementOfSeq
<1>3. PICK D \in SUBSET Nat : D = {j \in 1..l : s[j] >= t} \cup {l + 1}
  <2>1. PICK E : E = {j \in 1..l : s[j] >= t}
    OBVIOUS
  <2>2. E \subseteq 1..l
    BY <2>1
  <2>3. E \cup {l + 1} \in SUBSET Nat
    BY <2>2
  <2> QED BY <2>1, <2>3
<1>4. PICK i : i = Min(D)
  OBVIOUS
<1>5. i \in D /\ \A j \in D : i <= j
  BY <1>3, <1>4, Least
<1>6. i \in 1..(l + 1) /\ (i <= l => s[i] >= t)
  BY <1>3, <1>5
<1>7. ASSUME NEW j \in 1..l, j < i PROVE s[j] < t
  <2>1. j \notin D
    BY <1>5, <1>6, <1>7
  <2> QED BY <1>2, <1>3, <2>1
<1>8. i = Place(s, t)
  BY <1>1, <1>3, <1>4 DEF Place
<1> QED BY <1>1, <1>6, <1>7, <1>8 DEF IsPlace

(* What insertion makes of a list.                                         *)
IsInsertion(v, s, i, e) ==
  /\ Len(v) = Len(s) + 1
  /\ v[i] = e
  /\ \A j \in 1..Len(s) : v[IF j < i THEN j ELSE j + 1] = s[j]
(* InsertAt inserts.                                                       *)
LEMMA InsertAtInserts ==
  ASSUME NEW S, NEW s \in Seq(S), NEW e \in S, NEW i \in 1..(Len(s) + 1)
  PROVE  InsertAt(s, i, e) \in Seq(S) /\ IsInsertion(InsertAt(s, i, e), s, i, e)
<1>1. PICK l \in Nat : l = Len(s)
  BY LenProperties
<1>2. \A j \in 1..l : s[j] \in S
  BY <1>1, ElementOfSeq
<1>3. PICK k \in 1..(l + 1) : k = i
  BY <1>1
<1>4. PICK a : a = SubSeq(s, 1, k - 1)
  OBVIOUS
<1>5. PICK b : b = SubSeq(s, k, l)
  OBVIOUS
<1>6. a \in Seq(S) /\ Len(a) = k - 1 /\ \A j \in 1..(k - 1) : a[j] = s[j]
  <2>1. k - 1 \in Int /\ 1 \in Int /\ \A j \in 1..(k - 1) : j \in 1..l
    OBVIOUS
  <2>2. \A j \in 1..(k - 1) : s[j] \in S
    BY <1>2, <2>1
  <2>3. PICK n \in Int : n = k - 1
    BY <2>1
  <2>4. /\ SubSeq(s, 1, n) \in Seq(S)
        /\ Len(SubSeq(s, 1, n)) = IF 1 <= n THEN n - 1 + 1 ELSE 0
        /\ \A j \in 1..(n - 1 + 1) : SubSeq(s, 1, n)[j] = s[1 + j - 1]
    BY <2>1, <2>2, <2>3, SubSeqProperties
  <2>5. n - 1 + 1 = n /\ (~(1 <= n) => n = 0) /\ \A j \in 1..n : 1 + j - 1 = j
    BY <2>3
  <2> QED BY <1>4, <2>3, <2>4, <2>5
<1>7. b \in Seq(S) /\ Len(b) = l - k + 1 /\ \A j \in 1..(l - k + 1) : b[j] = s[k + j - 1]
  <2>1. \A j \in k..l : s[j] \in S
    BY <1>2
  <2>2. /\ SubSeq(s, k, l) \in Seq(S)
        /\ Len(SubSeq(s, k, l)) = IF k <= l THEN l - k + 1 ELSE 0
        /\ \A j \in 1..(l - k + 1) : SubSeq(s, k, l)[j] = s[k + j - 1]
    BY <2>1, SubSeqProperties
  <2> QED BY <1>5, <2>2
<1>8. /\ <<e>> \in Seq(S) /\ Len(<<e>>) = 1 /\ <<e>>[1] = e
  OBVIOUS
<1>9. PICK c : c = a \o <<e>>
  OBVIOUS
<1>10. c \in Seq(S) /\ Len(c) = k /\ c[k] = e /\ \A j \in 1..(k - 1) : c[j] = s[j]
  <2>1. PICK n \in Nat : n = k - 1
    OBVIOUS
  <2>2. PICK u \in Seq(S) : u = <<e>> /\ Len(u) = 1 /\ u[1] = e
    BY <1>8
  <2>3. Len(a) = n /\ a \in Seq(S) /\ \A j \in 1..n : a[j] = s[j]
    BY <1>6, <2>1
  <2>4. /\ a \o u \in Seq(S) /\ Len(a \o u) = Len(a) + Len(u)
        /\ \A j \in 1..(Len(a) + Len(u)) :
             (a \o u)[j] = IF j <= Len(a) THEN a[j] ELSE u[j - Len(a)]
    BY <2>3, ConcatProperties
  <2>5. /\ c \in Seq(S) /\ Len(c) = n + 1
        /\ \A j \in 1..(n + 1) : c[j] = IF j <= n THEN a[j] ELSE u[j - n]
    BY <1>9, <2>2, <2>3, <2>4
  <2>6. c[n + 1] = e
    <3>1. n + 1 \in 1..(n + 1) /\ ~(n + 1 <= n) /\ n + 1 - n = 1
      OBVIOUS
    <3> QED BY <2>2, <2>5, <3>1
  <2>7. \A j \in 1..n : c[j] = s[j]
    BY <2>3, <2>5
  <2> QED BY <2>1, <2>5, <2>6, <2>7
<1>11. PICK v : v = c \o b
  OBVIOUS
<1>12. /\ v \in Seq(S) /\ Len(v) = k + (l - k + 1)
       /\ \A j \in 1..(k + (l - k + 1)) : v[j] = IF j <= k THEN c[j] ELSE b[j - k]
  <2>1. PICK n \in Nat : n = Len(b) /\ n = l - k + 1
    BY <1>7
  <2>2. /\ c \o b \in Seq(S) /\ Len(c \o b) = Len(c) + Len(b)
        /\ \A j \in 1..(Len(c) + Len(b)) :
             (c \o b)[j] = IF j <= Len(c) THEN c[j] ELSE b[j - Len(c)]
    BY <1>7, <1>10, ConcatProperties
  <2> QED BY <1>10, <1>11, <2>1, <2>2
<1>13. k + (l - k + 1) = l + 1
  OBVIOUS
<1>14. v[k] = e
  BY <1>10, <1>12, <1>13
<1>15. ASSUME NEW j \in 1..l PROVE v[IF j < k THEN j ELSE j + 1] = s[j]
  <2>1. CASE j < k
    BY <1>10, <1>12, <1>13, <2>1
  <2>2. CASE ~(j < k)
    <3>1. j + 1 - k \in 1..(l - k + 1) /\ k + (j + 1 - k) - 1 = j
      BY <2>2
    <3>2. v[j + 1] = b[j + 1 - k]
      BY <1>12, <1>13, <2>2
    <3> QED BY <1>7, <2>2, <3>1, <3>2
  <2> QED BY <2>1, <2>2
<1>16. v = InsertAt(s, i, e)
  BY <1>1, <1>3, <1>4, <1>5, <1>9, <1>11 DEF InsertAt
<1> QED BY <1>1, <1>3, <1>12, <1>13, <1>14, <1>15, <1>16 DEF IsInsertion

(* The set of what is in a list.                                           *)
LEMMA InList ==
  ASSUME NEW S, NEW s \in Seq(S)
  PROVE  \A x : x \in ToSet(s) <=> \E j \in 1..Len(s) : s[j] = x
<1>1. DOMAIN s = 1..Len(s)
  BY LenProperties
<1> QED BY <1>1 DEF ToSet

(* A list with a time, once.                                               *)
IsUnique(u, s, t) ==
  \/ u = s /\ \E j \in 1..Len(s) : s[j] = t
  \/ \E i \in 1..(Len(s) + 1) :
       /\ IsPlace(s, t, i) /\ IsInsertion(u, s, i, t)
       /\ i <= Len(s) => s[i] # t
(* Insertion gives one.                                                    *)
LEMMA UniqueIsInserted ==
  ASSUME NEW S \in SUBSET Nat, NEW s \in Seq(S), NEW t \in S
  PROVE  InsertUnique(s, t) \in Seq(S) /\ IsUnique(InsertUnique(s, t), s, t)
<1>1. PICK i : i = Place(s, t)
  OBVIOUS
<1>2. IsPlace(s, t, i)
  BY <1>1, PlaceFound
<1>3. i \in 1..(Len(s) + 1) /\ Len(s) \in Nat
  BY <1>2, LenProperties DEF IsPlace
<1>4. PICK u : u = InsertUnique(s, t)
  OBVIOUS
<1>5. CASE i <= Len(s) /\ s[i] = t
  <2>1. u = s
    BY <1>1, <1>4, <1>5 DEF InsertUnique
  <2>2. i \in 1..Len(s)
    BY <1>3, <1>5
  <2> QED BY <1>4, <1>5, <2>1, <2>2 DEF IsUnique
<1>6. CASE ~(i <= Len(s) /\ s[i] = t)
  <2>1. u = InsertAt(s, i, t)
    BY <1>1, <1>4, <1>6 DEF InsertUnique
  <2>2. u \in Seq(S) /\ IsInsertion(u, s, i, t)
    BY <1>3, <2>1, InsertAtInserts
  <2> QED BY <1>2, <1>3, <1>4, <1>6, <2>2 DEF IsUnique
<1> QED BY <1>5, <1>6

(* The set and the length of a list with a time.                           *)
LEMMA UniqueSet ==
  ASSUME NEW S \in SUBSET Nat, NEW s \in Seq(S), NEW t \in S,
         NEW u \in Seq(S), IsUnique(u, s, t)
  PROVE  /\ ToSet(u) = ToSet(s) \cup {t}
         /\ Len(u) = Len(s) \/ Len(u) = Len(s) + 1
<1>1. PICK l \in Nat : l = Len(s)
  BY LenProperties
<1>2. CASE u = s /\ \E j \in 1..Len(s) : s[j] = t
  <2>1. t \in ToSet(s)
    BY <1>2, InList
  <2> QED BY <1>2, <2>1
<1>3. ASSUME NEW i \in 1..(Len(s) + 1), IsInsertion(u, s, i, t)
      PROVE  ToSet(u) = ToSet(s) \cup {t} /\ Len(u) = Len(s) + 1
  <2>1. Len(u) = l + 1 /\ u[i] = t /\ i \in 1..(l + 1)
    BY <1>1, <1>3 DEF IsInsertion
  <2>2. \A j \in 1..l : u[IF j < i THEN j ELSE j + 1] = s[j]
    BY <1>1, <1>3 DEF IsInsertion
  <2>3. ASSUME NEW x \in ToSet(s) PROVE x \in ToSet(u)
    <3>1. PICK j \in 1..l : s[j] = x
      BY <1>1, <2>3, InList
    <3>2. PICK k \in 1..(l + 1) : k = IF j < i THEN j ELSE j + 1
      OBVIOUS
    <3>3. u[k] = x
      BY <2>2, <3>1, <3>2
    <3> QED BY <2>1, <3>3, InList
  <2>4. ASSUME NEW x \in ToSet(u) PROVE x \in ToSet(s) \cup {t}
    <3>1. PICK k \in 1..(l + 1) : u[k] = x
      BY <2>1, <2>4, InList
    <3>2. CASE k = i
      BY <2>1, <3>1, <3>2
    <3>3. CASE k # i
      <4>1. PICK j \in 1..l : k = IF j < i THEN j ELSE j + 1
        <5>1. CASE k < i
          BY <2>1, <5>1
        <5>2. CASE k > i
          <6>1. k - 1 \in 1..l /\ ~(k - 1 < i) /\ k - 1 + 1 = k
            BY <2>1, <5>2
          <6> QED BY <6>1
        <5> QED BY <2>1, <3>3, <5>1, <5>2
      <4>2. s[j] = x
        BY <2>2, <3>1, <4>1
      <4> QED BY <1>1, <4>2, InList
    <3> QED BY <3>2, <3>3
  <2>5. t \in ToSet(u)
    BY <2>1, InList
  <2> QED BY <1>1, <2>1, <2>3, <2>4, <2>5
<1> QED BY <1>2, <1>3 DEF IsUnique

(* What a list of the last times becomes with a time, before it is full.   *)
Extends(v, s, t, n) ==
  /\ Len(v) <= n /\ Len(v) >= Len(s)
  /\ Len(s) < n => ToSet(v) = ToSet(s) \cup {t}
(* appendUniqueBucket gives one.                                           *)
LEMMA AppendUniqueExtends ==
  ASSUME NEW S \in SUBSET Nat, NEW s \in Seq(S), NEW t \in S, NEW n \in Nat \ {0}, Len(s) <= n
  PROVE  AppendUnique(s, t, n) \in Seq(S) /\ Extends(AppendUnique(s, t, n), s, t, n)
<1>1. PICK u \in Seq(S) : u = InsertUnique(s, t) /\ IsUnique(u, s, t)
  BY UniqueIsInserted
<1>2. PICK l \in Nat : l = Len(s)
  BY LenProperties
<1>3. PICK k \in Nat : k = Len(u) /\ (k = l \/ k = l + 1)
  BY <1>1, <1>2, UniqueSet, LenProperties
<1>4. PICK v : v = LastOf(u, n)
  OBVIOUS
<1>5. /\ v \in Seq(S) /\ Len(v) = IF k <= n THEN k ELSE n
      /\ \A i \in 1..Len(v) : i + (k - Len(v)) \in 1..k /\ v[i] = u[i + (k - Len(v))]
  <2>1. /\ LastOf(u, n) \in Seq(S)
        /\ Len(LastOf(u, n)) = IF Len(u) <= n THEN Len(u) ELSE n
        /\ \A i \in 1..Len(LastOf(u, n)) :
             /\ i + (Len(u) - Len(LastOf(u, n))) \in 1..Len(u)
             /\ LastOf(u, n)[i] = u[i + (Len(u) - Len(LastOf(u, n)))]
    BY LastOfKeeps
  <2> QED BY <1>3, <1>4, <2>1
<1>6. Len(v) <= n /\ Len(v) >= Len(s)
  BY <1>2, <1>3, <1>5
<1>7. ASSUME Len(s) < n PROVE ToSet(v) = ToSet(s) \cup {t}
  <2>1. Len(v) = k /\ \A i \in 1..k : i + (k - k) = i
    BY <1>2, <1>3, <1>5, <1>7
  <2>2. \A i \in 1..k : v[i] = u[i]
    BY <1>5, <2>1
  <2>3. ToSet(v) = ToSet(u)
    BY <1>3, <1>5, <2>1, <2>2, InList
  <2> QED BY <1>1, <2>3, UniqueSet
<1>8. v = AppendUnique(s, t, n)
  BY <1>1, <1>4 DEF AppendUnique
<1> QED BY <1>5, <1>6, <1>7, <1>8 DEF Extends

(* A list has no more different elements than its length.                  *)
LEMMA ListIsFinite ==
  ASSUME NEW S, NEW s \in Seq(S)
  PROVE  IsFiniteSet(ToSet(s)) /\ Cardinality(ToSet(s)) <= Len(s)
<1>1. PICK l \in Nat : l = Len(s)
  BY LenProperties
<1>2. PICK T : T = ToSet(s)
  OBVIOUS
<1>3. s \in Surjection(1..l, T)
  <2>1. s \in [1..l -> S]
    BY <1>1, LenProperties
  <2>2. \A x : x \in T <=> \E j \in 1..l : s[j] = x
    BY <1>1, <1>2, InList
  <2>3. s \in [1..l -> T]
    BY <2>1, <2>2
  <2> QED BY <2>2, <2>3 DEF Surjection
<1>4. IsFiniteSet(1..l) /\ Cardinality(1..l) = IF 1 > l THEN 0 ELSE l - 1 + 1
  BY FS_Interval
<1>5. IsFiniteSet(T) /\ Cardinality(T) <= Cardinality(1..l)
  BY <1>3, <1>4, FS_Surjection
<1> QED BY <1>1, <1>2, <1>4, <1>5

-------------------------------------------------------------------------------
(* Nighttime traffic.                                                      *)

(* The parameters of the detector.                                         *)
LEMMA NightNumbers ==
  /\ NightMinutes \in SUBSET Nat /\ DayMinutes \in SUBSET Nat
  /\ NightMinutes \subseteq Minutes /\ DayMinutes \subseteq Minutes
  /\ NightMinutes \cap DayMinutes = {}
  /\ MinDaytimeWindows \in Nat \ {0} /\ ExpectedNights \in Nat \ {0}
BY TableAssumption, NightAssumption

(* The fields of a profile, and what is known of a sound one.              *)
LEMMA ActivityFacts ==
  ASSUME NEW p \in SoundActivities
  PROVE  /\ p \in ActivityProfiles
         /\ p.daytimeBuckets \in Seq(DayMinutes) /\ p.nighttimeBuckets \in Seq(NightMinutes)
         /\ p.lastSeen \in Minutes \cup {NoTime}
         /\ p.seen \in SUBSET Minutes /\ p.alerted \in SUBSET NightMinutes
         /\ Len(p.nighttimeBuckets) <= ExpectedNights
         /\ Len(p.daytimeBuckets) <= MinDaytimeWindows
         /\ Len(p.nighttimeBuckets) < ExpectedNights =>
              p.alerted \subseteq ToSet(p.nighttimeBuckets)
         /\ IsFiniteSet(p.alerted) /\ Cardinality(p.alerted) <= ExpectedNights
BY DEF SoundActivities, ActivityProfiles

(* A new profile is sound.                                                 *)
LEMMA FreshActivityIsSound == FreshActivity \in SoundActivities
<1>1. PICK p : p = FreshActivity
  OBVIOUS
<1>2. /\ p.daytimeBuckets = <<>> /\ p.nighttimeBuckets = <<>> /\ p.lastSeen = NoTime
      /\ p.seen = {} /\ p.alerted = {}
  BY <1>1 DEF FreshActivity
<1>3. p \in ActivityProfiles
  BY <1>1 DEF FreshActivity, ActivityProfiles
<1>4. Len(p.daytimeBuckets) = 0 /\ Len(p.nighttimeBuckets) = 0
  BY <1>2, EmptySeq
<1>5. IsFiniteSet(p.alerted) /\ Cardinality(p.alerted) = 0
  BY <1>2, FS_EmptySet
<1>6. p.alerted \subseteq ToSet(p.nighttimeBuckets)
  BY <1>2
<1>7. p \in SoundActivities
  BY <1>3, <1>4, <1>5, <1>6, NightNumbers DEF SoundActivities
<1> QED BY <1>1, <1>7

(* A daytime minute keeps a profile sound.                                 *)
LEMMA DayIsSound ==
  ASSUME NEW p \in SoundActivities, NEW t \in DayMinutes,
         NEW seen, seen = [p EXCEPT !.lastSeen = t, !.seen = @ \cup {t}, !.alerted = p.alerted]
  PROVE  [seen EXCEPT !.daytimeBuckets = AppendUnique(@, t, MinDaytimeWindows)] \in SoundActivities
<1>1. PICK s \in Seq(DayMinutes) : s = p.daytimeBuckets
  BY ActivityFacts
<1>2. PICK v : v = AppendUnique(s, t, MinDaytimeWindows)
  OBVIOUS
<1>3. v \in Seq(DayMinutes) /\ Extends(v, s, t, MinDaytimeWindows)
  BY <1>1, <1>2, ActivityFacts, AppendUniqueExtends, NightNumbers
<1>4. PICK q : q = [seen EXCEPT !.daytimeBuckets = AppendUnique(@, t, MinDaytimeWindows)]
  OBVIOUS
<1>5. PICK times \in SUBSET Minutes : times = p.seen \cup {t}
  BY ActivityFacts, NightNumbers
<1>6. p \in ActivityProfiles
  BY ActivityFacts
<1>7. q = [p EXCEPT !.lastSeen = t, !.seen = times, !.daytimeBuckets = v]
  BY <1>1, <1>2, <1>4, <1>5, <1>6 DEF ActivityProfiles
<1>8. t \in Minutes
  BY NightNumbers
<1>9. q \in ActivityProfiles
  BY <1>3, <1>6, <1>7, <1>8 DEF ActivityProfiles
<1>10. /\ q.nighttimeBuckets = p.nighttimeBuckets /\ q.alerted = p.alerted
       /\ q.daytimeBuckets = v
  BY <1>6, <1>7 DEF ActivityProfiles
<1>11. Len(q.daytimeBuckets) <= MinDaytimeWindows
  BY <1>3, <1>10 DEF Extends
<1>12. q \in SoundActivities
  BY <1>9, <1>10, <1>11, ActivityFacts DEF SoundActivities
<1> QED BY <1>4, <1>12

(* A nighttime minute keeps a profile sound: it is recorded when it is     *)
(* reported, unless enough are.                                            *)
LEMMA NightIsSound ==
  ASSUME NEW p \in SoundActivities, NEW t \in NightMinutes, NEW unexpected \in BOOLEAN,
         unexpected => Len(p.nighttimeBuckets) < ExpectedNights,
         NEW seen, seen = [p EXCEPT !.lastSeen = t, !.seen = @ \cup {t},
                             !.alerted = IF unexpected THEN @ \cup {t} ELSE @]
  PROVE  [seen EXCEPT !.nighttimeBuckets = AppendUnique(@, t, ExpectedNights)] \in SoundActivities
<1>1. PICK s \in Seq(NightMinutes) : s = p.nighttimeBuckets
  BY ActivityFacts
<1>2. PICK v : v = AppendUnique(s, t, ExpectedNights)
  OBVIOUS
<1>3. v \in Seq(NightMinutes) /\ Extends(v, s, t, ExpectedNights)
  BY <1>1, <1>2, ActivityFacts, AppendUniqueExtends, NightNumbers
<1>4. PICK q : q = [seen EXCEPT !.nighttimeBuckets = AppendUnique(@, t, ExpectedNights)]
  OBVIOUS
<1>5. PICK times \in SUBSET Minutes : times = p.seen \cup {t}
  BY ActivityFacts, NightNumbers
<1>6. PICK alerted \in SUBSET NightMinutes :
        alerted = IF unexpected THEN p.alerted \cup {t} ELSE p.alerted
  BY ActivityFacts
<1>7. p \in ActivityProfiles /\ t \in Minutes
  BY ActivityFacts, NightNumbers
<1>8. q = [p EXCEPT !.lastSeen = t, !.seen = times, !.alerted = alerted, !.nighttimeBuckets = v]
  BY <1>1, <1>2, <1>4, <1>5, <1>6, <1>7 DEF ActivityProfiles
<1>9. q \in ActivityProfiles
  BY <1>3, <1>7, <1>8 DEF ActivityProfiles
<1>10. q.nighttimeBuckets = v /\ q.alerted = alerted /\ q.daytimeBuckets = p.daytimeBuckets
  BY <1>7, <1>8 DEF ActivityProfiles
<1>11. PICK l \in Nat : l = Len(s) /\ l <= ExpectedNights
  BY <1>1, ActivityFacts, LenProperties
<1>12. PICK k \in Nat : k = Len(v) /\ k <= ExpectedNights /\ k >= l
  BY <1>3, <1>11, LenProperties DEF Extends
<1>13. CASE l < ExpectedNights
  <2>1. ToSet(v) = ToSet(s) \cup {t} /\ p.alerted \subseteq ToSet(s)
    BY <1>1, <1>3, <1>11, <1>13, ActivityFacts DEF Extends
  <2>2. alerted \in SUBSET ToSet(v)
    BY <1>6, <2>1
  <2>3. IsFiniteSet(ToSet(v)) /\ Cardinality(ToSet(v)) <= k
    BY <1>3, <1>12, ListIsFinite
  <2>4. IsFiniteSet(alerted) /\ Cardinality(alerted) <= Cardinality(ToSet(v))
    BY <2>2, <2>3, FS_Subset
  <2>5. Cardinality(alerted) \in Nat /\ Cardinality(ToSet(v)) \in Nat
    BY <2>3, <2>4, FS_CardinalityType
  <2>6. Cardinality(alerted) <= ExpectedNights
    BY <1>12, <2>3, <2>4, <2>5, NightNumbers
  <2>7. q \in SoundActivities
    BY <1>9, <1>10, <1>12, <2>2, <2>4, <2>6, ActivityFacts DEF SoundActivities
  <2> QED BY <1>4, <2>7
<1>14. CASE ~(l < ExpectedNights)
  <2>1. alerted = p.alerted /\ ~(k < ExpectedNights)
    BY <1>1, <1>6, <1>11, <1>12, <1>14, NightNumbers
  <2>2. q \in SoundActivities
    BY <1>9, <1>10, <1>12, <2>1, ActivityFacts DEF SoundActivities
  <2> QED BY <1>4, <2>2
<1> QED BY <1>13, <1>14

(* Observing a device keeps the table sound.                               *)
LEMMA NightStep ==
  ASSUME NightInv, NEW ip \in Devices, NEW t \in Minutes, NEW significant,
         CheckNighttime(ip, t, significant)
  PROVE  NightInv'
<1>1. CASE UNCHANGED nightVars
  BY <1>1 DEF NightInv, nightVars
<1>2. CASE t \in NightMinutes \cup DayMinutes /\ ObserveActivity(ip, t)
  <2>1. /\ Table(activityProfiles, Devices, SoundActivities, MaxDevices)
        /\ activityWatermark \in Minutes \cup {NoTime}
    BY DEF NightInv
  <2>2. PICK table : table = ActivityTable(t)
    OBVIOUS
  <2>3. Table(table, Devices, SoundActivities, MaxDevices)
    BY <2>1, <2>2, PrunedDrops, StaysTable, TableAssumption DEF ActivityTable
  <2>4. activityWatermark' \in Minutes \cup {NoTime}
    BY <1>2, <2>1, LaterIsTime DEF ObserveActivity
  <2>5. PICK p \in SoundActivities : p = Activity(ip, t)
    BY <2>2, <2>3, EntryIsSound, FreshActivityIsSound DEF Activity
  <2>6. PICK unexpected \in BOOLEAN : unexpected = Unexpected(ip, t)
    BY DEF Unexpected
  <2>7. unexpected => t \in NightMinutes /\ Len(p.nighttimeBuckets) < ExpectedNights
    BY <2>5, <2>6 DEF Unexpected, PriorNightWindows
  <2>8. PICK seen : seen = [p EXCEPT !.lastSeen = t, !.seen = @ \cup {t},
                              !.alerted = IF unexpected THEN @ \cup {t} ELSE @]
    OBVIOUS
  <2>9. \E q \in SoundActivities :
          \/ activityProfiles' = table
          \/ Admits(table, ip) /\ activityProfiles' = With(table, ip, q)
    <3>1. CASE ~Admits(table, ip)
      BY <1>2, <2>2, <2>5, <3>1 DEF ObserveActivity
    <3>2. CASE Admits(table, ip) /\ t \in DayMinutes
      <4>1. PICK q : q = [seen EXCEPT !.daytimeBuckets = AppendUnique(@, t, MinDaytimeWindows)]
        OBVIOUS
      <4>2. activityProfiles' = With(table, ip, q)
        BY <1>2, <2>2, <2>5, <2>6, <2>8, <3>2, <4>1 DEF ObserveActivity
      <4>3. ~unexpected
        BY <2>7, <3>2, NightNumbers
      <4>4. seen = [p EXCEPT !.lastSeen = t, !.seen = @ \cup {t}, !.alerted = p.alerted]
        BY <2>8, <4>3, ActivityFacts DEF ActivityProfiles
      <4>5. q \in SoundActivities
        BY <3>2, <4>1, <4>4, DayIsSound
      <4> QED BY <3>2, <4>2, <4>5
    <3>3. CASE Admits(table, ip) /\ t \notin DayMinutes
      <4>1. PICK q : q = [seen EXCEPT !.nighttimeBuckets = AppendUnique(@, t, ExpectedNights)]
        OBVIOUS
      <4>2. activityProfiles' = With(table, ip, q)
        BY <1>2, <2>2, <2>5, <2>6, <2>8, <3>3, <4>1 DEF ObserveActivity
      <4>3. q \in SoundActivities
        BY <1>2, <2>7, <2>8, <3>3, <4>1, NightIsSound
      <4> QED BY <3>3, <4>2, <4>3
    <3> QED BY <3>1, <3>2, <3>3
  <2>10. PICK q \in SoundActivities :
           \/ activityProfiles' = table
           \/ Admits(table, ip) /\ activityProfiles' = With(table, ip, q)
    BY <2>9
  <2>11. Admits(table, ip) => Table(With(table, ip, q), Devices, SoundActivities, MaxDevices)
    BY <2>3, TableTakes, TableAssumption DEF Admits
  <2> QED BY <2>3, <2>4, <2>10, <2>11 DEF NightInv
<1> QED BY <1>1, <1>2 DEF CheckNighttime, Considered

-------------------------------------------------------------------------------
(* Beacons.                                                                *)

(* The parameters of the detector.                                         *)
LEMMA BeaconNumbers ==
  /\ Minutes \in SUBSET Nat /\ MaxObservations \in Nat \ {0}
  /\ MaxSeries \in Nat /\ BeaconRetention \in Nat
BY TableAssumption, BeaconAssumption

(* Insertion keeps a list in order.                                        *)
LEMMA StaysInOrder ==
  ASSUME NEW S \in SUBSET Nat, NEW s \in Seq(S), NEW t \in S,
         \A j, k \in 1..Len(s) : j < k => s[j] < s[k],
         NEW i, IsPlace(s, t, i), i <= Len(s) => s[i] # t, NEW u, IsInsertion(u, s, i, t)
  PROVE  /\ \A j, k \in 1..Len(u) : j < k => u[j] < u[k]
         /\ \A k \in 2..Len(u) : \E j \in 1..Len(s) : s[j] <= u[k]
<1>1. PICK l \in Nat : l = Len(s)
  BY LenProperties
<1>2. \A j \in 1..l : s[j] \in Nat
  BY <1>1, ElementOfSeq
<1>3. PICK p \in 1..(l + 1) : p = i
  BY <1>1 DEF IsPlace
<1>4. /\ \A j \in 1..l : j < p => s[j] < t
      /\ p <= l => s[p] >= t /\ s[p] # t
  BY <1>1, <1>3 DEF IsPlace
<1>5. \A j \in 1..l : j >= p => s[j] > t
  <2>1. TAKE j \in 1..l
  <2>2. HAVE j >= p
  <2>3. p \in 1..l /\ s[p] > t
    BY <1>2, <1>4, <2>2
  <2>4. s[p] <= s[j]
    BY <1>1, <1>2, <2>2, <2>3
  <2> QED BY <1>2, <2>3, <2>4
<1>6. /\ Len(u) = l + 1 /\ u[p] = t
      /\ \A j \in 1..l : u[IF j < p THEN j ELSE j + 1] = s[j]
  BY <1>1, <1>3 DEF IsInsertion
<1>7. \A k \in 1..(l + 1) : k < p => k \in 1..l /\ u[k] = s[k]
  BY <1>6
<1>8. \A k \in 1..(l + 1) : k > p => k - 1 \in 1..l /\ k - 1 >= p /\ u[k] = s[k - 1]
  <2>1. TAKE k \in 1..(l + 1)
  <2>2. HAVE k > p
  <2>3. k - 1 \in 1..l /\ ~(k - 1 < p) /\ k - 1 + 1 = k /\ k - 1 >= p
    BY <2>2
  <2> QED BY <1>6, <2>3
<1>9. ASSUME NEW j \in 1..(l + 1), NEW k \in 1..(l + 1), j < k PROVE u[j] < u[k]
  <2>1. CASE k < p
    BY <1>1, <1>7, <1>9, <2>1
  <2>2. CASE k = p
    BY <1>4, <1>6, <1>7, <1>9, <2>2
  <2>3. CASE k > p /\ j = p
    BY <1>5, <1>6, <1>8, <2>3
  <2>4. CASE k > p /\ j < p
    <3>1. u[j] < t
      BY <1>4, <1>7, <2>4
    <3>2. t < u[k]
      BY <1>5, <1>8, <2>4
    <3>3. u[j] \in Nat /\ u[k] \in Nat
      BY <1>2, <1>7, <1>8, <2>4
    <3> QED BY <3>1, <3>2, <3>3
  <2>5. CASE k > p /\ j > p
    <3>1. /\ k - 1 \in 1..l /\ j - 1 \in 1..l /\ j - 1 < k - 1
          /\ u[k] = s[k - 1] /\ u[j] = s[j - 1]
      BY <1>8, <1>9, <2>5
    <3> QED BY <1>1, <3>1
  <2> QED BY <2>1, <2>2, <2>3, <2>4, <2>5
<1>10. ASSUME NEW k \in 2..(l + 1) PROVE \E j \in 1..l : s[j] <= u[k]
  <2>1. CASE k < p
    BY <1>2, <1>7, <2>1
  <2>2. CASE k = p
    <3>1. 1 \in 1..l /\ 1 < p
      BY <2>2
    <3>2. s[1] < t
      BY <1>4, <3>1
    <3> QED BY <1>2, <1>6, <2>2, <3>1, <3>2
  <2>3. CASE k > p
    BY <1>2, <1>8, <2>3
  <2> QED BY <2>1, <2>2, <2>3
<1> QED BY <1>1, <1>6, <1>9, <1>10

(* A list of the most recent times stays one with a new time.              *)
LEMMA StaysMostRecent ==
  ASSUME NEW S \in SUBSET Nat, NEW s \in Seq(S), NEW t \in S, NEW n \in Nat \ {0},
         NEW seen \in SUBSET S, AreMostRecent(s, seen, n), t \notin ToSet(s)
  PROVE  /\ AppendUnique(s, t, n) \in Seq(S) /\ Len(AppendUnique(s, t, n)) > 0
         /\ AreMostRecent(AppendUnique(s, t, n), seen \cup {t}, n)
<1>1. /\ \A i, j \in 1..Len(s) : i < j => s[i] < s[j]
      /\ ToSet(s) \subseteq seen
      /\ Len(s) = n \/ (Len(s) < n /\ ToSet(s) = seen)
      /\ \A old \in seen \ ToSet(s) : \A i \in 1..Len(s) : old < s[i]
  BY DEF AreMostRecent
<1>2. PICK u \in Seq(S) : u = InsertUnique(s, t) /\ IsUnique(u, s, t)
  BY UniqueIsInserted
<1>3. PICK l \in Nat : l = Len(s) /\ l <= n
  BY <1>1, LenProperties
<1>4. PICK i \in 1..(Len(s) + 1) : /\ IsPlace(s, t, i) /\ IsInsertion(u, s, i, t)
                                   /\ i <= Len(s) => s[i] # t
  <2>1. ~\E j \in 1..Len(s) : s[j] = t
    BY InList
  <2> QED BY <1>2, <2>1 DEF IsUnique
<1>5. /\ \A j, k \in 1..Len(u) : j < k => u[j] < u[k]
      /\ \A k \in 2..Len(u) : \E j \in 1..Len(s) : s[j] <= u[k]
  BY <1>1, <1>4, StaysInOrder
<1>6. Len(u) = l + 1 /\ ToSet(u) = ToSet(s) \cup {t}
  BY <1>2, <1>3, <1>4, UniqueSet DEF IsInsertion
<1>7. PICK v : v = AppendUnique(s, t, n)
  OBVIOUS
<1>8. PICK m \in 1..n : m = IF l + 1 <= n THEN l + 1 ELSE n
  BY <1>3
<1>9. PICK d \in Nat : d = l + 1 - m /\ (l < n => d = 0) /\ (l = n => d = 1)
  <2>1. CASE l < n
    <3>1. l + 1 <= n
      BY <2>1
    <3>2. m = l + 1 /\ l + 1 - m = 0
      BY <1>8, <3>1
    <3> QED BY <2>1, <3>2
  <2>2. CASE l = n
    <3>1. ~(l + 1 <= n)
      BY <2>2
    <3>2. m = l /\ l + 1 - m = 1
      BY <1>8, <2>2, <3>1
    <3> QED BY <2>2, <3>2
  <2> QED BY <1>3, <2>1, <2>2
<1>10. /\ v \in Seq(S) /\ Len(v) = m
       /\ \A j \in 1..m : j + d \in 1..(l + 1) /\ v[j] = u[j + d]
  <2>1. /\ LastOf(u, n) \in Seq(S)
        /\ Len(LastOf(u, n)) = IF Len(u) <= n THEN Len(u) ELSE n
        /\ \A j \in 1..Len(LastOf(u, n)) :
             /\ j + (Len(u) - Len(LastOf(u, n))) \in 1..Len(u)
             /\ LastOf(u, n)[j] = u[j + (Len(u) - Len(LastOf(u, n)))]
    BY LastOfKeeps
  <2>2. v = LastOf(u, n)
    BY <1>2, <1>7 DEF AppendUnique
  <2>3. v \in Seq(S) /\ Len(v) = m
    BY <1>6, <1>8, <2>1, <2>2
  <2>a. PICK k \in Nat : k = Len(u) /\ k = l + 1
    BY <1>6
  <2>b. \A j \in 1..m : j + (k - m) \in 1..k /\ v[j] = u[j + (k - m)]
    BY <2>1, <2>2, <2>3, <2>a
  <2>4. \A j \in 1..m : j + (l + 1 - m) \in 1..(l + 1) /\ v[j] = u[j + (l + 1 - m)]
    BY <2>a, <2>b
  <2> QED BY <1>9, <2>3, <2>4
<1>11. \A j \in 1..(l + 1) : u[j] \in Nat
  BY <1>6, ElementOfSeq
<1>12. \A j \in 1..l : s[j] \in Nat
  BY <1>3, ElementOfSeq
<1>13. ASSUME NEW j \in 1..m, NEW k \in 1..m, j < k PROVE v[j] < v[k]
  <2>1. j + d \in 1..(l + 1) /\ k + d \in 1..(l + 1) /\ j + d < k + d
    BY <1>10, <1>13
  <2> QED BY <1>5, <1>6, <1>10, <2>1
<1>14. ToSet(v) \subseteq ToSet(u)
  <2>1. ASSUME NEW x \in ToSet(v) PROVE x \in ToSet(u)
    <3>1. PICK j \in 1..m : v[j] = x
      BY <1>10, <2>1, InList
    <3>2. j + d \in 1..Len(u) /\ u[j + d] = x
      BY <1>6, <1>10, <3>1
    <3> QED BY <3>2, InList
  <2> QED BY <2>1
<1>15. ASSUME l < n PROVE ToSet(v) = ToSet(u) /\ ToSet(s) = seen
  <2>1. d = 0 /\ m = l + 1 /\ \A j \in 1..m : j + d = j
    BY <1>8, <1>9, <1>15
  <2>2. \A j \in 1..(l + 1) : v[j] = u[j]
    BY <1>10, <2>1
  <2>3. ToSet(v) = ToSet(u)
    BY <1>6, <1>10, <2>1, <2>2, InList
  <2> QED BY <1>1, <1>3, <1>15, <2>3
<1>16. ASSUME NEW old \in (seen \cup {t}) \ ToSet(v), NEW j \in 1..m PROVE old < v[j]
  <2>1. l = n /\ d = 1
    BY <1>3, <1>6, <1>9, <1>15, <1>16
  <2>2. j + 1 \in 2..(l + 1) /\ j + 1 \in 1..(l + 1) /\ v[j] = u[j + 1]
    BY <1>8, <1>10, <2>1
  <2>3. CASE old \in ToSet(u)
    <3>1. PICK k \in 1..(l + 1) : u[k] = old
      BY <1>6, <2>3, InList
    <3>2. k = 1
      <4>1. SUFFICES ASSUME k # 1 PROVE FALSE
        OBVIOUS
      <4>2. k - 1 \in 1..m /\ k - 1 + d = k
        BY <1>8, <2>1, <4>1
      <4>3. v[k - 1] = old
        BY <1>10, <3>1, <4>2
      <4> QED BY <1>10, <1>16, <4>2, <4>3, InList
    <3>3. 1 \in 1..(l + 1) /\ 1 < j + 1
      OBVIOUS
    <3> QED BY <1>5, <1>6, <2>2, <3>1, <3>2, <3>3
  <2>4. CASE old \notin ToSet(u)
    <3>1. old \in seen \ ToSet(s) /\ old \in Nat
      BY <1>6, <1>16, <2>4
    <3>2. PICK k \in 1..l : s[k] <= u[j + 1]
      BY <1>3, <1>5, <1>6, <2>2
    <3>3. old < s[k]
      BY <1>1, <1>3, <3>1
    <3> QED BY <1>11, <1>12, <2>2, <3>1, <3>2, <3>3
  <2> QED BY <2>3, <2>4
<1>17. ToSet(v) \subseteq seen \cup {t}
  BY <1>1, <1>6, <1>14
<1>18. Len(v) = n \/ (Len(v) < n /\ ToSet(v) = seen \cup {t})
  <2>1. CASE l < n
    <3>1. ToSet(v) = seen \cup {t}
      BY <1>6, <1>15, <2>1
    <3> QED BY <1>10, <3>1
  <2>2. CASE l = n
    <3>1. ~(l + 1 <= n)
      BY <2>2
    <3> QED BY <1>8, <1>10, <3>1
  <2> QED BY <1>3, <2>1, <2>2
<1>19. AreMostRecent(v, seen \cup {t}, n)
  BY <1>10, <1>13, <1>16, <1>17, <1>18 DEF AreMostRecent
<1> QED BY <1>7, <1>8, <1>10, <1>19

(* The minutes of a sound series are no later than it was last seen.       *)
LEMMA LastSeenIsLatest ==
  ASSUME NEW p \in SoundSeries, NEW x \in p.seen
  PROVE  x <= p.lastSeen /\ p.lastSeen \in Nat
<1>1. /\ p \in BeaconSeries /\ AreMostRecent(p.observations, p.seen, MaxObservations)
      /\ p.observations # <<>> /\ p.lastSeen = p.observations[Len(p.observations)]
  BY DEF SoundSeries
<1>2. PICK s \in Seq(Minutes) : s = p.observations
  BY <1>1 DEF BeaconSeries
<1>3. PICK l \in Nat \ {0} : l = Len(s)
  BY <1>1, <1>2, EmptySeq
<1>4. \A j \in 1..l : s[j] \in Nat
  BY <1>3, ElementOfSeq, BeaconNumbers
<1>5. l \in 1..l /\ p.lastSeen = s[l]
  BY <1>1, <1>2, <1>3
<1>6. CASE x \in ToSet(s)
  <2>1. PICK j \in 1..l : s[j] = x
    BY <1>3, <1>6, InList
  <2>2. j < l => s[j] < s[l]
    BY <1>1, <1>2, <1>3, <1>5 DEF AreMostRecent
  <2> QED BY <1>4, <1>5, <2>1, <2>2
<1>7. CASE x \notin ToSet(s)
  <2>1. x < s[l] /\ x \in Nat
    BY <1>1, <1>2, <1>3, <1>5, <1>7, BeaconNumbers DEF AreMostRecent, BeaconSeries
  <2> QED BY <1>4, <1>5, <2>1
<1> QED BY <1>6, <1>7

(* What a series becomes with a row.                                       *)
SeriesWith(p, t) ==
  [observations |-> Record(p, t), lastSeen |-> LastSeen(Record(p, t), t),
   seen |-> p.seen \cup {t}]
(* It is sound if the minute is new.                                       *)
LEMMA RowIsSound ==
  ASSUME NEW p \in SoundSeries \cup {EmptySeries}, NEW t \in Minutes, ~Recorded(p, t)
  PROVE  SeriesWith(p, t) \in SoundSeries
<1>1. PICK s \in Seq(Minutes) : s = p.observations
  <2>1. CASE p = EmptySeries
    <3>1. p.observations = <<>>
      BY <2>1 DEF EmptySeries
    <3> QED BY <3>1, EmptySeq
  <2>2. CASE p \in SoundSeries
    BY <2>2 DEF SoundSeries, BeaconSeries
  <2> QED BY <2>1, <2>2
<1>2. PICK seen \in SUBSET Minutes : seen = p.seen
  BY DEF SoundSeries, BeaconSeries, EmptySeries
<1>3. AreMostRecent(s, seen, MaxObservations)
  <2>1. CASE p = EmptySeries
    <3>1. s = <<>> /\ seen = {} /\ Len(s) = 0
      BY <1>1, <1>2, <2>1, EmptySeq DEF EmptySeries
    <3>2. ToSet(s) = {}
      <4>1. \A x : x \in ToSet(s) => \E j \in 1..Len(s) : s[j] = x
        BY InList
      <4> QED BY <3>1, <4>1
    <3>3. Len(s) < MaxObservations
      BY <3>1, BeaconNumbers
    <3> QED BY <3>1, <3>2, <3>3 DEF AreMostRecent
  <2>2. CASE p \in SoundSeries
    BY <1>1, <1>2, <2>2 DEF SoundSeries
  <2> QED BY <2>1, <2>2
<1>4. t \notin ToSet(s)
  BY <1>1 DEF Recorded
<1>5. PICK v : v = AppendUnique(s, t, MaxObservations)
  OBVIOUS
<1>6. v \in Seq(Minutes) /\ Len(v) > 0 /\ AreMostRecent(v, seen \cup {t}, MaxObservations)
  BY <1>3, <1>4, <1>5, StaysMostRecent, BeaconNumbers
<1>7. PICK l \in Nat \ {0} : l = Len(v)
  BY <1>6, LenProperties
<1>8. v # <<>> /\ v[l] \in Minutes
  BY <1>6, <1>7, ElementOfSeq, EmptySeq
<1>9. PICK q : q = SeriesWith(p, t)
  OBVIOUS
<1>10. q = [observations |-> v, lastSeen |-> v[l], seen |-> seen \cup {t}]
  BY <1>1, <1>2, <1>5, <1>7, <1>9 DEF SeriesWith, Record, LastSeen, Last
<1>11. q \in BeaconSeries
  BY <1>6, <1>8, <1>10 DEF BeaconSeries
<1>12. q \in SoundSeries
  BY <1>6, <1>7, <1>8, <1>10, <1>11 DEF SoundSeries
<1> QED BY <1>9, <1>12

(* What a row may do to the table: prune it, and put a series there.       *)
LEMMA BeaconCases ==
  ASSUME Table(beacons, Tuples, SoundSeries, MaxSeries), NEW key \in Tuples, NEW t \in Minutes,
         ObserveBeacon(key, t)
  PROVE  /\ Table(PrunedSeries(t), Tuples, SoundSeries, MaxSeries)
         /\ Restricted(PrunedSeries(t), beacons)
         /\ \/ beacons' = PrunedSeries(t)
            \/ /\ AdmitsSeries(key, t)
               /\ SeriesWith(SeriesOf(key, t), t) \in SoundSeries
               /\ beacons' = With(PrunedSeries(t), key, SeriesWith(SeriesOf(key, t), t))
<1>1. Restricted(PrunedSeries(t), beacons)
  BY DEF PrunedSeries, Restricted
<1>2. Table(PrunedSeries(t), Tuples, SoundSeries, MaxSeries)
  BY <1>1, StaysTable, BeaconNumbers
<1>3. SeriesOf(key, t) \in SoundSeries \cup {EmptySeries}
  BY <1>2 DEF SeriesOf, Entry, Table, IsTable
<1>4. \/ beacons' = PrunedSeries(t)
      \/ /\ AdmitsSeries(key, t) /\ ~Recorded(SeriesOf(key, t), t)
         /\ beacons' = With(PrunedSeries(t), key, SeriesWith(SeriesOf(key, t), t))
  BY DEF ObserveBeacon, SeriesWith
<1> QED BY <1>1, <1>2, <1>3, <1>4, RowIsSound

(* How an increasing list of times is spread.                              *)
Increasing(times) == \A i, j \in 1..Len(times) : i < j => times[i] < times[j]
Span(times) == times[Len(times)] - times[1]
Spread(times, minSeconds) ==
  \A i \in 1..Len(times) - 1 :
    LET gap == times[i + 1] - times[i]
    IN /\ 60 * gap >= minSeconds
       /\ gap <= MaxInterval
       /\ 60 * Deviation(gap, Len(times) - 1, Span(times))
            <= Max({12 * Span(times), 20 * (Len(times) - 1)})

(* The fold over a sequence is the sum over its places.                    *)
LEMMA FoldIsSum ==
  ASSUME NEW s, IsFiniteSet(DOMAIN s)
  PROVE  FoldSeq(+, 0, s) = Weighed(s, DOMAIN s)
<1>1. FoldSeq(+, 0, s) = (CHOOSE f : Adds(f, s, DOMAIN s))[DOMAIN s]
  BY Zenon DEF FoldSeq, FoldFunction, FoldFunctionOnSet, MapThenFoldSet, Adds, Pick
<1>2. PICK g : g = CHOOSE f : Adds(f, s, DOMAIN s)
  OBVIOUS
<1>3. \E f : Adds(f, s, DOMAIN s)
  BY AddsExists
<1>4. Adds(g, s, DOMAIN s)
  BY <1>2, <1>3
<1>5. Weighed(s, DOMAIN s) = g[DOMAIN s]
  BY <1>4, WeighedAdds
<1> QED BY <1>1, <1>2, <1>5

(* The intervals between times add up to their span.                       *)
LEMMA IntervalsSpan ==
  ASSUME NEW S \in SUBSET Nat, NEW times \in Seq(S), Len(times) > 0, Increasing(times)
  PROVE  FoldSeq(+, 0, Intervals(times)) = Span(times)
<1>1. PICK l \in Nat : l = Len(times) - 1 /\ Len(times) = l + 1
  BY LenProperties
<1>2. \A i \in 1..(l + 1) : times[i] \in Nat
  BY <1>1, ElementOfSeq
<1>3. PICK w : w = Intervals(times)
  OBVIOUS
<1>4. DOMAIN w = 1..l /\ \A i \in 1..l : w[i] = times[i + 1] - times[i]
  BY <1>1, <1>3 DEF Intervals
<1>5. \A i \in 1..l : i + 1 \in 1..(l + 1) /\ i \in 1..(l + 1) /\ times[i] < times[i + 1] /\ w[i] \in Nat
  <2>1. TAKE i \in 1..l
  <2>2. i + 1 \in 1..(l + 1) /\ i \in 1..(l + 1) /\ i < i + 1
    OBVIOUS
  <2>3. times[i] < times[i + 1]
    BY <1>1, <2>2 DEF Increasing
  <2>4. times[i] \in Nat /\ times[i + 1] \in Nat /\ w[i] = times[i + 1] - times[i]
    BY <1>2, <1>4, <2>2
  <2> QED BY <2>2, <2>3, <2>4
<1>6. \A k \in 0..l : IsFiniteSet(1..k)
  BY FS_Interval
<1>7. PICK Good : Good = {T \in SUBSET (1..l) : \A k \in 0..l : T = 1..k => Weighed(w, T) = times[k + 1] - times[1]}
  OBVIOUS
<1>8. ASSUME NEW T \in SUBSET (1..l), \A x \in T : T \ {x} \in Good PROVE T \in Good
  <2>1. SUFFICES ASSUME NEW k \in 0..l, T = 1..k PROVE Weighed(w, T) = times[k + 1] - times[1]
    BY <1>7
  <2>2. CASE k = 0
    <3>1. T = {}
      BY <2>1, <2>2
    <3>2. times[1] \in Nat /\ times[k + 1] = times[1]
      BY <1>2, <2>2
    <3> QED BY <3>1, <3>2, SumOfNone
  <2>3. CASE k > 0
    <3>1. PICK j \in 0..l : j = k - 1 /\ k = j + 1
      BY <2>3
    <3>2. k \in T /\ T \ {k} = 1..j /\ k \notin 1..j /\ T = (1..j) \cup {k}
      BY <2>1, <2>3, <3>1
    <3>3. Weighed(w, 1..j) = times[j + 1] - times[1]
      BY <1>7, <1>8, <3>2
    <3>4. \A i \in 1..j : w[i] \in Nat
      BY <1>5, <3>1
    <3>5. k \in 1..l /\ w[k] \in Nat /\ w[k] = times[k + 1] - times[k]
      BY <1>4, <1>5, <2>3
    <3>6. Weighed(w, T) = Weighed(w, 1..j) + w[k]
      BY <1>6, <3>2, <3>4, <3>5, SumMore
    <3>7. times[1] \in Nat /\ times[k] \in Nat /\ times[k + 1] \in Nat
      BY <1>2, <3>5
    <3> QED BY <3>1, <3>3, <3>5, <3>6, <3>7
  <2> QED BY <2>2, <2>3
<1>9. \A T \in SUBSET (1..l) : T \in Good
  <2>1. PICK places : places = 1..l
    OBVIOUS
  <2>2. IsFiniteSet(places)
    BY <1>6, <2>1
  <2>3. \A T \in SUBSET places : (\A x \in T : T \ {x} \in Good) => T \in Good
    BY <1>8, <2>1
  <2>4. \A T \in SUBSET places : T \in Good
    BY <2>2, <2>3, SetInduction
  <2> QED BY <2>1, <2>4
<1>10. Weighed(w, 1..l) = times[l + 1] - times[1]
  <2>1. 1..l \in Good
    BY <1>9
  <2> QED BY <1>7, <2>1
<1>11. FoldSeq(+, 0, w) = Weighed(w, 1..l)
  <2>1. IsFiniteSet(1..l)
    BY <1>6
  <2> QED BY <2>1, <1>4, FoldIsSum
<1> QED BY <1>1, <1>3, <1>10, <1>11 DEF Span

(* What Regular asks of the intervals of increasing times is that they are *)
(* spread evenly.                                                          *)
LEMMA RegularIsSpread ==
  ASSUME NEW S \in SUBSET Nat, NEW times \in Seq(S), Len(times) > 0, Increasing(times),
         NEW minSeconds, Regular(Intervals(times), minSeconds)
  PROVE  Spread(times, minSeconds)
<1>1. PICK l \in Nat : l = Len(times) - 1
  BY LenProperties
<1>2. PICK w : w = Intervals(times)
  OBVIOUS
<1>3. Len(w) = l /\ \A i \in 1..l : w[i] = times[i + 1] - times[i]
  BY <1>1, <1>2 DEF Intervals
<1>4. FoldSeq(+, 0, w) = Span(times)
  BY <1>2, IntervalsSpan
<1>5. PICK span : span = Span(times)
  OBVIOUS
<1>6. \A i \in 1..l : /\ 60 * w[i] >= minSeconds
                      /\ w[i] <= MaxInterval
                      /\ 60 * Deviation(w[i], l, span) <= Max({12 * span, 20 * l})
  BY <1>2, <1>3, <1>4, <1>5, Zenon DEF Regular
<1> QED BY <1>1, <1>3, <1>5, <1>6, Zenon DEF Spread

(* Observing a row keeps the table sound.                                  *)
LEMMA BeaconStep ==
  ASSUME BeaconInv, NEW key \in Tuples, NEW t \in Minutes, ObserveBeacon(key, t)
  PROVE  BeaconInv'
<1>1. /\ Table(beacons, Tuples, SoundSeries, MaxSeries)
      /\ beaconWatermark \in Minutes \cup {NoTime}
  BY DEF BeaconInv
<1>2. beaconWatermark' \in Minutes \cup {NoTime}
  BY <1>1, LaterIsTime DEF ObserveBeacon
<1>3. PICK table : table = PrunedSeries(t)
  OBVIOUS
<1>4. PICK q : q = SeriesWith(SeriesOf(key, t), t)
  OBVIOUS
<1>5. /\ Table(table, Tuples, SoundSeries, MaxSeries)
      /\ \/ beacons' = table
         \/ AdmitsSeries(key, t) /\ q \in SoundSeries /\ beacons' = With(table, key, q)
  BY <1>1, <1>3, <1>4, BeaconCases
<1>6. AdmitsSeries(key, t) => key \in DOMAIN table \/ Cardinality(DOMAIN table) < MaxSeries
  BY <1>3 DEF AdmitsSeries
<1>7. AdmitsSeries(key, t) /\ q \in SoundSeries =>
        Table(With(table, key, q), Tuples, SoundSeries, MaxSeries)
  BY <1>5, <1>6, TableTakes, BeaconNumbers
<1> QED BY <1>2, <1>5, <1>7 DEF BeaconInv

(* A series that loses what it had seen was seen long ago.                 *)
InactivePrunedStep ==
  \A k \in DOMAIN beacons :
    beacons[k].seen \subseteq Entry(beacons', k, EmptySeries).seen
    \/ \A t \in beacons[k].seen : t + BeaconRetention < beaconWatermark'
(* Observing a row is such a step.                                         *)
LEMMA InactivePruned ==
  ASSUME BeaconInv, NEW key \in Tuples, NEW t \in Minutes, ObserveBeacon(key, t)
  PROVE  InactivePrunedStep
<1>1. /\ Table(beacons, Tuples, SoundSeries, MaxSeries)
      /\ beaconWatermark \in Minutes \cup {NoTime}
  BY DEF BeaconInv
<1>2. PICK table : table = PrunedSeries(t)
  OBVIOUS
<1>3. PICK q : q = SeriesWith(SeriesOf(key, t), t)
  OBVIOUS
<1>4. /\ Restricted(table, beacons)
      /\ beacons' = table \/ beacons' = With(table, key, q)
  BY <1>1, <1>2, <1>3, BeaconCases
<1>5. SUFFICES ASSUME NEW k \in DOMAIN beacons
               PROVE  \/ beacons[k].seen \subseteq Entry(beacons', k, EmptySeries).seen
                      \/ \A x \in beacons[k].seen : x + BeaconRetention < beaconWatermark'
  BY DEF InactivePrunedStep
<1>6. PICK p \in SoundSeries : p = beacons[k]
  BY <1>1 DEF Table, IsTable
<1>7. CASE k \in DOMAIN table
  <2>1. table[k] = p
    BY <1>4, <1>6, <1>7 DEF Restricted
  <2>2. k = key => p.seen \subseteq q.seen
    BY <1>2, <1>3, <1>7, <2>1 DEF SeriesWith, SeriesOf, Entry
  <2>3. CASE beacons' = table
    BY <1>6, <1>7, <2>1, <2>3 DEF Entry
  <2>4. CASE beacons' = With(table, key, q)
    <3>1. PICK w : w = With(table, key, q)
      OBVIOUS
    <3>2. /\ DOMAIN w = DOMAIN table \cup {key} /\ w[key] = q
          /\ \A j \in DOMAIN table : j # key => w[j] = table[j]
      BY <3>1 DEF With
    <3>3. p.seen \subseteq Entry(w, k, EmptySeries).seen
      BY <1>7, <2>1, <2>2, <3>2 DEF Entry
    <3> QED BY <1>6, <2>4, <3>1, <3>3
  <2> QED BY <1>4, <2>3, <2>4
<1>8. CASE k \notin DOMAIN table
  <2>1. ~(t <= beaconWatermark) /\ ~(p.lastSeen + BeaconRetention >= t)
    BY <1>2, <1>6, <1>8 DEF PrunedSeries
  <2>2. t \in Nat /\ beaconWatermark \in Nat /\ BeaconRetention \in Nat
    BY <1>1, BeaconNumbers DEF NoTime
  <2>3. beaconWatermark' = t
    BY <2>1, <2>2 DEF ObserveBeacon, Later
  <2>4. ASSUME NEW x \in p.seen PROVE x + BeaconRetention < t
    <3>1. x <= p.lastSeen /\ p.lastSeen \in Nat
      BY LastSeenIsLatest
    <3>2. x \in Nat
      BY BeaconNumbers DEF SoundSeries, BeaconSeries
    <3> QED BY <2>1, <2>2, <3>1, <3>2
  <2> QED BY <1>6, <2>3, <2>4
<1> QED BY <1>7, <1>8

-------------------------------------------------------------------------------
(* Metrics.                                                                *)

(* The fields of a row.                                                    *)
LEMMA RowFields ==
  ASSUME NEW f \in Rows
  PROVE  /\ f.dst \in Destinations /\ f.port \in Ports \cup {NoPort}
         /\ f.packets \in Nat /\ f.bytes \in Nat /\ f.t \in Minutes
BY DEF Rows

(* Metrics have the fields NoMetrics has.                                  *)
LEMMA FieldsOfMetrics ==
  MetricFields = {"bytes", "packets", "dstIPs", "dstIPsTruncated", "dstPorts", "dstIPByPort",
                  "internalDstIPs", "portsByDestination", "packetsByDestination",
                  "timestamp", "rows"}
BY DEF MetricFields, NoMetrics

(* Fresh metrics are sound, but for their time.                            *)
LEMMA NoMetricsAreSound == SoundMetrics(NoMetrics)
<1>1. PICK m : m = NoMetrics
  OBVIOUS
<1>2. /\ m.bytes = 0 /\ m.packets = 0 /\ m.dstIPs = {} /\ m.dstPorts = {}
      /\ m.dstIPByPort = <<>> /\ m.internalDstIPs = {}
      /\ m.portsByDestination = <<>> /\ m.packetsByDestination = <<>> /\ m.rows = {}
  BY <1>1 DEF NoMetrics
<1>3. DOMAIN m.dstIPByPort = {} /\ DOMAIN m.portsByDestination = {}
  BY <1>2
<1>4. IsFiniteSet(m.dstIPs) /\ Cardinality(m.dstIPs) <= MaxCardinality
  BY <1>2, FS_EmptySet, MetricsAssumption
<1>5. m = [f \in MetricFields |-> m[f]]
  BY <1>1 DEF NoMetrics, MetricFields
<1>6. SoundMetrics(m)
  BY <1>2, <1>3, <1>4, <1>5 DEF SoundMetrics
<1> QED BY <1>1, <1>6

(* Each part of aggregateDeviceMetrics keeps metrics sound: the volume, the *)
(* time and the rows,                                                      *)
LEMMA VolumeIsSound ==
  ASSUME NEW m, SoundMetrics(m), NEW f \in Rows,
         m.timestamp \in Minutes \cup {NoTime}
  PROVE  /\ SoundMetrics(AddVolume(m, f))
         /\ AddVolume(m, f).timestamp \in Minutes
<1>1. PICK q : q = AddVolume(m, f)
  OBVIOUS
<1>2. PICK b \in Nat : b = m.bytes + f.bytes
  BY RowFields DEF SoundMetrics
<1>3. PICK p \in Nat : p = m.packets + f.packets
  BY RowFields DEF SoundMetrics
<1>4. PICK t \in Minutes : t = Later(f.t, m.timestamp)
  <2>1. PICK a \in Minutes : a = f.t
    BY RowFields
  <2>2. PICK w \in Minutes \cup {NoTime} : w = m.timestamp
    OBVIOUS
  <2>3. a \in Nat \ {0}
    BY TableAssumption
  <2>4. w = NoTime => a > w
    BY <2>3 DEF NoTime
  <2> QED BY <2>1, <2>2, <2>4 DEF Later
<1>5. PICK r \in SUBSET Rows : r = m.rows \cup {f}
  BY DEF SoundMetrics
<1>6. q = [m EXCEPT !.bytes = b, !.packets = p, !.timestamp = t, !.rows = r]
  <2>1. m = [x \in MetricFields |-> m[x]]
    BY DEF SoundMetrics
  <2> QED BY <1>1, <1>2, <1>3, <1>4, <1>5, <2>1, FieldsOfMetrics DEF AddVolume, PacketsOf
<1>7. /\ q = [x \in MetricFields |-> q[x]]
      /\ q.bytes = b /\ q.packets = p /\ q.timestamp = t /\ q.rows = r
      /\ q.dstIPs = m.dstIPs /\ q.dstPorts = m.dstPorts /\ q.dstIPByPort = m.dstIPByPort
      /\ q.internalDstIPs = m.internalDstIPs
      /\ q.portsByDestination = m.portsByDestination
      /\ q.packetsByDestination = m.packetsByDestination
  <2>1. m = [x \in MetricFields |-> m[x]]
    BY DEF SoundMetrics
  <2> QED BY <1>6, <2>1, FieldsOfMetrics
<1>8. SoundMetrics(q)
  BY <1>7 DEF SoundMetrics
<1> QED BY <1>1, <1>7, <1>8

(* the destination, which is counted while there is room,                  *)
LEMMA DestinationIsSound ==
  ASSUME NEW m, SoundMetrics(m), NEW f \in Rows
  PROVE  /\ SoundMetrics(AddDestination(m, f))
         /\ AddDestination(m, f).timestamp = m.timestamp
<1>1. PICK q : q = AddDestination(m, f)
  OBVIOUS
<1>2. m = [x \in MetricFields |-> m[x]]
  BY DEF SoundMetrics
<1>3. CASE f.dst \notin Unicast
  BY <1>1, <1>3 DEF AddDestination
<1>4. CASE f.dst \in Unicast /\ Room(m.dstIPs)
  <2>1. PICK ips \in SUBSET Destinations : ips = m.dstIPs \cup {f.dst}
    BY RowFields DEF SoundMetrics
  <2>2. q = [m EXCEPT !.dstIPs = ips]
    BY <1>1, <1>2, <1>4, <2>1, FieldsOfMetrics DEF AddDestination
  <2>3. IsFiniteSet(m.dstIPs)
    BY DEF SoundMetrics
  <2>4. /\ IsFiniteSet(m.dstIPs \cup {f.dst})
        /\ Cardinality(m.dstIPs \cup {f.dst}) =
             IF f.dst \in m.dstIPs THEN Cardinality(m.dstIPs) ELSE Cardinality(m.dstIPs) + 1
    BY <2>3, FS_AddElement
  <2>5. Cardinality(m.dstIPs) \in Nat /\ Cardinality(m.dstIPs) < MaxCardinality
    BY <1>4, <2>3, FS_CardinalityType DEF Room
  <2>6. IsFiniteSet(ips) /\ Cardinality(ips) <= MaxCardinality
    BY <2>1, <2>4, <2>5, MetricsAssumption
  <2>7. /\ q = [x \in MetricFields |-> q[x]]
        /\ q.bytes = m.bytes /\ q.packets = m.packets /\ q.timestamp = m.timestamp
        /\ q.rows = m.rows /\ q.dstIPs = ips
        /\ q.dstPorts = m.dstPorts /\ q.dstIPByPort = m.dstIPByPort
        /\ q.internalDstIPs = m.internalDstIPs
        /\ q.portsByDestination = m.portsByDestination
        /\ q.packetsByDestination = m.packetsByDestination
    BY <1>2, <2>2, FieldsOfMetrics
  <2>8. SoundMetrics(q)
    BY <2>6, <2>7 DEF SoundMetrics
  <2> QED BY <1>1, <2>7, <2>8
<1>5. CASE f.dst \in Unicast /\ ~Room(m.dstIPs)
  <2>1. PICK cut : q = [m EXCEPT !.dstIPsTruncated = cut]
    BY <1>1, <1>5 DEF AddDestination
  <2>2. /\ q = [x \in MetricFields |-> q[x]]
        /\ q.bytes = m.bytes /\ q.packets = m.packets /\ q.timestamp = m.timestamp
        /\ q.rows = m.rows /\ q.dstIPs = m.dstIPs
        /\ q.dstPorts = m.dstPorts /\ q.dstIPByPort = m.dstIPByPort
        /\ q.internalDstIPs = m.internalDstIPs
        /\ q.portsByDestination = m.portsByDestination
        /\ q.packetsByDestination = m.packetsByDestination
    BY <1>2, <2>1, FieldsOfMetrics
  <2>3. SoundMetrics(q)
    BY <2>2 DEF SoundMetrics
  <2> QED BY <1>1, <2>2, <2>3
<1> QED BY <1>3, <1>4, <1>5

(* the local peer,                                                         *)
LEMMA PeerOfRowIsSound ==
  ASSUME NEW m, SoundMetrics(m), NEW f \in Rows
  PROVE  SoundMetrics(AddPeer(m, f)) /\ AddPeer(m, f).timestamp = m.timestamp
<1>1. PICK q : q = AddPeer(m, f)
  OBVIOUS
<1>2. m = [x \in MetricFields |-> m[x]]
  BY DEF SoundMetrics
<1>3. CASE ~(f.dst \in Peers /\ Cardinality(m.internalDstIPs) < MaxPeers)
  BY <1>1, <1>3 DEF AddPeer
<1>4. CASE f.dst \in Peers /\ Cardinality(m.internalDstIPs) < MaxPeers
  <2>1. PICK ips \in SUBSET Peers : ips = m.internalDstIPs \cup {f.dst}
    BY <1>4 DEF SoundMetrics
  <2>2. q = [m EXCEPT !.internalDstIPs = ips]
    BY <1>1, <1>2, <1>4, <2>1, FieldsOfMetrics DEF AddPeer
  <2>3. /\ q = [x \in MetricFields |-> q[x]]
        /\ q.bytes = m.bytes /\ q.packets = m.packets /\ q.timestamp = m.timestamp
        /\ q.rows = m.rows /\ q.dstIPs = m.dstIPs
        /\ q.dstPorts = m.dstPorts /\ q.dstIPByPort = m.dstIPByPort
        /\ q.internalDstIPs = ips
        /\ q.portsByDestination = m.portsByDestination
        /\ q.packetsByDestination = m.packetsByDestination
    BY <1>2, <2>2, FieldsOfMetrics
  <2>4. SoundMetrics(q)
    BY <2>3 DEF SoundMetrics
  <2> QED BY <1>1, <2>3, <2>4
<1> QED BY <1>3, <1>4

(* the port, which is in both maps of ports or in none,                    *)
LEMMA PortIsSound ==
  ASSUME NEW m, SoundMetrics(m), NEW f \in Rows, f.port # NoPort
  PROVE  SoundMetrics(AddPort(m, f)) /\ AddPort(m, f).timestamp = m.timestamp
<1>1. PICK q : q = AddPort(m, f)
  OBVIOUS
<1>2. m = [x \in MetricFields |-> m[x]]
  BY DEF SoundMetrics
<1>3. f.port \in Ports /\ f.dst \in Destinations
  BY RowFields
<1>4. /\ m.dstPorts \in SUBSET Ports /\ DOMAIN m.dstIPByPort = m.dstPorts
      /\ \A port \in m.dstPorts : m.dstIPByPort[port] \in Destinations
  BY DEF SoundMetrics
<1>5. PICK ports \in SUBSET Ports :
        ports = IF Room(m.dstPorts) THEN m.dstPorts \cup {f.port} ELSE m.dstPorts
  BY <1>3, <1>4
<1>6. PICK ips : ips = IF f.port \notin DOMAIN m.dstIPByPort /\ Room(DOMAIN m.dstIPByPort)
                       THEN With(m.dstIPByPort, f.port, f.dst) ELSE m.dstIPByPort
  OBVIOUS
<1>7. DOMAIN ips = ports /\ \A port \in ports : ips[port] \in Destinations
  <2>1. CASE f.port \notin m.dstPorts /\ Room(m.dstPorts)
    <3>1. ips = With(m.dstIPByPort, f.port, f.dst) /\ ports = m.dstPorts \cup {f.port}
      BY <1>4, <1>5, <1>6, <2>1
    <3>2. ips = [k \in ports |-> IF k = f.port THEN f.dst ELSE m.dstIPByPort[k]]
      BY <1>4, <3>1 DEF With
    <3> QED BY <1>3, <1>4, <3>1, <3>2
  <2>2. CASE ~(f.port \notin m.dstPorts /\ Room(m.dstPorts))
    <3>1. ips = m.dstIPByPort /\ ports = m.dstPorts
      BY <1>4, <1>5, <1>6, <2>2
    <3> QED BY <1>4, <3>1
  <2> QED BY <2>1, <2>2
<1>8. q = [m EXCEPT !.dstPorts = ports, !.dstIPByPort = ips]
  BY <1>1, <1>2, <1>5, <1>6, FieldsOfMetrics DEF AddPort
<1>9. /\ q = [x \in MetricFields |-> q[x]]
      /\ q.bytes = m.bytes /\ q.packets = m.packets /\ q.timestamp = m.timestamp
      /\ q.rows = m.rows /\ q.dstIPs = m.dstIPs
      /\ q.dstPorts = ports /\ q.dstIPByPort = ips
      /\ q.internalDstIPs = m.internalDstIPs
      /\ q.portsByDestination = m.portsByDestination
      /\ q.packetsByDestination = m.packetsByDestination
  BY <1>2, <1>8, FieldsOfMetrics
<1>10. SoundMetrics(q)
  BY <1>7, <1>9 DEF SoundMetrics
<1> QED BY <1>1, <1>9, <1>10

(* and the target, which is in both maps of targets or in none.            *)
LEMMA TargetIsSound ==
  ASSUME NEW m, SoundMetrics(m), NEW f \in Rows
  PROVE  SoundMetrics(AddTarget(m, f)) /\ AddTarget(m, f).timestamp = m.timestamp
<1>1. PICK q : q = AddTarget(m, f)
  OBVIOUS
<1>2. m = [x \in MetricFields |-> m[x]]
  BY DEF SoundMetrics
<1>3. CASE ~CountsForTarget(m, f)
  BY <1>1, <1>3 DEF AddTarget
<1>4. CASE CountsForTarget(m, f)
  <2>1. PICK ports : ports = With(m.portsByDestination, f.dst,
                                  Entry(m.portsByDestination, f.dst, {}) \cup {f.port})
    OBVIOUS
  <2>2. PICK packets : packets = With(m.packetsByDestination, f.dst,
                                      Entry(m.packetsByDestination, f.dst, 0) + f.packets)
    OBVIOUS
  <2>3. /\ DOMAIN ports = DOMAIN m.portsByDestination \cup {f.dst}
        /\ DOMAIN packets = DOMAIN m.packetsByDestination \cup {f.dst}
    BY <2>1, <2>2 DEF With
  <2>4. DOMAIN ports \subseteq Destinations /\ DOMAIN packets = DOMAIN ports
    BY <2>3, RowFields DEF SoundMetrics
  <2>5. q = [m EXCEPT !.portsByDestination = ports, !.packetsByDestination = packets]
    BY <1>1, <1>2, <1>4, <2>1, <2>2, FieldsOfMetrics DEF AddTarget
  <2>6. /\ q = [x \in MetricFields |-> q[x]]
        /\ q.bytes = m.bytes /\ q.packets = m.packets /\ q.timestamp = m.timestamp
        /\ q.rows = m.rows /\ q.dstIPs = m.dstIPs
        /\ q.dstPorts = m.dstPorts /\ q.dstIPByPort = m.dstIPByPort
        /\ q.internalDstIPs = m.internalDstIPs
        /\ q.portsByDestination = ports /\ q.packetsByDestination = packets
    BY <1>2, <2>5, FieldsOfMetrics
  <2>7. SoundMetrics(q)
    BY <2>4, <2>6 DEF SoundMetrics
  <2> QED BY <1>1, <2>6, <2>7
<1> QED BY <1>3, <1>4

(* So a row keeps metrics sound, and gives them a time.                    *)
LEMMA RowKeepsSound ==
  ASSUME NEW m, SoundMetrics(m), NEW f \in Rows, m.timestamp \in Minutes \cup {NoTime}
  PROVE  SoundMetrics(AddRow(m, f)) /\ AddRow(m, f).timestamp \in Minutes
<1>1. PICK a : a = AddVolume(m, f)
  OBVIOUS
<1>2. SoundMetrics(a) /\ a.timestamp \in Minutes
  BY <1>1, VolumeIsSound
<1>3. PICK b : b = AddDestination(a, f)
  OBVIOUS
<1>4. SoundMetrics(b) /\ b.timestamp \in Minutes
  BY <1>2, <1>3, DestinationIsSound
<1>5. PICK c : c = AddPeer(b, f)
  OBVIOUS
<1>6. SoundMetrics(c) /\ c.timestamp \in Minutes
  BY <1>4, <1>5, PeerOfRowIsSound
<1>7. PICK d : d = AddPort(c, f)
  OBVIOUS
<1>8. f.port # NoPort => SoundMetrics(d) /\ d.timestamp \in Minutes
  BY <1>6, <1>7, PortIsSound
<1>9. f.port # NoPort => SoundMetrics(AddTarget(d, f)) /\ AddTarget(d, f).timestamp \in Minutes
  BY <1>8, TargetIsSound
<1>10. AddRow(m, f) = IF f.port = NoPort THEN c ELSE AddTarget(d, f)
  BY <1>1, <1>3, <1>5, <1>7 DEF AddRow
<1> QED BY <1>6, <1>9, <1>10

(* Aggregating a row keeps the metrics sound.                              *)
LEMMA MetricsStep ==
  ASSUME MetricsInv, NEW f, AggregateRow(f)
  PROVE  MetricsInv'
<1>1. /\ f \in Rows /\ batch' \subseteq Rows
      /\ DOMAIN metrics \subseteq Devices
      /\ \A ip \in DOMAIN metrics : SoundMetrics(metrics[ip]) /\ metrics[ip].timestamp \in Minutes
  BY DEF MetricsInv, AggregateRow
<1>2. CASE f.src \notin Devices
  BY <1>1, <1>2 DEF MetricsInv, AggregateRow
<1>3. CASE f.src \in Devices
  <2>1. PICK ip \in Devices : ip = f.src
    BY <1>3
  <2>2. PICK m : m = Entry(metrics, ip, NoMetrics)
    OBVIOUS
  <2>3. SoundMetrics(m) /\ m.timestamp \in Minutes \cup {NoTime}
    <3>1. NoMetrics.timestamp = NoTime
      BY DEF NoMetrics
    <3> QED BY <1>1, <2>2, <3>1, NoMetricsAreSound DEF Entry
  <2>4. PICK n : n = AddRow(m, f)
    OBVIOUS
  <2>5. SoundMetrics(n) /\ n.timestamp \in Minutes
    BY <1>1, <2>3, <2>4, RowKeepsSound
  <2>6. PICK w : w = metrics'
    OBVIOUS
  <2>7. w = With(metrics, ip, n)
    BY <1>3, <2>1, <2>2, <2>4, <2>6 DEF AggregateRow
  <2>8. /\ DOMAIN w = DOMAIN metrics \cup {ip} /\ w[ip] = n
        /\ \A j \in DOMAIN metrics : j # ip => w[j] = metrics[j]
    BY <2>7 DEF With
  <2>9. \A j \in DOMAIN w : SoundMetrics(w[j]) /\ w[j].timestamp \in Minutes
    BY <1>1, <2>5, <2>8
  <2>10. DOMAIN w \subseteq Devices
    BY <1>1, <2>8
  <2> QED BY <1>1, <2>6, <2>9, <2>10 DEF MetricsInv
<1> QED BY <1>2, <1>3

-------------------------------------------------------------------------------
(* The engine.                                                             *)

(* What the engine may hand to the detectors that keep state.              *)
CanAnalyze(m) ==
  m.ip \in Devices /\ m.t \in Minutes /\ m.signature \in Signatures /\ m.peers \in SUBSET Peers

(* What the detectors find are alerts.                                     *)
LEMMA FoundAreAlerts ==
  ASSUME PeerInv, NEW m, CanAnalyze(m)
  PROVE  Found(m) \subseteq Alerts
<1>1. m.ip \in Devices /\ m.t \in Minutes /\ m.peers \in SUBSET Peers
  BY DEF CanAnalyze
<1>2. \A type \in Types : \A about \in Destinations \cup {NoPeer} :
        Alert(m.ip, type, about) \in Alerts
  BY <1>1 DEF Alert, Alerts
<1>3. ReportedPeers(m.ip, m.peers, m.t) \subseteq Peers
  <2>1. Table(internalPeerProfiles, Devices, SoundPeers, MaxDevices)
    BY DEF PeerInv
  <2>2. PICK table : table = PeerTable(m.t)
    OBVIOUS
  <2>3. Table(table, Devices, SoundPeers, MaxDevices)
    BY <2>1, <2>2, PrunedDrops, StaysTable, TableAssumption DEF PeerTable
  <2>4. PICK p \in SoundPeers : p = PeerProfile(m.ip, m.t)
    BY <2>2, <2>3, EntryIsSound, FreshPeerIsSound DEF PeerProfile
  <2>5. p \in InternalPeerProfiles
    BY DEF SoundPeers
  <2>6. Confirms(p, m.peers) => FirstUnknown(p, m.peers) \in Peers
    BY <1>1, <2>5, FirstIsUnknown DEF Confirms
  <2> QED BY <2>4, <2>6 DEF ReportedPeers
<1>4. Peers \subseteq Destinations
  BY MetricsAssumption
<1> QED BY <1>2, <1>3, <1>4 DEF Found, Types

(* So is what is found in sound metrics.                                   *)
LEMMA FoundInAreAlerts ==
  ASSUME NEW ip \in Devices, NEW m, SoundMetrics(m), NEW answered
  PROVE  FoundIn(ip, m, answered) \subseteq Alerts
<1>1. \A type \in Types : \A about \in Destinations \cup {NoPeer} :
        Alert(ip, type, about) \in Alerts
  BY DEF Alert, Alerts
<1>2. PortFanouts(m) \subseteq Destinations
  BY DEF PortFanouts, HighestPortFanout, SoundMetrics
<1>3. NewDestinations(ip, m, controls.minHistory) \subseteq Destinations
  BY DEF NewDestinations, SoundMetrics
<1>4. \A p \in NewPorts(ip, m, controls.minHistory) : m.dstIPByPort[p] \in Destinations
  BY DEF NewPorts, SoundMetrics
<1> QED BY <1>1, <1>2, <1>3, <1>4 DEF FoundIn, Types

(* Raising alerts keeps the records of them typed.                         *)
LEMMA TriggerIsTyped ==
  ASSUME AlertsInv, NEW found \in SUBSET Alerts, TriggerAlerts(found)
  PROVE  alertDeduplicator' \subseteq Devices \X Types /\ raised' \subseteq Alerts
<1>1. \A a \in Alerts : KeyOf(a) \in Devices \X Types
  BY DEF KeyOf, Alerts
<1>2. alertDeduplicator \subseteq Devices \X Types /\ raised \subseteq Alerts
  BY DEF AlertsInv
<1>3. PICK passing \in SUBSET found :
        /\ alertDeduplicator' = alertDeduplicator \cup {KeyOf(a) : a \in passing}
        /\ \E first \in SUBSET passing : raised' = raised \cup first
  <2>1. PICK passing : passing = {a \in found : ~alertSuppressed(a) /\ ~Duplicate(a)}
    OBVIOUS
  <2>2. passing \in SUBSET found
    BY <2>1
  <2> QED BY <2>1, <2>2 DEF TriggerAlerts
<1> QED BY <1>1, <1>2, <1>3

(* Analysing the metrics of a device keeps everything sound.               *)
LEMMA AnalyzeStep ==
  ASSUME EngineInv, NEW m, CanAnalyze(m), NEW found \in SUBSET Alerts, Analyze(m, found)
  PROVE  PeerInv' /\ ProfileInv' /\ NightInv' /\ BeaconInv' /\ AlertsInv'
<1>1. m.ip \in Devices /\ m.t \in Minutes /\ m.signature \in Signatures /\ m.peers \in SUBSET Peers
  BY DEF CanAnalyze
<1>2. PeerInv'
  BY <1>1, PeerStep DEF EngineInv, Analyze
<1>3. ProfileInv'
  BY <1>1, ProfileStep DEF EngineInv, Analyze
<1>4. NightInv'
  BY <1>1, NightStep DEF EngineInv, Analyze
<1>5. BeaconInv'
  BY DEF EngineInv, Analyze, BeaconInv, beaconVars
<1>6. PICK all : all = Found(m) \cup found
  OBVIOUS
<1>7. all \in SUBSET Alerts
  BY <1>6, FoundAreAlerts DEF EngineInv
<1>8. alertDeduplicator' \subseteq Devices \X Types /\ raised' \subseteq Alerts
  BY <1>6, <1>7, TriggerIsTyped DEF EngineInv, Analyze
<1>9. AlertsInv'
  BY <1>8 DEF EngineInv, AlertsInv, Analyze
<1> QED BY <1>2, <1>3, <1>4, <1>5, <1>9

(* What a device's metrics become for the detectors that keep state.       *)
DeviceMetrics(ip, m) ==
  [ip |-> ip, t |-> m.timestamp, peers |-> m.internalDstIPs,
   signature |-> SignatureOf[<<m.dstPorts, PeerBand(Cardinality(m.dstIPs))>>],
   significant |-> Significant(m.bytes, m.packets, Cardinality(m.dstIPs))]
(* The detectors can take it.                                              *)
LEMMA DeviceCanBeAnalyzed ==
  ASSUME NEW ip \in Devices, NEW m, SoundMetrics(m), m.timestamp \in Minutes
  PROVE  CanAnalyze(DeviceMetrics(ip, m))
<1>1. m.dstPorts \in SUBSET Ports /\ m.internalDstIPs \in SUBSET Peers
  BY DEF SoundMetrics
<1>2. PICK b \in Bands : b = PeerBand(Cardinality(m.dstIPs))
  BY DEF PeerBand, Bands
<1>3. SignatureOf[<<m.dstPorts, b>>] \in Signatures
  BY <1>1, EngineAssumption
<1> QED BY <1>1, <1>2, <1>3 DEF DeviceMetrics, CanAnalyze

(* What each action of the engine does to the tables: none changes one but *)
(* by what its detector does.                                              *)
Moves ==
  /\ \/ UNCHANGED <<peerVars, profileVars, nightVars>>
     \/ \E m : /\ CanAnalyze(m)
               /\ CheckNighttime(m.ip, m.t, m.significant)
               /\ ObserveDeviceProfile(m.ip, m.signature, m.t)
               /\ ObserveInternalPeer(m.ip, m.peers, m.t)
  /\ \/ UNCHANGED beaconVars
     \/ \E key \in Tuples, t \in Minutes : ObserveBeacon(key, t)

(* An analysis of a feed's metrics.                                        *)
LEMMA FedMetrics ==
  ASSUME EngineInv, NEW m \in feed.metrics
  PROVE  CanAnalyze(m)
<1>1. m \in Metrics
  BY EngineAssumption DEF EngineInv, AlertsInv
<1> QED BY <1>1 DEF Metrics, CanAnalyze

(* A batch of a feed: no row is newer than the bucket.                     *)
LEMMA BatchSound ==
  ASSUME EngineInv, NEW b \in feed.batches
  PROVE  /\ b.rows \subseteq Rows /\ b.bucket \in Minutes
         /\ \A f \in b.rows : f.t <= b.bucket
<1>1. feed \in Feeds
  BY DEF EngineInv, AlertsInv
<1>2. b \in [rows: SUBSET Rows, bucket: Minutes] /\ \A f \in b.rows : f.t <= b.bucket
  BY <1>1, EngineAssumption
<1> QED BY <1>2

(* A device of the batch.                                                  *)
LEMMA AnalyzedDevice ==
  ASSUME EngineInv, NEW ip \in DOMAIN metrics, AnalyzeDevice(ip)
  PROVE  /\ CanAnalyze(DeviceMetrics(ip, metrics[ip]))
         /\ \E found \in SUBSET Alerts : Analyze(DeviceMetrics(ip, metrics[ip]), found)
         /\ MetricsInv'
<1>1. /\ DOMAIN metrics \subseteq Devices /\ batch \subseteq Rows
      /\ \A d \in DOMAIN metrics : SoundMetrics(metrics[d]) /\ metrics[d].timestamp \in Minutes
  BY DEF EngineInv, MetricsInv
<1>2. ip \in Devices /\ SoundMetrics(metrics[ip]) /\ metrics[ip].timestamp \in Minutes
  BY <1>1
<1>3. CanAnalyze(DeviceMetrics(ip, metrics[ip]))
  BY <1>2, DeviceCanBeAnalyzed
<1>4. PICK answered \in BOOLEAN :
        Analyze(DeviceMetrics(ip, metrics[ip]), FoundIn(ip, metrics[ip], answered))
  BY DEF AnalyzeDevice, DeviceMetrics
<1>5. FoundIn(ip, metrics[ip], answered) \subseteq Alerts
  BY <1>2, FoundInAreAlerts
<1>6. /\ metrics' = [d \in DOMAIN metrics \ {ip} |-> metrics[d]]
      /\ batch' = batch
  BY DEF AnalyzeDevice
<1>7. MetricsInv'
  <2>1. PICK w : w = metrics'
    OBVIOUS
  <2>2. /\ DOMAIN w \subseteq Devices
        /\ \A d \in DOMAIN w : SoundMetrics(w[d]) /\ w[d].timestamp \in Minutes
    BY <1>1, <1>6, <2>1
  <2> QED BY <1>1, <1>6, <2>1, <2>2 DEF MetricsInv
<1> QED BY <1>3, <1>4, <1>5, <1>7

(* The initial states satisfy the invariant.                               *)
LEMMA EngineStarts ==
  ASSUME EngineInit
  PROVE  EngineInv
<1>1. PeerInv
  BY EmptyIsTable, TableAssumption DEF EngineInit, PeerInit, PeerInv
<1>2. ProfileInv
  BY EmptyIsTable, TableAssumption DEF EngineInit, ProfileInit, ProfileInv
<1>3. NightInv
  BY EmptyIsTable, TableAssumption DEF EngineInit, NightInit, NightInv
<1>4. BeaconInv
  BY EmptyIsTable, BeaconNumbers DEF EngineInit, BeaconInit, BeaconInv
<1>5. MetricsInv
  <2>1. batch = {} /\ metrics = <<>>
    BY DEF EngineInit, MetricsInit
  <2>2. DOMAIN metrics = {}
    BY <2>1
  <2> QED BY <2>1, <2>2 DEF MetricsInv
<1>6. AlertsInv
  <2>1. feed \in Feeds /\ controls \in Controls
    BY EngineAssumption DEF EngineInit
  <2> QED BY <2>1 DEF AlertsInv, EngineInit
<1> QED BY <1>1, <1>2, <1>3, <1>4, <1>5, <1>6 DEF EngineInv

(* What leaves the tables alone keeps them sound.                          *)
LEMMA TablesStay ==
  ASSUME EngineInv, UNCHANGED detectorVars
  PROVE  PeerInv' /\ ProfileInv' /\ NightInv' /\ BeaconInv' /\ Moves
<1>1. UNCHANGED <<peerVars, profileVars, nightVars>> /\ UNCHANGED beaconVars
  BY DEF detectorVars
<1>2. PeerInv'
  BY <1>1 DEF EngineInv, PeerInv, peerVars
<1>3. ProfileInv'
  BY <1>1 DEF EngineInv, ProfileInv, profileVars
<1>4. NightInv'
  BY <1>1 DEF EngineInv, NightInv, nightVars
<1>5. BeaconInv'
  BY <1>1 DEF EngineInv, BeaconInv, beaconVars
<1> QED BY <1>1, <1>2, <1>3, <1>4, <1>5 DEF Moves

(* An analysis moves the tables of its detectors.                          *)
LEMMA AnalyzeMoves ==
  ASSUME NEW m, CanAnalyze(m), NEW found, Analyze(m, found)
  PROVE  Moves
BY DEF Analyze, Moves

(* Every step keeps the invariant, and moves the tables as the detectors   *)
(* do.                                                                     *)
LEMMA EngineStep ==
  ASSUME EngineInv, EngineNext
  PROVE  EngineInv' /\ Moves
<1>1. ASSUME NEW m \in feed.metrics, AnalyzeMetrics(m) PROVE EngineInv' /\ Moves
  <2>1. CanAnalyze(m) /\ Analyze(m, {}) /\ UNCHANGED metricsVars
    BY <1>1, FedMetrics DEF AnalyzeMetrics
  <2>2. PeerInv' /\ ProfileInv' /\ NightInv' /\ BeaconInv' /\ AlertsInv'
    BY <2>1, AnalyzeStep
  <2>3. MetricsInv'
    BY <2>1 DEF EngineInv, MetricsInv, metricsVars
  <2> QED BY <2>1, <2>2, <2>3, AnalyzeMoves DEF EngineInv
<1>2. ASSUME NEW ip \in DOMAIN metrics, AnalyzeDevice(ip) PROVE EngineInv' /\ Moves
  <2>1. PICK m : m = DeviceMetrics(ip, metrics[ip])
    OBVIOUS
  <2>2. PICK found \in SUBSET Alerts : CanAnalyze(m) /\ Analyze(m, found)
    BY <1>2, <2>1, AnalyzedDevice
  <2>3. PeerInv' /\ ProfileInv' /\ NightInv' /\ BeaconInv' /\ AlertsInv'
    BY <2>2, AnalyzeStep
  <2>4. MetricsInv'
    BY <1>2, AnalyzedDevice
  <2> QED BY <2>2, <2>3, <2>4, AnalyzeMoves DEF EngineInv
<1>3. ASSUME NEW key \in Tuples, NEW t \in Minutes, CheckBeaconing(key, t)
      PROVE  EngineInv' /\ Moves
  <2>1. BeaconInv'
    BY <1>3, BeaconStep DEF EngineInv, CheckBeaconing
  <2>2. UNCHANGED <<feed, controls, batch, metrics>> /\ UNCHANGED <<peerVars, profileVars, nightVars>>
    BY <1>3 DEF CheckBeaconing, batchVars, metricsVars
  <2>3. PeerInv'
    BY <2>2 DEF EngineInv, PeerInv, peerVars
  <2>4. ProfileInv'
    BY <2>2 DEF EngineInv, ProfileInv, profileVars
  <2>5. NightInv'
    BY <2>2 DEF EngineInv, NightInv, nightVars
  <2>6. MetricsInv'
    BY <2>2 DEF EngineInv, MetricsInv
  <2>7. Alert(SourceOf[key], "BEACONING", NoPeer) \in Alerts
    BY EngineAssumption DEF Alert, Alerts, Types
  <2>8. PICK found \in SUBSET Alerts : TriggerAlerts(found)
    BY <1>3, <2>7 DEF CheckBeaconing
  <2>9. alertDeduplicator' \subseteq Devices \X Types /\ raised' \subseteq Alerts
    BY <2>8, TriggerIsTyped DEF EngineInv
  <2>10. AlertsInv'
    BY <2>2, <2>9 DEF EngineInv, AlertsInv
  <2>11. Moves
    BY <1>3, <2>2 DEF Moves, CheckBeaconing
  <2> QED BY <2>1, <2>3, <2>4, <2>5, <2>6, <2>10, <2>11 DEF EngineInv
<1>4. ASSUME NEW b \in feed.batches, ReceiveBatch(b) PROVE EngineInv' /\ Moves
  <2>1. PeerInv' /\ ProfileInv' /\ NightInv' /\ BeaconInv' /\ Moves
    BY <1>4, TablesStay DEF ReceiveBatch
  <2>2. b.rows \subseteq Rows
    BY <1>4, BatchSound
  <2>3. MetricsInv'
    BY <1>4, <2>2 DEF EngineInv, MetricsInv, ReceiveBatch, SaveBatch
  <2>4. AlertsInv'
    BY <1>4 DEF EngineInv, AlertsInv, ReceiveBatch, alertVars
  <2> QED BY <2>1, <2>3, <2>4 DEF EngineInv
<1>5. ASSUME NEW row \in batch, Aggregate(row) PROVE EngineInv' /\ Moves
  <2>1. PeerInv' /\ ProfileInv' /\ NightInv' /\ BeaconInv' /\ Moves
    BY <1>5, TablesStay DEF Aggregate
  <2>2. MetricsInv'
    BY <1>5, MetricsStep DEF EngineInv, Aggregate
  <2>3. AlertsInv'
    BY <1>5 DEF EngineInv, AlertsInv, Aggregate, alertVars
  <2> QED BY <2>1, <2>2, <2>3 DEF EngineInv
<1>6. ASSUME UNCHANGED <<feed, controls, alertVars, metricsVars, detectorVars>>
      PROVE  EngineInv' /\ Moves
  <2>1. PeerInv' /\ ProfileInv' /\ NightInv' /\ BeaconInv' /\ Moves
    BY <1>6, TablesStay
  <2>2. MetricsInv'
    BY <1>6 DEF EngineInv, MetricsInv, metricsVars
  <2>3. AlertsInv'
    BY <1>6 DEF EngineInv, AlertsInv, alertVars
  <2> QED BY <2>1, <2>2, <2>3 DEF EngineInv
<1>7. ASSUME NEW c \in feed.controls, UpdateConfig(c) PROVE EngineInv' /\ Moves
  <2>1. PeerInv' /\ ProfileInv' /\ NightInv' /\ BeaconInv' /\ Moves
    BY <1>7, TablesStay DEF UpdateConfig
  <2>2. MetricsInv'
    BY <1>7 DEF EngineInv, MetricsInv, UpdateConfig, batchVars, metricsVars
  <2>3. c \in Controls
    BY EngineAssumption DEF EngineInv, AlertsInv
  <2>4. AlertsInv'
    BY <1>7, <2>3 DEF EngineInv, AlertsInv, UpdateConfig, alertVars
  <2> QED BY <2>1, <2>2, <2>4 DEF EngineInv
<1>8. ASSUME NEW key \in alertDeduplicator, DedupExpires(key) PROVE EngineInv' /\ Moves
  <2>1. PeerInv' /\ ProfileInv' /\ NightInv' /\ BeaconInv' /\ Moves
    BY <1>8, TablesStay DEF DedupExpires
  <2>2. MetricsInv'
    BY <1>8 DEF EngineInv, MetricsInv, DedupExpires, batchVars, metricsVars
  <2>3. AlertsInv'
    BY <1>8 DEF EngineInv, AlertsInv, DedupExpires
  <2> QED BY <2>1, <2>2, <2>3 DEF EngineInv
<1>9. ASSUME NEW ip \in Devices, NEW now \in Minutes, Learn(ip, now) PROVE EngineInv' /\ Moves
  BY <1>6, <1>9 DEF Learn
<1>10. ASSUME NEW x, NEW y, ChangeThresholds(x, y) PROVE EngineInv' /\ Moves
  BY <1>6, <1>10 DEF ChangeThresholds
<1>11. \A row \in feed.rows : row[1] \in Tuples /\ row[2] \in Minutes
  BY EngineAssumption DEF EngineInv, AlertsInv
<1> QED BY <1>1, <1>2, <1>3, <1>4, <1>5, <1>7, <1>8, <1>9, <1>10, <1>11 DEF EngineNext

(* A step that changes nothing keeps the invariant.                        *)
LEMMA EngineStutters ==
  ASSUME EngineInv, UNCHANGED engineVars
  PROVE  EngineInv' /\ Moves
<1>1. UNCHANGED <<feed, controls, alertVars, metricsVars, detectorVars>>
  BY DEF engineVars, batchVars
<1>2. PeerInv' /\ ProfileInv' /\ NightInv' /\ BeaconInv' /\ Moves
  BY <1>1, TablesStay
<1>3. MetricsInv'
  BY <1>1 DEF EngineInv, MetricsInv, metricsVars
<1>4. AlertsInv'
  BY <1>1 DEF EngineInv, AlertsInv, alertVars
<1> QED BY <1>2, <1>3, <1>4 DEF EngineInv

-------------------------------------------------------------------------------
(* What was found.                                                         *)

(* The metrics of a device tell the truth about the rows they were made    *)
(* of.  A set that is not full has missed nothing, and a target's packets  *)
(* are counted as long as its ports are not full.                          *)
RowsTo(rows, d) == {r \in rows : r.dst = d /\ r.port # NoPort}
Met(rows) == DestinationsOf(rows) \cap Unicast
TargetsTrue(m) ==
  /\ IsFiniteSet(DOMAIN m.portsByDestination)
  /\ \A d \in DOMAIN m.portsByDestination :
       /\ m.portsByDestination[d] \subseteq PortsOf(RowsTo(m.rows, d))
       /\ Room(m.portsByDestination[d]) =>
            /\ m.portsByDestination[d] = PortsOf(RowsTo(m.rows, d))
            /\ m.packetsByDestination[d] = Packets(RowsTo(m.rows, d))
  /\ Room(DOMAIN m.portsByDestination) =>
       \A d \in Destinations \ DOMAIN m.portsByDestination : RowsTo(m.rows, d) = {}
CountsTrue(m) ==
  /\ IsFiniteSet(m.rows) /\ m.packets = Packets(m.rows)
  /\ m.timestamp \in {r.t : r \in m.rows} \cup {NoTime}
  /\ \A r \in m.rows : r.t <= m.timestamp
  /\ m.dstIPs \subseteq Met(m.rows) /\ (Room(m.dstIPs) => m.dstIPs = Met(m.rows))
  /\ TargetsTrue(m)
(* Rows are not saved for a bucket before their minute.                    *)
StoredSound ==
  \A e \in stored : /\ e.row \in Rows /\ e.stamp \in Minutes /\ e.bucket \in Minutes
                      /\ e.row.t <= e.stamp /\ e.stamp <= e.bucket
(* And the rows of a device are no longer in the batch.                    *)
FindingsInv ==
  /\ StoredSound
  /\ \A ip \in DOMAIN metrics : CountsTrue(metrics[ip]) /\ metrics[ip].rows \cap batch = {}
  /\ FindingsTrue

(* The packets of rows are a sum.                                          *)
LEMMA PacketsAreWeighed ==
  ASSUME NEW rows, IsFiniteSet(rows), NEW w, \A r \in rows : w[r] = r.packets
  PROVE  Packets(rows) = Weighed(w, rows)
<1>1. Packets(rows) =
        (CHOOSE f : f = [s \in SUBSET rows |->
                           IF s = {} THEN 0 ELSE Pick(s).packets + f[s \ {Pick(s)}]])[rows]
  BY Zenon DEF Packets, MapThenSumSet, MapThenFoldSet, Pick
<1>2. ASSUME NEW f
      PROVE  Adds(f, w, rows) <=>
               f = [s \in SUBSET rows |-> IF s = {} THEN 0 ELSE Pick(s).packets + f[s \ {Pick(s)}]]
  <2>1. \A s \in SUBSET rows : s # {} => w[Pick(s)] = Pick(s).packets
    BY Picked
  <2>2. \A s \in SUBSET rows :
          (IF s = {} THEN 0 ELSE w[Pick(s)] + f[s \ {Pick(s)}])
            = (IF s = {} THEN 0 ELSE Pick(s).packets + f[s \ {Pick(s)}])
    BY <2>1
  <2>3. [s \in SUBSET rows |-> IF s = {} THEN 0 ELSE w[Pick(s)] + f[s \ {Pick(s)}]]
          = [s \in SUBSET rows |-> IF s = {} THEN 0 ELSE Pick(s).packets + f[s \ {Pick(s)}]]
    BY <2>2
  <2> QED BY <2>3 DEF Adds
<1>3. PICK g : g = CHOOSE f : f = [s \in SUBSET rows |->
                           IF s = {} THEN 0 ELSE Pick(s).packets + f[s \ {Pick(s)}]]
  OBVIOUS
<1>4. PICK it : Adds(it, w, rows)
  BY AddsExists
<1>5. it = [s \in SUBSET rows |-> IF s = {} THEN 0 ELSE Pick(s).packets + it[s \ {Pick(s)}]]
  BY <1>2, <1>4
<1>6. g = [s \in SUBSET rows |-> IF s = {} THEN 0 ELSE Pick(s).packets + g[s \ {Pick(s)}]]
  BY <1>3, <1>5
<1>7. Adds(g, w, rows)
  BY <1>2, <1>6
<1>8. Weighed(w, rows) = g[rows]
  BY <1>7, WeighedAdds
<1> QED BY <1>1, <1>3, <1>8

(* Rows that are no rows have no packets, and a row more has its packets   *)
(* more.                                                                   *)
LEMMA PacketsOfRows ==
  ASSUME NEW rows \in SUBSET Rows, IsFiniteSet(rows)
  PROVE  /\ Packets(rows) \in Nat /\ (rows = {} => Packets(rows) = 0)
         /\ \A f \in Rows \ rows : Packets(rows \cup {f}) = Packets(rows) + f.packets
<1>1. PICK w : w = [r \in Rows |-> r.packets]
  OBVIOUS
<1>2. \A r \in Rows : w[r] = r.packets /\ w[r] \in Nat
  BY <1>1, RowFields
<1>3. Packets(rows) = Weighed(w, rows)
  BY <1>2, PacketsAreWeighed
<1>4. Weighed(w, rows) \in Nat /\ (rows = {} => Weighed(w, rows) = 0)
  BY <1>2, SumIsNumber, SumOfNone
<1>5. ASSUME NEW f \in Rows \ rows PROVE Packets(rows \cup {f}) = Packets(rows) + f.packets
  <2>1. PICK more : more = rows \cup {f}
    OBVIOUS
  <2>2. more \in SUBSET Rows /\ IsFiniteSet(more)
    BY <2>1, FS_AddElement
  <2>3. Packets(more) = Weighed(w, more)
    BY <1>2, <2>2, PacketsAreWeighed
  <2>4. Weighed(w, more) = Weighed(w, rows) + w[f]
    BY <1>2, <2>1, SumMore
  <2> QED BY <1>2, <1>3, <2>1, <2>3, <2>4
<1> QED BY <1>3, <1>4, <1>5

(* Whether a row is counted for its target.                                *)
Targeted(m, f) == f.port # NoPort /\ CountsForTarget(m, f)
(* What a row changes in the metrics of its device.                        *)
LEMMA RowIsAdded ==
  ASSUME NEW m, SoundMetrics(m), NEW f
  PROVE  /\ AddRow(m, f).rows = m.rows \cup {f}
         /\ AddRow(m, f).packets = m.packets + f.packets
         /\ AddRow(m, f).timestamp = Later(f.t, m.timestamp)
         /\ AddRow(m, f).dstIPs = IF f.dst \in Unicast /\ Room(m.dstIPs)
                                  THEN m.dstIPs \cup {f.dst} ELSE m.dstIPs
         /\ AddRow(m, f).portsByDestination =
              IF Targeted(m, f)
              THEN With(m.portsByDestination, f.dst, Entry(m.portsByDestination, f.dst, {}) \cup {f.port})
              ELSE m.portsByDestination
         /\ AddRow(m, f).packetsByDestination =
              IF Targeted(m, f)
              THEN With(m.packetsByDestination, f.dst, Entry(m.packetsByDestination, f.dst, 0) + f.packets)
              ELSE m.packetsByDestination
<1>1. PICK a : a = AddVolume(m, f)
  OBVIOUS
<1>2. /\ a = [x \in MetricFields |-> a[x]]
      /\ a.rows = m.rows \cup {f} /\ a.packets = m.packets + f.packets
      /\ a.timestamp = Later(f.t, m.timestamp) /\ a.dstIPs = m.dstIPs
      /\ a.portsByDestination = m.portsByDestination
      /\ a.packetsByDestination = m.packetsByDestination
  <2>1. m = [x \in MetricFields |-> m[x]]
    BY DEF SoundMetrics
  <2> QED BY <1>1, <2>1, FieldsOfMetrics DEF AddVolume, PacketsOf
<1>3. PICK b : b = AddDestination(a, f)
  OBVIOUS
<1>4. /\ b = [x \in MetricFields |-> b[x]]
      /\ b.rows = a.rows /\ b.packets = a.packets /\ b.timestamp = a.timestamp
      /\ b.dstIPs = IF f.dst \in Unicast /\ Room(a.dstIPs) THEN a.dstIPs \cup {f.dst} ELSE a.dstIPs
      /\ b.portsByDestination = a.portsByDestination
      /\ b.packetsByDestination = a.packetsByDestination
  <2>1. CASE f.dst \notin Unicast
    BY <1>2, <1>3, <2>1 DEF AddDestination
  <2>2. CASE f.dst \in Unicast /\ Room(a.dstIPs)
    <3>1. b = [a EXCEPT !.dstIPs = @ \cup {f.dst}]
      BY <1>3, <2>2 DEF AddDestination
    <3> QED BY <1>2, <2>2, <3>1, FieldsOfMetrics
  <2>3. CASE f.dst \in Unicast /\ ~Room(a.dstIPs)
    <3>1. PICK cut : b = [a EXCEPT !.dstIPsTruncated = cut]
      BY <1>3, <2>3 DEF AddDestination
    <3> QED BY <1>2, <2>3, <3>1, FieldsOfMetrics
  <2> QED BY <2>1, <2>2, <2>3
<1>5. PICK c : c = AddPeer(b, f)
  OBVIOUS
<1>6. /\ c = [x \in MetricFields |-> c[x]]
      /\ c.rows = b.rows /\ c.packets = b.packets /\ c.timestamp = b.timestamp
      /\ c.dstIPs = b.dstIPs /\ c.portsByDestination = b.portsByDestination
      /\ c.packetsByDestination = b.packetsByDestination
  <2>1. c = b \/ \E ips : c = [b EXCEPT !.internalDstIPs = ips]
    BY <1>5 DEF AddPeer
  <2> QED BY <1>4, <2>1, FieldsOfMetrics
<1>7. PICK d : d = AddPort(c, f)
  OBVIOUS
<1>8. /\ d = [x \in MetricFields |-> d[x]]
      /\ d.rows = c.rows /\ d.packets = c.packets /\ d.timestamp = c.timestamp
      /\ d.dstIPs = c.dstIPs /\ d.portsByDestination = c.portsByDestination
      /\ d.packetsByDestination = c.packetsByDestination
  <2>1. PICK ports, ips : d = [c EXCEPT !.dstPorts = ports, !.dstIPByPort = ips]
    BY <1>7 DEF AddPort
  <2> QED BY <1>6, <2>1, FieldsOfMetrics
<1>9. PICK e : e = AddTarget(d, f)
  OBVIOUS
<1>10. /\ e.rows = d.rows /\ e.packets = d.packets /\ e.timestamp = d.timestamp
       /\ e.dstIPs = d.dstIPs
       /\ e.portsByDestination =
            IF CountsForTarget(d, f)
            THEN With(d.portsByDestination, f.dst, Entry(d.portsByDestination, f.dst, {}) \cup {f.port})
            ELSE d.portsByDestination
       /\ e.packetsByDestination =
            IF CountsForTarget(d, f)
            THEN With(d.packetsByDestination, f.dst, Entry(d.packetsByDestination, f.dst, 0) + f.packets)
            ELSE d.packetsByDestination
  <2>1. CASE ~CountsForTarget(d, f)
    BY <1>9, <2>1 DEF AddTarget
  <2>2. CASE CountsForTarget(d, f)
    <3>1. e = [d EXCEPT
                 !.portsByDestination = With(@, f.dst, Entry(@, f.dst, {}) \cup {f.port}),
                 !.packetsByDestination = With(@, f.dst, Entry(@, f.dst, 0) + f.packets)]
      BY <1>9, <2>2 DEF AddTarget
    <3> QED BY <1>8, <2>2, <3>1, FieldsOfMetrics
  <2> QED BY <2>1, <2>2
<1>11. CountsForTarget(d, f) <=> CountsForTarget(m, f)
  BY <1>2, <1>4, <1>6, <1>8 DEF CountsForTarget
<1>12. AddRow(m, f) = IF f.port = NoPort THEN c ELSE e
  BY <1>1, <1>3, <1>5, <1>7, <1>9 DEF AddRow
<1>13. CASE f.port = NoPort
  BY <1>2, <1>4, <1>6, <1>12, <1>13 DEF Targeted
<1>14. CASE f.port # NoPort
  <2>1. Targeted(m, f) <=> CountsForTarget(d, f)
    BY <1>11, <1>14 DEF Targeted
  <2>2. /\ d.rows = m.rows \cup {f} /\ d.packets = m.packets + f.packets
        /\ d.timestamp = Later(f.t, m.timestamp)
        /\ d.dstIPs = IF f.dst \in Unicast /\ Room(m.dstIPs)
                      THEN m.dstIPs \cup {f.dst} ELSE m.dstIPs
        /\ d.portsByDestination = m.portsByDestination
        /\ d.packetsByDestination = m.packetsByDestination
    BY <1>2, <1>4, <1>6, <1>8
  <2>3. AddRow(m, f) = e
    BY <1>12, <1>14
  <2> QED BY <1>10, <2>1, <2>2, <2>3
<1> QED BY <1>13, <1>14

(* The rows of one target, and the ports and destinations of rows, when    *)
(* there is a row more.                                                    *)
LEMMA MoreRows ==
  ASSUME NEW rows \in SUBSET Rows, NEW f \in Rows
  PROVE  /\ Met(rows \cup {f}) = IF f.dst \in Unicast THEN Met(rows) \cup {f.dst} ELSE Met(rows)
         /\ f.port # NoPort => RowsTo(rows \cup {f}, f.dst) = RowsTo(rows, f.dst) \cup {f}
         /\ \A R \in SUBSET Rows : f.port # NoPort => PortsOf(R \cup {f}) = PortsOf(R) \cup {f.port}
<1>1. Met(rows \cup {f}) = IF f.dst \in Unicast THEN Met(rows) \cup {f.dst} ELSE Met(rows)
  BY DEF Met, DestinationsOf
<1>2. ASSUME f.port # NoPort PROVE RowsTo(rows \cup {f}, f.dst) = RowsTo(rows, f.dst) \cup {f}
  BY <1>2 DEF RowsTo
<1>3. ASSUME NEW R \in SUBSET Rows, f.port # NoPort
      PROVE  PortsOf(R \cup {f}) = PortsOf(R) \cup {f.port}
  BY <1>3 DEF PortsOf
<1> QED BY <1>1, <1>2, <1>3

(* A set that has room had room before it grew.                            *)
LEMMA RoomBefore ==
  ASSUME NEW S, NEW x, IsFiniteSet(S), Room(S \cup {x})
  PROVE  Room(S)
<1>1. Cardinality(S) \in Nat /\ Cardinality(S \cup {x}) \in Nat
  BY FS_AddElement, FS_CardinalityType
<1>2. Cardinality(S) <= Cardinality(S \cup {x})
  BY <1>1, FS_AddElement
<1> QED BY <1>1, <1>2, MetricsAssumption DEF Room

(* The targets stay true when a row comes.                                 *)
LEMMA TargetsStayTrue ==
  ASSUME NEW m, SoundMetrics(m), CountsTrue(m), NEW f \in Rows \ m.rows
  PROVE  TargetsTrue(AddRow(m, f))
<1>1. PICK q : q = AddRow(m, f)
  OBVIOUS
<1>2. m.rows \in SUBSET Rows /\ IsFiniteSet(m.rows) /\ TargetsTrue(m)
  BY DEF SoundMetrics, CountsTrue
<1>3. q.rows = m.rows \cup {f}
  BY <1>1, RowIsAdded
<1>4. PICK P : P = m.portsByDestination
  OBVIOUS
<1>5. PICK N : N = m.packetsByDestination
  OBVIOUS
<1>6. DOMAIN P \subseteq Destinations /\ DOMAIN N = DOMAIN P /\ IsFiniteSet(DOMAIN P)
  BY <1>2, <1>4, <1>5 DEF SoundMetrics, TargetsTrue
<1>7. /\ \A d \in DOMAIN P :
           /\ P[d] \subseteq PortsOf(RowsTo(m.rows, d))
           /\ Room(P[d]) => P[d] = PortsOf(RowsTo(m.rows, d)) /\ N[d] = Packets(RowsTo(m.rows, d))
      /\ Room(DOMAIN P) => \A d \in Destinations \ DOMAIN P : RowsTo(m.rows, d) = {}
  BY <1>2, <1>4, <1>5 DEF TargetsTrue
<1>8. \A d : RowsTo(m.rows, d) \in SUBSET Rows /\ IsFiniteSet(RowsTo(m.rows, d))
  <2>1. \A d : RowsTo(m.rows, d) \in SUBSET m.rows
    BY DEF RowsTo
  <2> QED BY <1>2, <2>1, FS_Subset
<1>9. \A d : d # f.dst \/ f.port = NoPort => RowsTo(q.rows, d) = RowsTo(m.rows, d)
  BY <1>3 DEF RowsTo
<1>10. /\ f.port # NoPort => RowsTo(q.rows, f.dst) = RowsTo(m.rows, f.dst) \cup {f}
       /\ f.port # NoPort => PortsOf(RowsTo(q.rows, f.dst)) = PortsOf(RowsTo(m.rows, f.dst)) \cup {f.port}
  <2>1. f.port # NoPort => RowsTo(m.rows \cup {f}, f.dst) = RowsTo(m.rows, f.dst) \cup {f}
    BY <1>2, MoreRows
  <2>2. PICK R \in SUBSET Rows : R = RowsTo(m.rows, f.dst)
    BY <1>8
  <2>3. f.port # NoPort => PortsOf(R \cup {f}) = PortsOf(R) \cup {f.port}
    BY <1>2, MoreRows
  <2> QED BY <1>3, <2>1, <2>2, <2>3
<1>11. CASE ~Targeted(m, f)
  <2>1. q.portsByDestination = P /\ q.packetsByDestination = N
    BY <1>1, <1>4, <1>5, <1>11, RowIsAdded
  <2>2. f.port # NoPort => \/ f.dst \in DOMAIN P /\ ~Room(P[f.dst])
                           \/ f.dst \notin DOMAIN P /\ ~Room(DOMAIN P)
                           \/ f.dst \notin DOMAIN P /\ ~Room({})
    BY <1>4, <1>11 DEF Targeted, CountsForTarget, Entry
  <2>3. Room({})
    BY FS_EmptySet, MetricsAssumption DEF Room
  <2>4. ASSUME NEW d \in DOMAIN P
        PROVE  /\ P[d] \subseteq PortsOf(RowsTo(q.rows, d))
               /\ Room(P[d]) => P[d] = PortsOf(RowsTo(q.rows, d)) /\ N[d] = Packets(RowsTo(q.rows, d))
    <3>1. CASE d # f.dst \/ f.port = NoPort
      BY <1>7, <1>9, <3>1
    <3>2. CASE d = f.dst /\ f.port # NoPort
      BY <1>7, <1>10, <2>2, <3>2
    <3> QED BY <3>1, <3>2
  <2>5. ASSUME Room(DOMAIN P), NEW d \in Destinations \ DOMAIN P
        PROVE  RowsTo(q.rows, d) = {}
    <3>1. d # f.dst \/ f.port = NoPort
      BY <2>2, <2>3, <2>5
    <3> QED BY <1>7, <1>9, <2>5, <3>1
  <2> QED BY <1>1, <1>6, <2>1, <2>4, <2>5 DEF TargetsTrue
<1>12. CASE Targeted(m, f)
  <2>1. PICK ports : ports = Entry(P, f.dst, {}) \cup {f.port}
    OBVIOUS
  <2>2. PICK packets : packets = Entry(N, f.dst, 0) + f.packets
    OBVIOUS
  <2>3. PICK P2 : P2 = With(P, f.dst, ports)
    OBVIOUS
  <2>4. PICK N2 : N2 = With(N, f.dst, packets)
    OBVIOUS
  <2>5. q.portsByDestination = P2 /\ q.packetsByDestination = N2
    BY <1>1, <1>4, <1>5, <1>12, <2>1, <2>2, <2>3, <2>4, RowIsAdded
  <2>6. /\ DOMAIN P2 = DOMAIN P \cup {f.dst} /\ P2[f.dst] = ports /\ N2[f.dst] = packets
        /\ \A d \in DOMAIN P : d # f.dst => P2[d] = P[d] /\ N2[d] = N[d]
    BY <1>6, <2>3, <2>4 DEF With
  <2>7. /\ f.port # NoPort
        /\ f.dst \in DOMAIN P \/ Room(DOMAIN P)
        /\ Room(Entry(P, f.dst, {}))
    BY <1>4, <1>12 DEF Targeted, CountsForTarget
  <2>8. /\ Entry(P, f.dst, {}) = PortsOf(RowsTo(m.rows, f.dst))
        /\ Entry(N, f.dst, 0) = Packets(RowsTo(m.rows, f.dst))
    <3>1. CASE f.dst \in DOMAIN P
      BY <1>6, <1>7, <2>7, <3>1 DEF Entry
    <3>2. CASE f.dst \notin DOMAIN P
      <4>1. RowsTo(m.rows, f.dst) = {}
        BY <1>7, <2>7, <3>2, RowFields
      <4>2. PortsOf({}) = {}
        BY DEF PortsOf
      <4>3. Packets(RowsTo(m.rows, f.dst)) = 0
        BY <1>8, <4>1, PacketsOfRows
      <4> QED BY <1>6, <3>2, <4>1, <4>2, <4>3 DEF Entry
    <3> QED BY <3>1, <3>2
  <2>9. ports = PortsOf(RowsTo(q.rows, f.dst))
    BY <1>10, <2>1, <2>7, <2>8
  <2>10. packets = Packets(RowsTo(q.rows, f.dst))
    <3>1. f \in Rows \ RowsTo(m.rows, f.dst)
      BY DEF RowsTo
    <3>2. Packets(RowsTo(m.rows, f.dst) \cup {f}) = Packets(RowsTo(m.rows, f.dst)) + f.packets
      BY <1>8, <3>1, PacketsOfRows
    <3> QED BY <1>10, <2>2, <2>7, <2>8, <3>2
  <2>11. ASSUME NEW d \in DOMAIN P2
         PROVE  /\ P2[d] \subseteq PortsOf(RowsTo(q.rows, d))
                /\ Room(P2[d]) => P2[d] = PortsOf(RowsTo(q.rows, d)) /\ N2[d] = Packets(RowsTo(q.rows, d))
    <3>1. CASE d = f.dst
      BY <2>6, <2>9, <2>10, <3>1
    <3>2. CASE d # f.dst
      BY <1>7, <1>9, <2>6, <3>2
    <3> QED BY <3>1, <3>2
  <2>12. ASSUME Room(DOMAIN P2), NEW d \in Destinations \ DOMAIN P2
         PROVE  RowsTo(q.rows, d) = {}
    <3>1. Room(DOMAIN P)
      BY <1>6, <2>6, <2>12, RoomBefore
    <3>2. d # f.dst /\ d \in Destinations \ DOMAIN P
      BY <2>6, <2>12
    <3> QED BY <1>7, <1>9, <3>1, <3>2
  <2>13. IsFiniteSet(DOMAIN P2)
    BY <1>6, <2>6, FS_AddElement
  <2> QED BY <1>1, <2>5, <2>11, <2>12, <2>13 DEF TargetsTrue
<1> QED BY <1>11, <1>12

(* So do the metrics.                                                      *)
LEMMA CountsStayTrue ==
  ASSUME NEW m, SoundMetrics(m), CountsTrue(m), m.timestamp \in Minutes \cup {NoTime},
         NEW f \in Rows \ m.rows
  PROVE  CountsTrue(AddRow(m, f))
<1>1. PICK q : q = AddRow(m, f)
  OBVIOUS
<1>2. /\ m.rows \in SUBSET Rows /\ IsFiniteSet(m.rows) /\ IsFiniteSet(m.dstIPs)
      /\ m.packets = Packets(m.rows)
      /\ m.timestamp \in {r.t : r \in m.rows} \cup {NoTime}
      /\ \A r \in m.rows : r.t <= m.timestamp
      /\ m.dstIPs \subseteq Met(m.rows) /\ (Room(m.dstIPs) => m.dstIPs = Met(m.rows))
  BY DEF SoundMetrics, CountsTrue
<1>3. /\ q.rows = m.rows \cup {f} /\ q.packets = m.packets + f.packets
      /\ q.timestamp = Later(f.t, m.timestamp)
      /\ q.dstIPs = IF f.dst \in Unicast /\ Room(m.dstIPs) THEN m.dstIPs \cup {f.dst} ELSE m.dstIPs
  BY <1>1, RowIsAdded
<1>4. IsFiniteSet(q.rows) /\ q.packets = Packets(q.rows)
  BY <1>2, <1>3, FS_AddElement, PacketsOfRows
<1>5. \A r \in q.rows : r \in Rows /\ r.t \in Nat
  BY <1>2, <1>3, RowFields, TableAssumption
<1>6. PICK t \in Nat : t = m.timestamp
  BY TableAssumption DEF NoTime
<1>7. q.timestamp = IF f.t > t THEN f.t ELSE t
  BY <1>3, <1>6 DEF Later
<1>8. /\ q.timestamp \in {r.t : r \in q.rows} \cup {NoTime}
      /\ \A r \in q.rows : r.t <= q.timestamp
  BY <1>2, <1>3, <1>5, <1>6, <1>7
<1>9. Met(q.rows) = IF f.dst \in Unicast THEN Met(m.rows) \cup {f.dst} ELSE Met(m.rows)
  BY <1>2, <1>3, MoreRows
<1>10. q.dstIPs \subseteq Met(q.rows)
  BY <1>2, <1>3, <1>9
<1>11. ASSUME Room(q.dstIPs) PROVE q.dstIPs = Met(q.rows)
  <2>1. Room(m.dstIPs)
    BY <1>2, <1>3, <1>11, RoomBefore
  <2> QED BY <1>2, <1>3, <1>9, <2>1
<1>12. TargetsTrue(q)
  BY <1>1, TargetsStayTrue
<1> QED BY <1>1, <1>4, <1>8, <1>10, <1>11, <1>12 DEF CountsTrue

(* Fresh metrics are true of no rows.                                      *)
LEMMA NoMetricsAreTrue == CountsTrue(NoMetrics) /\ NoMetrics.rows = {}
<1>1. PICK m : m = NoMetrics
  OBVIOUS
<1>2. /\ m.packets = 0 /\ m.dstIPs = {} /\ m.rows = {} /\ m.timestamp = NoTime
      /\ m.portsByDestination = <<>>
  BY <1>1 DEF NoMetrics
<1>3. DOMAIN m.portsByDestination = {}
  BY <1>2
<1>4. IsFiniteSet(m.rows) /\ m.packets = Packets(m.rows)
  BY <1>2, FS_EmptySet, PacketsOfRows
<1>5. m.dstIPs = Met(m.rows)
  BY <1>2 DEF Met, DestinationsOf
<1>6. TargetsTrue(m)
  BY <1>2, <1>3, FS_EmptySet DEF TargetsTrue, RowsTo
<1> QED BY <1>1, <1>2, <1>4, <1>5, <1>6 DEF CountsTrue

-------------------------------------------------------------------------------
(* The threshold of the destinations is never below the fixed one.         *)
LEMMA LimitIsHigh ==
  ASSUME NEW ip
  PROVE  DestinationLimit(ip) \in Nat /\ DestinationLimit(ip) >= FanoutMin
<1>1. FanoutMin \in Nat /\ FanoutMax \in Nat /\ FanoutMax >= FanoutMin
  BY MetricsAssumption
<1>2. CASE ip \notin DOMAIN cachedBaselines
  BY <1>1, <1>2 DEF DestinationLimit
<1>3. CASE ip \in DOMAIN cachedBaselines
  <2>1. PICK L : L = {FanoutMax} \cup {n \in FanoutMin..FanoutMax : Reaches(n, cachedBaselines[ip].peers)}
    OBVIOUS
  <2>2. L \in SUBSET Nat /\ L # {} /\ \A n \in L : n >= FanoutMin
    BY <1>1, <2>1
  <2>3. Min(L) \in L
    BY <2>2, Least
  <2>4. DestinationLimit(ip) = Min(L)
    BY <1>3, <2>1 DEF DestinationLimit
  <2> QED BY <2>2, <2>3, <2>4
<1> QED BY <1>2, <1>3

(* Sets made of finitely many rows are finite.                             *)
LEMMA RowsAreFinite ==
  ASSUME NEW rows, IsFiniteSet(rows)
  PROVE  IsFiniteSet(Met(rows)) /\ IsFiniteSet(PortsOf(rows)) /\ IsFiniteSet({r.t : r \in rows})
<1>1. IsFiniteSet({r.dst : r \in rows}) /\ IsFiniteSet({r.port : r \in rows}) /\ IsFiniteSet({r.t : r \in rows})
  <2>1. IsFiniteSet({r.dst : r \in rows})
    <3>1. PICK T : T = {r.dst : r \in rows}
      OBVIOUS
    <3>2. PICK f : f = [r \in rows |-> r.dst]
      OBVIOUS
    <3>3. f \in [rows -> T] /\ \A y \in T : \E r \in rows : f[r] = y
      BY <3>1, <3>2
    <3> QED BY <3>1, <3>3, ImageIsFinite
  <2>2. IsFiniteSet({r.port : r \in rows})
    <3>1. PICK T : T = {r.port : r \in rows}
      OBVIOUS
    <3>2. PICK f : f = [r \in rows |-> r.port]
      OBVIOUS
    <3>3. f \in [rows -> T] /\ \A y \in T : \E r \in rows : f[r] = y
      BY <3>1, <3>2
    <3> QED BY <3>1, <3>3, ImageIsFinite
  <2>3. IsFiniteSet({r.t : r \in rows})
    <3>1. PICK T : T = {r.t : r \in rows}
      OBVIOUS
    <3>2. PICK f : f = [r \in rows |-> r.t]
      OBVIOUS
    <3>3. f \in [rows -> T] /\ \A y \in T : \E r \in rows : f[r] = y
      BY <3>1, <3>2
    <3> QED BY <3>1, <3>3, ImageIsFinite
  <2> QED BY <2>1, <2>2, <2>3
<1>2. Met(rows) \in SUBSET {r.dst : r \in rows} /\ PortsOf(rows) \in SUBSET {r.port : r \in rows}
  BY DEF Met, DestinationsOf, PortsOf
<1> QED BY <1>1, <1>2, FS_Subset

(* What the scan detectors find in true metrics is true.                   *)
LEMMA ScansAreTrue ==
  ASSUME NEW ip \in Devices, NEW m, SoundMetrics(m), CountsTrue(m), NEW answered \in BOOLEAN,
         NEW v, v.found = FoundIn(ip, m, answered), v.rows = m.rows, v.limit = DestinationLimit(ip)
  PROVE  ScansTrue(v)
<1>1. PICK n : n = Cardinality(Met(v.rows))
  OBVIOUS
<1>2. PICK c : c = Cardinality(m.dstIPs)
  OBVIOUS
<1>3. /\ m.rows \in SUBSET Rows /\ IsFiniteSet(m.rows) /\ m.packets = Packets(m.rows)
      /\ m.dstIPs \in SUBSET Met(m.rows) /\ (Room(m.dstIPs) => m.dstIPs = Met(m.rows))
      /\ c <= MaxCardinality /\ TargetsTrue(m)
  BY <1>2 DEF SoundMetrics, CountsTrue
<1>4. c \in Nat /\ n \in Nat /\ c <= n /\ (c = n => m.dstIPs = Met(m.rows))
  BY <1>1, <1>2, <1>3, RowsAreFinite, PartCounts
<1>5. v.limit \in Nat /\ v.limit >= FanoutMin /\ FanoutMin \in Nat /\ MaxDensity \in Nat
      /\ MaxCardinality \in Nat /\ PortMin \in Nat /\ Packets(m.rows) \in Nat
  BY <1>3, LimitIsHigh, MetricsAssumption, PacketsOfRows
<1>6. ASSUME NEW a \in v.found, a.type = "DESTINATION_FANOUT"
      PROVE  n >= FanoutMin /\ LowDensity(n, Packets(v.rows))
  <2>1. DestinationFanout(m, v.limit)
    BY <1>6 DEF FoundIn, Alert
  <2>2. c >= v.limit /\ m.packets <= c * MaxDensity
    BY <1>2, <2>1 DEF DestinationFanout, LowDensity
  <2>3. c * MaxDensity <= n * MaxDensity /\ c * MaxDensity \in Nat /\ n * MaxDensity \in Nat
    BY <1>4, <1>5, Products
  <2> QED BY <1>3, <1>4, <1>5, <2>2, <2>3 DEF LowDensity
<1>7. ASSUME v.limit <= n, n <= MaxCardinality, LowDensity(n, Packets(v.rows))
      PROVE  \E a \in v.found : a.type = "DESTINATION_FANOUT"
  <2>1. c = n
    <3>1. CASE Room(m.dstIPs)
      BY <1>1, <1>2, <1>3, <3>1
    <3>2. CASE ~Room(m.dstIPs)
      BY <1>2, <1>3, <1>4, <1>5, <1>7, <3>2 DEF Room
    <3> QED BY <3>1, <3>2
  <2>2. DestinationFanout(m, DestinationLimit(ip))
    BY <1>2, <1>3, <1>7, <2>1 DEF DestinationFanout
  <2>3. Alert(ip, "DESTINATION_FANOUT", NoPeer) \in v.found
    BY <2>2 DEF FoundIn
  <2> QED BY <2>3 DEF Alert
<1>8. ASSUME NEW a \in v.found, a.type = "PORT_FANOUT", NEW To, To = RowsTo(v.rows, a.about)
      PROVE  /\ Cardinality(PortsOf(To)) >= PortMin
             /\ Cardinality(PortsOf(To)) < MaxCardinality => LowDensity(Cardinality(PortsOf(To)), Packets(To))
  <2>1. PICK d \in PortFanouts(m) : a.about = d
    BY <1>8 DEF FoundIn, Alert
  <2>2. PICK P : P = m.portsByDestination[d]
    OBVIOUS
  <2>3. /\ d \in DOMAIN m.portsByDestination
        /\ Cardinality(P) >= PortMin /\ LowDensity(Cardinality(P), m.packetsByDestination[d])
    BY <2>1, <2>2 DEF PortFanouts, HighestPortFanout
  <2>4. P \in SUBSET PortsOf(To) /\ (Room(P) => P = PortsOf(To) /\ m.packetsByDestination[d] = Packets(To))
    BY <1>3, <1>8, <2>1, <2>2, <2>3 DEF TargetsTrue
  <2>5. IsFiniteSet(PortsOf(To))
    <3>1. To \in SUBSET m.rows
      BY <1>8 DEF RowsTo
    <3> QED BY <1>3, <3>1, FS_Subset, RowsAreFinite
  <2>6. /\ Cardinality(P) \in Nat /\ Cardinality(PortsOf(To)) \in Nat
        /\ Cardinality(P) <= Cardinality(PortsOf(To))
    BY <2>4, <2>5, PartCounts
  <2> QED BY <1>5, <2>3, <2>4, <2>6 DEF Room
<1>9. Cardinality(DestinationsOf(v.rows) \cap Unicast) = n
  BY <1>1 DEF Met
<1>10. \A d : {r \in v.rows : r.dst = d /\ r.port # NoPort} = RowsTo(v.rows, d)
  BY DEF RowsTo
<1> QED BY <1>6, <1>7, <1>8, <1>9, <1>10 DEF ScansTrue

(* A minute before another is not of a later day than the one just before. *)
LEMMA DatesGrow ==
  ASSUME NEW t \in Nat, NEW end \in Nat, t < end
  PROVE  DateOf(t) <= DateOf(end - 1)
<1>1. DayLength \in Nat \ {0}
  BY BaselineAssumption
<1> QED BY <1>1, SMT DEF DateOf

(* So are the new destinations found in true metrics, by lookups of a      *)
(* history that already holds their rows.                                  *)
LEMMA DestinationsAreTrue ==
  ASSUME NEW ip \in Devices, NEW m, SoundMetrics(m), CountsTrue(m), NEW answered \in BOOLEAN,
         NEW v, v.found = FoundIn(ip, m, answered), v.rows = m.rows,
         v.before = {e \in stored : e.row.src = ip /\ e.row \notin m.rows},
         StoredSound, m.timestamp \in Minutes, v.answered = answered, v.minHistory = controls.minHistory
  PROVE  NewDestinationsTrue(v)
<1>1. /\ m.rows \in SUBSET Rows /\ IsFiniteSet(m.rows) /\ IsFiniteSet(m.dstIPs)
      /\ m.timestamp \in {r.t : r \in m.rows} \cup {NoTime}
      /\ \A r \in m.rows : r.t <= m.timestamp
      /\ m.dstIPs \in SUBSET Met(m.rows) /\ (Room(m.dstIPs) => m.dstIPs = Met(m.rows))
      /\ Cardinality(m.dstIPs) <= MaxCardinality
  BY DEF SoundMetrics, CountsTrue
<1>2. PICK newest : newest = m.timestamp
  OBVIOUS
<1>3. PICK times : times = {r.t : r \in v.rows} \cup {NoTime}
  OBVIOUS
<1>4. times \in SUBSET Nat
  <2>1. \A r \in v.rows : r.t \in Nat
    BY <1>1, RowFields, TableAssumption
  <2>2. NoTime \in Nat
    BY DEF NoTime
  <2> QED BY <1>3, <2>1, <2>2
<1>5. Max(times) = newest
  <2>1. newest \in times /\ newest \in Nat
    BY <1>1, <1>2, <1>3, <1>4
  <2>2. \A t \in times : t <= newest
    BY <1>1, <1>2, <1>3, <2>1 DEF NoTime
  <2> QED BY <1>4, <2>1, <2>2, Largest
<1>6. PICK sure : sure = {e \in v.before : e.bucket < newest /\ e.row.t + Lookback >= newest}
  OBVIOUS
<1>7. PICK visible :
        visible = {e \in v.before : e.stamp < newest /\ e.stamp + Lookback >= newest
                                   /\ ShardOf(e) <= DateOf(newest - 1)}
  OBVIOUS
<1>8. PICK history : history = History(ip, newest)
  OBVIOUS
<1>a. newest \in Nat /\ Lookback \in Nat
  BY <1>2, TableAssumption, BaselineAssumption
<1>b. ASSUME NEW e \in stored
      PROVE  /\ e.row.t \in Nat /\ e.stamp \in Nat /\ e.bucket \in Nat
             /\ e.row.t <= e.stamp /\ e.stamp <= e.bucket
             /\ e.bucket < newest => ShardOf(e) <= DateOf(newest - 1)
  <2>1. /\ e.row.t \in Nat /\ e.stamp \in Nat /\ e.bucket \in Nat
        /\ e.row.t <= e.stamp /\ e.stamp <= e.bucket
    BY RowFields, TableAssumption DEF StoredSound
  <2>2. ASSUME e.bucket < newest PROVE DateOf(e.bucket) <= DateOf(newest - 1)
    BY <1>a, <2>1, <2>2, DatesGrow
  <2> QED BY <2>1, <2>2 DEF ShardOf
<1>d. sure \subseteq history
  <2>1. ASSUME NEW e \in sure PROVE e \in history
    <3>1. e \in stored /\ e.row.src = ip /\ e.bucket < newest /\ e.row.t + Lookback >= newest
      BY <1>6, <2>1
    <3>2. e.stamp < newest /\ e.stamp + Lookback >= newest /\ ShardOf(e) <= DateOf(newest - 1)
      BY <1>a, <1>b, <3>1
    <3> QED BY <1>8, <3>1, <3>2 DEF History, BeforeEnd
  <2> QED BY <2>1
<1>e. visible \subseteq history
  BY <1>7, <1>8 DEF History, BeforeEnd
<1>9. PICK new : new = NewDestinations(ip, m, controls.minHistory)
  OBVIOUS
<1>10. new = {d \in m.dstIPs \ Peers : Mature(history, controls.minHistory) /\ d \notin DestinationsOf(RowsOf(history))}
  BY <1>2, <1>8, <1>9 DEF NewDestinations
<1>11. PICK reported : reported = {a.about : a \in {x \in v.found : x.type = "NEW_DESTINATION"}}
  OBVIOUS
<1>12. reported = IF answered THEN new ELSE {}
  <2>1. CASE ~answered
    BY <1>11, <2>1 DEF FoundIn, Alert
  <2>2. CASE answered
    <3>1. \A d \in new : Alert(ip, "NEW_DESTINATION", d) \in v.found
      BY <1>9, <2>2 DEF FoundIn
    <3>2. \A d : Alert(ip, "NEW_DESTINATION", d).type = "NEW_DESTINATION" /\ Alert(ip, "NEW_DESTINATION", d).about = d
      BY DEF Alert
    <3>3. \A a \in v.found : a.type = "NEW_DESTINATION" => a.about \in new
      BY <1>9 DEF FoundIn, Alert
    <3>4. reported \subseteq new
      BY <1>11, <3>3
    <3>5. ASSUME NEW d \in new PROVE d \in reported
      <4>1. PICK a \in v.found : a.type = "NEW_DESTINATION" /\ a.about = d
        BY <3>1, <3>2
      <4> QED BY <1>11, <4>1
    <3> QED BY <2>2, <3>4, <3>5
  <2> QED BY <2>1, <2>2
<1>13. PICK met : met = DestinationsOf(v.rows) \cap Unicast
  OBVIOUS
<1>14. met = Met(m.rows)
  BY <1>13 DEF Met
<1>16. reported \subseteq (met \ Peers) \ DestinationsOf(RowsOf(sure))
  <2>1. DestinationsOf(RowsOf(sure)) \subseteq DestinationsOf(RowsOf(history))
    BY <1>d DEF DestinationsOf, RowsOf
  <2> QED BY <1>1, <1>10, <1>12, <1>14, <2>1
<1>17. ASSUME \A r \in v.rows : r.t = newest, Cardinality(met) <= MaxCardinality, answered
       PROVE  reported = IF Mature(visible, v.minHistory)
                         THEN (met \ Peers) \ DestinationsOf(RowsOf(visible)) ELSE {}
  <2>1. history = visible
    <3>1. ASSUME NEW e \in history PROVE e \in visible
      <4>1. /\ e \in stored /\ e.row.src = ip /\ e.stamp < newest
            /\ e.stamp + Lookback >= newest /\ ShardOf(e) <= DateOf(newest - 1)
        BY <1>8, <3>1 DEF History, BeforeEnd
      <4>2. e.row.t < newest
        BY <1>a, <1>b, <4>1
      <4>3. e.row \notin m.rows
        BY <1>a, <1>17, <4>2
      <4> QED BY <1>7, <4>1, <4>3
    <3> QED BY <1>e, <3>1
  <2>2. m.dstIPs = met
    <3>1. CASE Room(m.dstIPs)
      BY <1>1, <1>14, <3>1
    <3>2. CASE ~Room(m.dstIPs)
      <4>1. IsFiniteSet(met) /\ m.dstIPs \in SUBSET met
        BY <1>1, <1>14, RowsAreFinite
      <4>2. /\ Cardinality(m.dstIPs) \in Nat /\ Cardinality(met) \in Nat /\ MaxCardinality \in Nat
            /\ Cardinality(m.dstIPs) <= Cardinality(met)
            /\ Cardinality(m.dstIPs) = Cardinality(met) => m.dstIPs = met
        BY <4>1, PartCounts, MetricsAssumption
      <4> QED BY <1>17, <3>2, <4>2 DEF Room
    <3> QED BY <3>1, <3>2
  <2> QED BY <1>10, <1>12, <1>17, <2>1, <2>2
<1>18. v.answered = answered
  OBVIOUS
<1> HIDE DEF Mature
<1> QED BY <1>3, <1>5, <1>6, <1>7, <1>11, <1>13, <1>16, <1>17, <1>18 DEF NewDestinationsTrue

-------------------------------------------------------------------------------
(* The metrics of the devices and the verdict are true at the start, and   *)
(* every step keeps them so:                                               *)
LEMMA FindingsStart ==
  ASSUME EngineInit
  PROVE  FindingsInv
<1>1. metrics = <<>> /\ verdict = NoVerdict
  BY DEF EngineInit, MetricsInit
<1>2. DOMAIN metrics = {}
  BY <1>1
<1>3. PICK v : v = verdict
  OBVIOUS
<1>4. v.found = {} /\ v.rows = {} /\ v.limit = FanoutMin /\ v.answered = FALSE
  BY <1>1, <1>3 DEF NoVerdict
<1>5. DestinationsOf(v.rows) \cap Unicast = {}
  BY <1>4 DEF DestinationsOf
<1>6. ~(v.limit <= Cardinality(DestinationsOf(v.rows) \cap Unicast))
  BY <1>4, <1>5, FS_EmptySet, MetricsAssumption
<1>7. ScansTrue(v)
  BY <1>4, <1>6 DEF ScansTrue
<1>8. NewDestinationsTrue(v)
  BY <1>4 DEF NewDestinationsTrue
<1>9. StoredSound
  BY DEF EngineInit, BaselineInit, StoredSound
<1> QED BY <1>2, <1>3, <1>7, <1>8, <1>9 DEF FindingsInv, FindingsTrue

(* A row counted for its device,                                          *)
LEMMA AggregateStaysTrue ==
  ASSUME EngineInv, FindingsInv, NEW f \in batch, Aggregate(f)
  PROVE  FindingsInv'
<1>1. /\ batch \subseteq Rows /\ DOMAIN metrics \subseteq Devices
      /\ \A ip \in DOMAIN metrics : SoundMetrics(metrics[ip]) /\ metrics[ip].timestamp \in Minutes
      /\ \A ip \in DOMAIN metrics : CountsTrue(metrics[ip]) /\ metrics[ip].rows \cap batch = {}
  BY DEF EngineInv, MetricsInv, FindingsInv
<1>2. FindingsTrue' /\ StoredSound'
  BY DEF Aggregate, baselineVars, FindingsInv, FindingsTrue, StoredSound
<1>3. batch' = batch \ {f}
  BY DEF Aggregate, AggregateRow
<1>4. CASE f.src \notin Devices
  <2>1. metrics' = metrics
    BY <1>4 DEF Aggregate, AggregateRow
  <2> QED BY <1>1, <1>2, <1>3, <2>1 DEF FindingsInv
<1>5. CASE f.src \in Devices
  <2>1. PICK ip \in Devices : ip = f.src
    BY <1>5
  <2>2. PICK m : m = Entry(metrics, ip, NoMetrics)
    OBVIOUS
  <2>3. /\ SoundMetrics(m) /\ m.timestamp \in Minutes \cup {NoTime}
        /\ CountsTrue(m) /\ m.rows \cap batch = {}
    <3>1. NoMetrics.timestamp = NoTime
      BY DEF NoMetrics
    <3> QED BY <1>1, <2>2, <3>1, NoMetricsAreSound, NoMetricsAreTrue DEF Entry
  <2>4. PICK n : n = AddRow(m, f)
    OBVIOUS
  <2>5. CountsTrue(n) /\ n.rows = m.rows \cup {f}
    BY <1>1, <2>3, <2>4, CountsStayTrue, RowIsAdded
  <2>6. PICK w : w = metrics'
    OBVIOUS
  <2>7. w = With(metrics, ip, n)
    BY <1>5, <2>1, <2>2, <2>4, <2>6 DEF Aggregate, AggregateRow
  <2>8. /\ DOMAIN w = DOMAIN metrics \cup {ip} /\ w[ip] = n
        /\ \A j \in DOMAIN metrics : j # ip => w[j] = metrics[j]
    BY <2>7 DEF With
  <2>9. \A j \in DOMAIN w : CountsTrue(w[j]) /\ w[j].rows \cap batch' = {}
    BY <1>1, <1>3, <2>3, <2>5, <2>8
  <2> QED BY <1>2, <2>6, <2>9 DEF FindingsInv
<1> QED BY <1>4, <1>5

(* a device analysed,                                                      *)
LEMMA DeviceVerdictTrue ==
  ASSUME EngineInv, FindingsInv, NEW ip \in DOMAIN metrics, AnalyzeDevice(ip)
  PROVE  FindingsInv'
<1>1. PICK m : m = metrics[ip]
  OBVIOUS
<1>2. /\ ip \in Devices /\ SoundMetrics(m) /\ CountsTrue(m) /\ m.timestamp \in Minutes
      /\ StoredSound
  BY <1>1 DEF EngineInv, MetricsInv, FindingsInv
<1>3. PICK answered \in BOOLEAN :
        verdict' = [found |-> FoundIn(ip, m, answered), rows |-> m.rows,
                    before |-> {e \in stored : e.row.src = ip /\ e.row \notin m.rows},
                    limit |-> DestinationLimit(ip), answered |-> answered,
                    minHistory |-> controls.minHistory]
  BY <1>1 DEF AnalyzeDevice
<1>4. PICK v : v = verdict'
  OBVIOUS
<1>5. /\ v.found = FoundIn(ip, m, answered) /\ v.rows = m.rows
      /\ v.before = {e \in stored : e.row.src = ip /\ e.row \notin m.rows}
      /\ v.limit = DestinationLimit(ip) /\ v.answered = answered
      /\ v.minHistory = controls.minHistory
  BY <1>3, <1>4
<1>6. ScansTrue(v)
  BY <1>2, <1>5, ScansAreTrue
<1>7. NewDestinationsTrue(v)
  BY <1>2, <1>5, DestinationsAreTrue
<1>a. stored' = stored
  BY DEF AnalyzeDevice, Analyze, baselineVars
<1>8. FindingsTrue' /\ StoredSound'
  BY <1>2, <1>4, <1>6, <1>7, <1>a
     DEF FindingsTrue, ScansTrue, NewDestinationsTrue, StoredSound
<1>9. metrics' = [d \in DOMAIN metrics \ {ip} |-> metrics[d]] /\ batch' = batch
  BY DEF AnalyzeDevice
<1>10. PICK w : w = metrics'
  OBVIOUS
<1>11. \A d \in DOMAIN w : d \in DOMAIN metrics /\ w[d] = metrics[d]
  BY <1>9, <1>10
<1>12. \A d \in DOMAIN w : CountsTrue(w[d]) /\ w[d].rows \cap batch' = {}
  BY <1>9, <1>11 DEF FindingsInv
<1> QED BY <1>8, <1>10, <1>12 DEF FindingsInv

(* and every other step of the engine.                                     *)
LEMMA FindingsStep ==
  ASSUME EngineInv, FindingsInv, EngineNext \/ UNCHANGED engineVars
  PROVE  FindingsInv'
<1>1. ASSUME UNCHANGED <<metrics, batch, verdict, stored>> PROVE FindingsInv'
  BY <1>1 DEF FindingsInv, FindingsTrue, StoredSound
<1>2. ASSUME NEW b \in feed.batches, ReceiveBatch(b) PROVE FindingsInv'
  <2>1. /\ metrics = <<>> /\ metrics' = metrics /\ verdict' = verdict
        /\ stored' = stored \cup {[row |-> f, stamp |-> Stamp(feed.storage, f, b.bucket),
                                   bucket |-> b.bucket] : f \in b.rows}
    BY <1>2 DEF ReceiveBatch, SaveBatch
  <2>2. PICK w : w = metrics'
    OBVIOUS
  <2>3. DOMAIN w = {}
    BY <2>1, <2>2
  <2>4. FindingsTrue'
    BY <2>1 DEF FindingsInv, FindingsTrue
  <2>5. StoredSound'
    <3>1. ASSUME NEW e \in stored'
          PROVE  /\ e.row \in Rows /\ e.stamp \in Minutes /\ e.bucket \in Minutes
                 /\ e.row.t <= e.stamp /\ e.stamp <= e.bucket
      <4>1. CASE e \in stored
        BY <4>1 DEF FindingsInv, StoredSound
      <4>2. CASE e \notin stored
        <5>1. PICK f \in b.rows :
                e = [row |-> f, stamp |-> Stamp(feed.storage, f, b.bucket), bucket |-> b.bucket]
          BY <2>1, <3>1, <4>2
        <5>2. f \in Rows /\ b.bucket \in Minutes /\ f.t <= b.bucket /\ f.t \in Minutes
          BY <1>2, BatchSound, RowFields
        <5>3. /\ Stamp(feed.storage, f, b.bucket) \in {f.t, b.bucket}
              /\ f.t \in Nat /\ b.bucket \in Nat
          BY <5>2, TableAssumption DEF Stamp
        <5>4. e.row = f /\ e.stamp = Stamp(feed.storage, f, b.bucket) /\ e.bucket = b.bucket
          BY <5>1
        <5> QED BY <5>2, <5>3, <5>4
      <4> QED BY <4>1, <4>2
    <3> QED BY <3>1 DEF StoredSound
  <2> QED BY <2>2, <2>3, <2>4, <2>5 DEF FindingsInv
<1>3. ASSUME NEW m, AnalyzeMetrics(m) PROVE FindingsInv'
  BY <1>1, <1>3 DEF AnalyzeMetrics, Analyze, metricsVars, baselineVars
<1>4. ASSUME NEW ip, NEW now, Learn(ip, now) PROVE FindingsInv'
  BY <1>1, <1>4 DEF Learn, CalculateBaseline, metricsVars
<1>5. ASSUME NEW x, NEW y, ChangeThresholds(x, y) PROVE FindingsInv'
  BY <1>1, <1>5 DEF ChangeThresholds, UpdateThresholds, metricsVars
<1>6. ASSUME NEW key, NEW t, CheckBeaconing(key, t) PROVE FindingsInv'
  BY <1>1, <1>6 DEF CheckBeaconing, batchVars, metricsVars, baselineVars
<1>7. ASSUME NEW c, UpdateConfig(c) PROVE FindingsInv'
  BY <1>1, <1>7 DEF UpdateConfig, batchVars, metricsVars, baselineVars
<1>8. ASSUME NEW key, DedupExpires(key) PROVE FindingsInv'
  BY <1>1, <1>8 DEF DedupExpires, batchVars, metricsVars, baselineVars
<1>9. ASSUME UNCHANGED engineVars PROVE FindingsInv'
  BY <1>1, <1>9 DEF engineVars, batchVars, metricsVars, baselineVars
<1> QED BY <1>2, <1>3, <1>4, <1>5, <1>6, <1>7, <1>8, <1>9, AggregateStaysTrue, DeviceVerdictTrue
        DEF EngineNext

-------------------------------------------------------------------------------
(* Theorems.                                                               *)

(* In every state the tables hold sound profiles only, whatever the feed.  *)
THEOREM EngineInvariant == EngineSpec => []EngineInv
<1>1. EngineInit => EngineInv
  BY EngineStarts
<1>2. EngineInv /\ [EngineNext]_engineVars => EngineInv'
  BY EngineStep, EngineStutters
<1> QED BY <1>1, <1>2, PTL DEF EngineSpec

(* Tables, watermarks, metrics and alerts have their types, and no table   *)
(* or set outgrows its limit.                                              *)
THEOREM EngineTypes == EngineSpec => []EngineTypeOK
<1>1. ASSUME EngineInv PROVE EngineTypeOK
  <2>1. PeerTypeOK
    BY <1>1 DEF EngineInv, PeerInv, PeerTypeOK, Table, IsTable, SoundPeers
  <2>2. ProfileTypeOK
    BY <1>1 DEF EngineInv, ProfileInv, ProfileTypeOK, Table, IsTable, SoundProfiles
  <2>3. NightTypeOK
    BY <1>1 DEF EngineInv, NightInv, NightTypeOK, Table, IsTable, SoundActivities
  <2>4. BeaconTypeOK
    BY <1>1 DEF EngineInv, BeaconInv, BeaconTypeOK, Table, IsTable, SoundSeries
  <2>5. /\ controls \in Controls /\ alertDeduplicator \subseteq Devices \X Types
        /\ raised \subseteq Alerts
    BY <1>1 DEF EngineInv, AlertsInv
  <2>6. \A ip \in DOMAIN metrics : SoundMetrics(metrics[ip])
    BY <1>1 DEF EngineInv, MetricsInv
  <2>7. \A ip \in DOMAIN metrics :
          /\ DOMAIN metrics[ip].dstIPByPort = metrics[ip].dstPorts
          /\ DOMAIN metrics[ip].packetsByDestination = DOMAIN metrics[ip].portsByDestination
          /\ Cardinality(metrics[ip].dstIPs) <= MaxCardinality
    BY <2>6 DEF SoundMetrics
  <2> QED BY <2>1, <2>2, <2>3, <2>4, <2>5, <2>7 DEF EngineTypeOK
<1> QED BY <1>1, EngineInvariant, PTL

(* A peer is reported once, unless the known peers of its device are as    *)
(* many as fit.                                                            *)
THEOREM ReportedOnce == EngineSpec => []PeerReportedOnce
<1>1. ASSUME EngineInv PROVE PeerReportedOnce
  BY <1>1 DEF EngineInv, PeerInv, Table, IsTable, SoundPeers, PeerReportedOnce
<1> QED BY <1>1, EngineInvariant, PTL

(* No device is reported for more nights than make the next ones expected. *)
THEOREM NightsBounded == EngineSpec => []NightAlertsBounded
<1>1. ASSUME EngineInv PROVE NightAlertsBounded
  BY <1>1 DEF EngineInv, NightInv, Table, IsTable, SoundActivities, NightAlertsBounded
<1> QED BY <1>1, EngineInvariant, PTL

(* A series holds the most recent minutes of those it was seen in, in      *)
(* whatever order they came.                                               *)
THEOREM MostRecentKept == EngineSpec => []SeriesAreMostRecent
<1>1. ASSUME EngineInv PROVE SeriesAreMostRecent
  BY <1>1 DEF EngineInv, BeaconInv, Table, IsTable, SoundSeries, SeriesAreMostRecent
<1> QED BY <1>1, EngineInvariant, PTL

(* What is reported as a beacon was seen at minutes in order, evenly over  *)
(* the span from the first to the last of them: the sum of the intervals   *)
(* that observeBeacon takes the mean of is that span, whatever rows came   *)
(* late or twice.                                                          *)
BeaconsAreSpread ==
  \A key \in Tuples : \A t \in Minutes : \A minObservations \in Nat \ {0} : \A minSeconds \in Nat :
    ReportsBeacon(key, t, minObservations, minSeconds) =>
      LET recent == LastOf(Record(SeriesOf(key, t), t), minObservations)
      IN Increasing(recent) /\ Len(recent) = minObservations /\ Spread(recent, minSeconds)
(* That is so of every report the engine can make.                         *)
THEOREM BeaconsSpread == EngineSpec => []BeaconsAreSpread
<1>1. ASSUME EngineInv PROVE BeaconsAreSpread
  <2>1. SUFFICES ASSUME NEW key \in Tuples, NEW t \in Minutes,
                        NEW n \in Nat \ {0}, NEW minSeconds \in Nat,
                        ReportsBeacon(key, t, n, minSeconds)
                 PROVE  LET recent == LastOf(Record(SeriesOf(key, t), t), n)
                        IN Increasing(recent) /\ Len(recent) = n /\ Spread(recent, minSeconds)
    BY DEF BeaconsAreSpread
  <2>2. PICK v : v = Record(SeriesOf(key, t), t)
    OBVIOUS
  <2>3. SeriesOf(key, t) \in SoundSeries \cup {EmptySeries}
    <3>1. Restricted(PrunedSeries(t), beacons) /\ Table(beacons, Tuples, SoundSeries, MaxSeries)
      BY <1>1 DEF PrunedSeries, Restricted, EngineInv, BeaconInv
    <3>2. Table(PrunedSeries(t), Tuples, SoundSeries, MaxSeries)
      BY <3>1, StaysTable, BeaconNumbers
    <3> QED BY <3>2 DEF SeriesOf, Entry, Table, IsTable
  <2>4. SeriesWith(SeriesOf(key, t), t) \in SoundSeries
    BY <2>1, <2>3, RowIsSound DEF ReportsBeacon
  <2>5. v \in Seq(Minutes) /\ Increasing(v)
    <3>1. SeriesWith(SeriesOf(key, t), t).observations = v
      BY <2>2 DEF SeriesWith
    <3> QED BY <2>4, <3>1 DEF SoundSeries, BeaconSeries, AreMostRecent, Increasing
  <2>6. PICK recent : recent = LastOf(v, n)
    OBVIOUS
  <2>7. PICK l \in Nat : l = Len(v)
    BY <2>5, LenProperties
  <2>8. l >= n
    BY <2>1, <2>2, <2>7 DEF ReportsBeacon
  <2>9. /\ recent \in Seq(Minutes) /\ Len(recent) = n
        /\ \A i \in 1..n : i + (l - n) \in 1..l /\ recent[i] = v[i + (l - n)]
    <3>1. /\ recent \in Seq(Minutes)
          /\ Len(recent) = IF l <= n THEN l ELSE n
          /\ \A i \in 1..Len(recent) : i + (l - Len(recent)) \in 1..l
                                        /\ recent[i] = v[i + (l - Len(recent))]
      BY <2>5, <2>6, <2>7, LastOfKeeps
    <3>2. Len(recent) = n
      BY <2>7, <2>8, <3>1
    <3> QED BY <3>1, <3>2
  <2>10. Increasing(recent)
    <3>1. SUFFICES ASSUME NEW i \in 1..n, NEW j \in 1..n, i < j PROVE recent[i] < recent[j]
      BY <2>9 DEF Increasing
    <3>2. i + (l - n) \in 1..l /\ j + (l - n) \in 1..l /\ i + (l - n) < j + (l - n)
      BY <2>9, <3>1
    <3>3. v[i + (l - n)] < v[j + (l - n)]
      BY <2>5, <2>7, <3>2 DEF Increasing
    <3> QED BY <2>9, <3>3
  <2>11. Minutes \in SUBSET Nat /\ Len(recent) > 0
    BY <2>9, BeaconNumbers
  <2>12. Regular(Intervals(recent), minSeconds)
    BY <2>1, <2>2, <2>6, Zenon DEF ReportsBeacon
  <2>13. Spread(recent, minSeconds)
    BY <2>9, <2>10, <2>11, <2>12, RegularIsSpread
  <2> QED BY <2>2, <2>6, <2>9, <2>10, <2>13
<1> QED BY <1>1, EngineInvariant, PTL

(* A peer is reported only when every one of the last windows counted      *)
(* showed it.                                                              *)
THEOREM PeersConfirmed == EngineSpec => PeerConfirmed
<1>1. ASSUME EngineInv, [EngineNext]_engineVars PROVE [PeerConfirmedStep]_peerVars
  <2>1. Moves
    BY <1>1, EngineStep, EngineStutters
  <2>2. CASE UNCHANGED peerVars
    BY <2>2
  <2>3. CASE ~UNCHANGED peerVars
    <3>1. PICK m : CanAnalyze(m) /\ ObserveInternalPeer(m.ip, m.peers, m.t)
      BY <2>1, <2>3 DEF Moves
    <3> QED BY <1>1, <3>1, PeerConfirms DEF EngineInv, CanAnalyze
  <2> QED BY <2>2, <2>3
<1> QED BY <1>1, EngineInvariant, PTL DEF EngineSpec, PeerConfirmed, PeerConfirmedStep

(* A baseline is replaced only by the signature all of the last windows    *)
(* counted show.                                                           *)
THEOREM ChangesConfirmed == EngineSpec => ProfileChangeConfirmed
<1>1. ASSUME EngineInv, [EngineNext]_engineVars PROVE [ProfileChangeStep]_profileVars
  <2>1. Moves
    BY <1>1, EngineStep, EngineStutters
  <2>2. CASE UNCHANGED profileVars
    BY <2>2
  <2>3. CASE ~UNCHANGED profileVars
    <3>1. PICK m : CanAnalyze(m) /\ ObserveDeviceProfile(m.ip, m.signature, m.t)
      BY <2>1, <2>3 DEF Moves
    <3> QED BY <1>1, <3>1, ProfileChanges DEF EngineInv, CanAnalyze
  <2> QED BY <2>2, <2>3
<1> QED BY <1>1, EngineInvariant, PTL DEF EngineSpec, ProfileChangeConfirmed, ProfileChangeStep

(* A series loses what it had seen only when all of that is older than the *)
(* time series are kept.                                                   *)
THEOREM OnlyInactivePruned == EngineSpec => OnlyInactiveSeriesPruned
<1>1. ASSUME EngineInv, [EngineNext]_engineVars PROVE [InactivePrunedStep]_beaconVars
  <2>1. Moves
    BY <1>1, EngineStep, EngineStutters
  <2>2. CASE UNCHANGED beaconVars
    BY <2>2
  <2>3. CASE ~UNCHANGED beaconVars
    <3>1. PICK key \in Tuples, t \in Minutes : ObserveBeacon(key, t)
      BY <2>1, <2>3 DEF Moves
    <3> QED BY <1>1, <3>1, InactivePruned DEF EngineInv
  <2> QED BY <2>2, <2>3
<1> QED BY <1>1, EngineInvariant, PTL DEF EngineSpec, OnlyInactiveSeriesPruned, InactivePrunedStep

(* Whatever the order of the rows and whatever no longer fitted, the       *)
(* numbers of a reported scan are those of a scan and a scan that was not  *)
(* cut is reported; a destination is reported as new only if no row of the *)
(* last seven days to it was saved for an earlier bucket, and, nothing cut *)
(* and no lookup failed, exactly those are which no visible row knows.     *)
THEOREM FoundIsTrue == EngineSpec => []FindingsTrue
<1>1. EngineInit => FindingsInv
  BY FindingsStart
<1>2. EngineInv /\ FindingsInv /\ [EngineNext]_engineVars => FindingsInv'
  BY FindingsStep
<1>3. FindingsInv => FindingsTrue
  BY DEF FindingsInv
<1> QED BY <1>1, <1>2, <1>3, EngineInvariant, PTL DEF EngineSpec
================================================================================

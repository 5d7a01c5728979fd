----------------------------- MODULE FlowQueries -----------------------------
(***************************************************************************)
(* internal/storage/sqlite and flowquery: what the queries of the history  *)
(* compute.  Every query asks the shards of its days one after the other   *)
(* and merges what they give; a part is what one shard gave: the rows that *)
(* counted and the groups that were read.  Packets and flows are summed    *)
(* like bytes and left out, as are the protocols, which are grouped like   *)
(* ports, and the free-text filter of the records.                         *)
(***************************************************************************)
EXTENDS Naturals, Sequences, FiniteSets, FiniteSetsExt

CONSTANT KnownDevices (* the addresses in the devices table                *)

TopKinds == {"sources", "destinations", "ports", "devices", "peers", "devicePorts"}
SeriesKinds == {"series", "deviceSeries"}
SourceKinds == {"samples", "destinationSeen", "portSeen"}
Kinds == TopKinds \cup SeriesKinds \cup SourceKinds \cup {"records"}

-------------------------------------------------------------------------------
(* A bug a change could introduce, replacing Contributing in one run.      *)
LastShardWins(parts, k) == {Max({i \in DOMAIN parts : k \in parts[i].keys})}

-------------------------------------------------------------------------------
(* What a row is counted for, by each of the queries that sum.  A row from *)
(* a device to itself counts twice for it, by UNION ALL.                   *)
GetTopSources(r) == <<r.src>>
GetTopDestinations(r) == <<r.dst>>
GetTopPorts(r) == <<r.port>>
GetTopDevicesByVolume(r) == <<r.src, r.dst>>
GetTrafficTimeSeries(r, step) == <<(r.minute \div step) * step>>
GetDeviceTopPeers(r, ip) == (IF r.src = ip THEN <<r.dst>> ELSE <<>>)
                            \o (IF r.dst = ip THEN <<r.src>> ELSE <<>>)
GetDeviceTopPorts(r, ip) == IF ip \in {r.src, r.dst} THEN GetTopPorts(r) ELSE <<>>
GetDeviceTrafficTimeSeries(r, ip, step) ==
  IF ip \in {r.src, r.dst} THEN GetTrafficTimeSeries(r, step) ELSE <<>>

GroupsOf(q, r) ==
  CASE q.kind = "sources"       -> GetTopSources(r)
    [] q.kind = "destinations"  -> GetTopDestinations(r)
    [] q.kind = "ports"         -> GetTopPorts(r)
    [] q.kind = "devices"       -> GetTopDevicesByVolume(r)
    [] q.kind = "peers"         -> GetDeviceTopPeers(r, q.ip)
    [] q.kind = "devicePorts"   -> GetDeviceTopPorts(r, q.ip)
    [] q.kind = "series"        -> GetTrafficTimeSeries(r, q.limit)
    [] q.kind = "deviceSeries"  -> GetDeviceTrafficTimeSeries(r, q.ip, q.limit)
    [] OTHER                    -> <<>>

Keys(q, S) == UNION {{GroupsOf(q, r)[i] : i \in DOMAIN GroupsOf(q, r)} : r \in S}
Bytes(q, S, k) ==
  MapThenSumSet(LAMBDA r : r.bytes * Cardinality({i \in DOMAIN GroupsOf(q, r) : GroupsOf(q, r)[i] = k}), S)

(* The rows a shard is asked for: those of the window, of the source.      *)
Matching(q, S) ==
  {r \in S : r.minute \in q.from..q.to /\ (q.kind \in SourceKinds => r.src = q.ip)}

(* Records are sorted and limited in every shard and again over all of     *)
(* them; sums are limited after they were merged.                          *)
Newest(limit, S) ==
  {T \in SUBSET S : /\ Cardinality(T) = Min({limit, Cardinality(S)})
                    /\ \A r \in T, o \in S \ T : r.minute >= o.minute}
ShardParts(q, S) ==
  IF q.kind = "records" THEN {[rows |-> T, keys |-> {}] : T \in Newest(q.limit, S)}
                        ELSE {[rows |-> S, keys |-> Keys(q, S)]}

Contributing(parts, k) == {i \in DOMAIN parts : k \in parts[i].keys}
Merge(q, parts) ==
  [k \in UNION {parts[i].keys : i \in DOMAIN parts} |->
     MapThenSumSet(LAMBDA i : Bytes(q, parts[i].rows, k), Contributing(parts, k))]

FilterToKnown(q, sums) ==
  IF q.kind # "devices" \/ KnownDevices = {} THEN sums
  ELSE [k \in DOMAIN sums \cap KnownDevices |-> sums[k]]
SortAndLimit(sums, limit) ==
  {[k \in K |-> sums[k]] :
     K \in {L \in SUBSET DOMAIN sums :
              /\ Cardinality(L) = Min({limit, Cardinality(DOMAIN sums)})
              /\ \A k \in L, l \in DOMAIN sums \ L : sums[k] >= sums[l]}}

(* One sample for a minute and a shard: a minute whose rows lie in two     *)
(* shards gives two, and counts for two in the length of the history.      *)
Minutes(S) == {r.minute : r \in S}
Peers(S) == {r.dst : r \in S}
GetDeviceBaselineSamples(parts) ==
  UNION {{[shard |-> i, minute |-> m,
           bytes |-> MapThenSumSet(LAMBDA r : r.bytes, {r \in parts[i].rows : r.minute = m}),
           peers |-> Cardinality(Peers({r \in parts[i].rows : r.minute = m}))] :
            m \in Minutes(parts[i].rows)} : i \in DOMAIN parts}
SeenIn(q, r) == IF q.kind = "portSeen" THEN r.port = q.limit ELSE r.dst = q.peer
hasObservedFlowTuple(q, parts) ==
  LET rows == UNION {parts[i].rows : i \in DOMAIN parts}
  IN  [seen |-> \E r \in rows : SeenIn(q, r),
       buckets |-> MapThenSumSet(LAMBDA i : Cardinality(Minutes(parts[i].rows)), DOMAIN parts),
       first |-> IF rows = {} THEN {} ELSE {Min(Minutes(rows))}]

Answers(q, parts) ==
  CASE q.kind \in TopKinds    -> SortAndLimit(FilterToKnown(q, Merge(q, parts)), q.limit)
    [] q.kind \in SeriesKinds -> {Merge(q, parts)}
    [] q.kind = "records"     -> Newest(q.limit, UNION {parts[i].rows : i \in DOMAIN parts})
    [] q.kind = "samples"     -> {GetDeviceBaselineSamples(parts)}
    [] OTHER                  -> {hasObservedFlowTuple(q, parts)}

-------------------------------------------------------------------------------
(* An answer invents nothing if all it says is said by the rows of S, and  *)
(* misses nothing if all the rows of S are in it or gave way to larger     *)
(* ones.                                                                   *)
InventsNothing(q, S, answer) ==
  CASE q.kind \in TopKinds \cup SeriesKinds -> \A k \in DOMAIN answer : answer[k] <= Bytes(q, S, k)
    [] q.kind = "records" -> answer \subseteq S
    [] q.kind = "samples" ->
         \A s \in answer : LET T == {r \in S : r.minute = s.minute}
                           IN  s.bytes <= MapThenSumSet(LAMBDA r : r.bytes, T) /\ s.peers <= Cardinality(Peers(T))
    [] OTHER -> /\ answer.seen => \E r \in S : SeenIn(q, r)
                /\ answer.first \subseteq Minutes(S)

MissesNothing(q, S, answer) ==
  CASE q.kind \in TopKinds \cup SeriesKinds ->
         \A k \in DOMAIN FilterToKnown(q, [l \in Keys(q, S) |-> 0]) :
           IF k \in DOMAIN answer THEN answer[k] >= Bytes(q, S, k)
           ELSE /\ q.kind \in TopKinds /\ Cardinality(DOMAIN answer) = q.limit
                /\ \A l \in DOMAIN answer : answer[l] >= Bytes(q, S, k)
    [] q.kind = "records" ->
         \/ S \subseteq answer
         \/ Cardinality(answer) = q.limit /\ \A g \in answer, r \in S \ answer : g.minute >= r.minute
    [] q.kind = "samples" -> Minutes(S) \subseteq {s.minute : s \in answer}
    [] OTHER -> /\ (\E r \in S : SeenIn(q, r)) => answer.seen
                /\ answer.buckets >= Cardinality(Minutes(S))
                /\ \A r \in S : \E m \in answer.first : m <= r.minute
===============================================================================

------------------------------ MODULE FlowBaseline ------------------------------
(***************************************************************************)
(* The detectors that compare a batch with the stored history of its       *)
(* devices: the baselines (internal/baseline/baseline.go), recalculated    *)
(* now and then, and the lookups of destinations and ports a device did    *)
(* not use in the last seven days (internal/anomaly/new_destination.go).   *)
(*                                                                         *)
(* The flush worker saves a batch and then has it analysed, so the history *)
(* already holds the batch.  SQLite keeps a row with its own minute in the *)
(* file of the day of its batch's bucket; DuckDB has one file, where a row *)
(* has the minute of the bucket.  Nothing is removed here.                 *)
(*                                                                         *)
(* A baseline is kept as the number, the sum and the sum of the squares of *)
(* its samples, which give mean and deviation: x > mean + 3 * deviation    *)
(* becomes a comparison of integers.                                       *)
(***************************************************************************)
EXTENDS BatchMetrics

CONSTANTS
  MinSamples,  (* 5 minutes of traffic for a baseline                      *)
  Lookback,    (* the seven days, in minutes                               *)
  DayLength    (* minutes of a day                                         *)

ASSUME BaselineAssumption ==
  MinSamples \in Nat \ {0} /\ Lookback \in Nat /\ DayLength \in Nat \ {0}

VARIABLES
  stored,          (* the rows of flow_aggregates, with their bucket_ts    *)
                   (* and the bucket they were saved for                   *)
  cachedBaselines, (* e.cachedBaselines                                    *)
  thresholds       (* minBytesThreshold and minPacketsThreshold            *)
baselineVars == <<stored, cachedBaselines, thresholds>>

-------------------------------------------------------------------------------
(* Bugs a change could introduce, each replacing the definition it is      *)
(* named after in one mutation run.                                        *)
NewestIncluded(t, newest) == t <= newest

-------------------------------------------------------------------------------
(* The bucket_ts the storage gives a row, and the shard SQLite keeps it in.*)
Stamp(storage, f, bucket) == IF storage = "duckdb" THEN bucket ELSE f.t
DateOf(t) == t \div DayLength
ShardOf(e) == DateOf(e.bucket)

RowsOf(entries) == {e.row : e \in entries}
MinutesOf(entries) == {<<ShardOf(e), e.stamp>> : e \in entries}

(* SaveAggregates, whose success has the flush worker call AnalyzeBatch.   *)
SaveBatch(b, storage) ==
  /\ batch = {} /\ metrics = <<>>
  /\ b.rows \cap RowsOf(stored) = {}
  /\ stored' = stored \cup
       {[row |-> f, stamp |-> Stamp(storage, f, b.bucket), bucket |-> b.bucket] : f \in b.rows}
  /\ batch' = b.rows
  /\ UNCHANGED <<metrics, cachedBaselines, thresholds>>

(* computeDeviceBaseline over GetDeviceBaselineSamples: one sample a       *)
(* minute of a shard.  SaveBaseline comes before the cache is set.         *)
Statistics(x) ==
  [n |-> Cardinality(DOMAIN x), sum |-> MapThenSumSet(LAMBDA t : x[t], DOMAIN x),
   squares |-> MapThenSumSet(LAMBDA t : x[t] * x[t], DOMAIN x)]

CalculateBaseline(ip, now) ==
  LET entries == {e \in stored : e.row.src = ip /\ e.stamp <= now /\ e.stamp + Lookback >= now}
      minutes == MinutesOf(entries)
      At(k) == RowsOf({e \in entries : <<ShardOf(e), e.stamp>> = k})
  IN /\ \A e \in stored : e.bucket <= now
     /\ Cardinality(minutes) >= MinSamples
     /\ cachedBaselines' = With(cachedBaselines, ip,
          [bytes |-> Statistics([k \in minutes |-> MapThenSumSet(LAMBDA f : f.bytes, At(k))]),
           packets |-> Statistics([k \in minutes |-> Packets(At(k))]),
           peers |-> Statistics([k \in minutes |-> Cardinality(DestinationsOf(At(k)))])])
     /\ UNCHANGED <<stored, thresholds>>

UpdateThresholds(minBytes, minPackets) ==
  /\ thresholds' = [bytes |-> IF minBytes > 0 THEN minBytes ELSE thresholds.bytes,
                    packets |-> IF minPackets > 0 THEN minPackets ELSE thresholds.packets]
  /\ UNCHANGED <<stored, cachedBaselines>>

BaselineInit ==
  /\ stored = {} /\ cachedBaselines = <<>>
  /\ thresholds = [bytes |-> 1, packets |-> 1]

-------------------------------------------------------------------------------
NineVariances(s) == 9 * (s.n * s.squares - s.sum * s.sum)
Exceeds(x, s) == s.n * x > s.sum /\ (s.n * x - s.sum) * (s.n * x - s.sum) > NineVariances(s)
Reaches(x, s) == s.n * x >= s.sum /\ (s.n * x - s.sum) * (s.n * x - s.sum) >= NineVariances(s)

(* AnalyzeBatch passes no peers to it.                                     *)
IsAnomaly(ip, bytes, packets) ==
  /\ ip \in DOMAIN cachedBaselines
  /\ \/ bytes > thresholds.bytes /\ Exceeds(bytes, cachedBaselines[ip].bytes)
     \/ packets > thresholds.packets /\ Exceeds(packets, cachedBaselines[ip].packets)

(* The threshold of checkFanout: the learned mean of the peers plus three  *)
(* deviations, rounded up, within its two limits.                          *)
DestinationLimit(ip) ==
  IF ip \in DOMAIN cachedBaselines
  THEN Min({FanoutMax} \cup {n \in FanoutMin..FanoutMax : Reaches(n, cachedBaselines[ip].peers)})
  ELSE FanoutMin

-------------------------------------------------------------------------------
(* checkNewDestinations.  The lookups end one second before the newest row *)
(* of the device in the batch, and open no shard of a later day: a row     *)
(* that came over midnight is not found, nor, in DuckDB, one of a bucket   *)
(* that is not over.  The shards counted separately, a minute whose rows   *)
(* are in two counts twice.                                                *)
BeforeEnd(t, newest) == t < newest
History(ip, newest) ==
  {e \in stored : /\ e.row.src = ip
                  /\ BeforeEnd(e.stamp, newest) /\ e.stamp + Lookback >= newest
                  /\ ShardOf(e) <= DateOf(newest - 1)}

Mature(history, minHistory) == Cardinality(MinutesOf(history)) >= minHistory

NewDestinations(ip, m, minHistory) ==
  LET history == History(ip, m.timestamp)
  IN {d \in m.dstIPs \ Peers :
        Mature(history, minHistory) /\ d \notin DestinationsOf(RowsOf(history))}

NewPorts(ip, m, minHistory) ==
  LET history == History(ip, m.timestamp)
  IN {p \in m.dstPorts : Mature(history, minHistory) /\ p \notin PortsOf(RowsOf(history))}
===============================================================================

----------------------------- MODULE BeaconDetector -----------------------------
(***************************************************************************)
(* The detector of periodic communication                                  *)
(* (internal/anomaly/beaconing.go): for each tuple of source, destination, *)
(* port and protocol, the most recent distinct minutes it was seen in, and *)
(* the spread of the intervals between them.                               *)
(***************************************************************************)
EXTENDS DetectorTable, Integers

CONSTANTS
  Tuples,            (* beaconKey                                          *)
  MaxObservations,   (* beaconMaxObservations: 18                          *)
  MaxSeries,         (* beaconMaxSeries                                    *)
  MaxInterval,       (* beaconMaxInterval, in minutes                      *)
  BeaconRetention    (* beaconStateRetention, in minutes                   *)

ASSUME BeaconAssumption ==
  /\ MaxObservations \in Nat \ {0}
  /\ MaxSeries \in Nat \ {0}
  /\ MaxInterval \in Nat \ {0}
  /\ BeaconRetention \in Nat \ {0}

VARIABLES beacons, beaconWatermark
beaconVars == <<beacons, beaconWatermark>>

(* seen is a history field: every minute the series was observed in.       *)
BeaconSeries ==
  [observations: Seq(Minutes), lastSeen: Minutes, seen: SUBSET Minutes]

EmptySeries == [observations |-> <<>>, lastSeen |-> NoTime, seen |-> {}]

BeaconTypeOK ==
  /\ IsTable(beacons, Tuples, BeaconSeries, MaxSeries)
  /\ beaconWatermark \in Minutes \cup {NoTime}

BeaconInit == beacons = <<>> /\ beaconWatermark = NoTime

-------------------------------------------------------------------------------
(* pruneBeaconsLocked.                                                     *)
PrunedSeries(t) ==
  LET Kept == {k \in DOMAIN beacons : t <= beaconWatermark
                                      \/ beacons[k].lastSeen + BeaconRetention >= t}
  IN [k \in Kept |-> beacons[k]]

SeriesOf(key, t) == Entry(PrunedSeries(t), key, EmptySeries)
AdmitsSeries(key, t) ==
  key \in DOMAIN PrunedSeries(t) \/ Cardinality(DOMAIN PrunedSeries(t)) < MaxSeries

Recorded(series, t) == t \in ToSet(series.observations)
Record(series, t) == AppendUnique(series.observations, t, MaxObservations)

LastSeenIsThis(observations, t) == t
LastSeen(observations, t) == Last(observations)

ObserveBeacon(key, t) ==
  LET observations == Record(SeriesOf(key, t), t)
  IN /\ beaconWatermark' = Later(t, beaconWatermark)
     /\ beacons' =
          IF ~AdmitsSeries(key, t) \/ Recorded(SeriesOf(key, t), t) THEN PrunedSeries(t)
          ELSE With(PrunedSeries(t), key,
                 [observations |-> observations, lastSeen |-> LastSeen(observations, t),
                  seen |-> SeriesOf(key, t).seen \cup {t}])

(* The last minObservations of the series are all an allowed interval      *)
(* apart, and no interval differs from their mean by more than a fifth of  *)
(* it or twenty seconds.  Times a minute's seconds and the number of       *)
(* intervals, the comparison is one of integers.                           *)
Intervals(times) == [i \in 1..Len(times) - 1 |-> times[i + 1] - times[i]]
Deviation(interval, n, total) ==
  IF n * interval >= total THEN n * interval - total ELSE total - n * interval

Regular(intervals, minSeconds) ==
  LET n == Len(intervals)
      total == FoldSeq(+, 0, intervals)
  IN \A i \in 1..n :
       /\ 60 * intervals[i] >= minSeconds
       /\ intervals[i] <= MaxInterval
       /\ 60 * Deviation(intervals[i], n, total) <= Max({12 * total, 20 * n})

ReportsBeacon(key, t, minObservations, minSeconds) ==
  /\ AdmitsSeries(key, t)
  /\ ~Recorded(SeriesOf(key, t), t)
  /\ LET observations == Record(SeriesOf(key, t), t)
     IN /\ Len(observations) >= minObservations
        /\ Regular(Intervals(LastOf(observations, minObservations)), minSeconds)

-------------------------------------------------------------------------------
(* "Only the 18 most recent timestamps are retained for each tuple", even  *)
(* when rows come late or twice (observeBeacon).                           *)
SeriesAreMostRecent ==
  \A k \in DOMAIN beacons :
    AreMostRecent(beacons[k].observations, beacons[k].seen, MaxObservations)

(* "entries inactive for two hours are pruned", and no others: a late row  *)
(* never makes an active series look inactive (observeBeacon,              *)
(* pruneBeaconsLocked).                                                    *)
OnlyInactiveSeriesPruned ==
  [][\A k \in DOMAIN beacons :
       beacons[k].seen \subseteq Entry(beacons', k, EmptySeries).seen
       \/ \A t \in beacons[k].seen : t + BeaconRetention < beaconWatermark']_beaconVars
===============================================================================

------------------------------ MODULE NightDetector ------------------------------
(***************************************************************************)
(* The detector of unexpected nighttime traffic                            *)
(* (internal/anomaly/nighttime.go): a device is expected to be silent at   *)
(* night once it has enough significant daytime minutes, until it has      *)
(* enough nighttime minutes of its own.                                    *)
(***************************************************************************)
EXTENDS DetectorTable

CONSTANTS
  NightMinutes,      (* from nightStartHour to nightEndHour, local time    *)
  DayMinutes,        (* from daytimeStartHour to daytimeEndHour            *)
  MinDaytimeWindows, (* nightMinDaytimeWindows: 12                         *)
  NightBytes, NightPackets, NightDestinations, (* nightMinBytes and its like *)
  ExpectedNights     (* nightExpectedWindows: 3                            *)

ASSUME NightAssumption ==
  /\ NightMinutes \cup DayMinutes \subseteq Minutes
  /\ NightMinutes \cap DayMinutes = {}
  /\ MinDaytimeWindows \in Nat \ {0}
  /\ ExpectedNights \in Nat \ {0}

VARIABLES activityProfiles, activityWatermark
nightVars == <<activityProfiles, activityWatermark>>

(* Two history fields: seen, the minutes observed, and alerted, the nights *)
(* that were reported.                                                     *)
ActivityProfiles ==
  [daytimeBuckets: Seq(DayMinutes), nighttimeBuckets: Seq(NightMinutes),
   lastSeen: Minutes \cup {NoTime}, seen: SUBSET Minutes, alerted: SUBSET NightMinutes]

FreshActivity ==
  [daytimeBuckets |-> <<>>, nighttimeBuckets |-> <<>>, lastSeen |-> NoTime,
   seen |-> {}, alerted |-> {}]

NightTypeOK ==
  /\ IsTable(activityProfiles, Devices, ActivityProfiles, MaxDevices)
  /\ activityWatermark \in Minutes \cup {NoTime}

NightInit == activityProfiles = <<>> /\ activityWatermark = NoTime

-------------------------------------------------------------------------------
ActivityTable(t) == Pruned(activityProfiles, t, activityWatermark)
Activity(ip, t) == Entry(ActivityTable(t), ip, FreshActivity)

(* The nights an alert weighs are those recorded before this one.          *)
EarlierNights(activity, t) == Len(SelectSeq(activity.nighttimeBuckets, LAMBDA x : x < t))
PriorNightWindows(activity, t) == Len(activity.nighttimeBuckets)

Significant(bytes, packets, destinations) ==
  bytes >= NightBytes \/ packets >= NightPackets \/ destinations >= NightDestinations
Considered(t, significant) == significant /\ t \in NightMinutes \cup DayMinutes

Unexpected(ip, t) ==
  /\ t \in NightMinutes
  /\ Admits(ActivityTable(t), ip)
  /\ Len(Activity(ip, t).daytimeBuckets) >= MinDaytimeWindows
  /\ PriorNightWindows(Activity(ip, t), t) < ExpectedNights

ReportsNight(ip, t, significant) == Considered(t, significant) /\ Unexpected(ip, t)

ObserveActivity(ip, t) ==
  LET activity == Activity(ip, t)
      seen == [activity EXCEPT !.lastSeen = t, !.seen = @ \cup {t},
                 !.alerted = IF Unexpected(ip, t) THEN @ \cup {t} ELSE @]
  IN /\ activityWatermark' = Later(t, activityWatermark)
     /\ activityProfiles' =
          CASE ~Admits(ActivityTable(t), ip) -> ActivityTable(t)
            [] Admits(ActivityTable(t), ip) /\ t \in DayMinutes ->
                 With(ActivityTable(t), ip,
                      [seen EXCEPT !.daytimeBuckets = AppendUnique(@, t, MinDaytimeWindows)])
            [] OTHER ->
                 With(ActivityTable(t), ip,
                      [seen EXCEPT !.nighttimeBuckets = AppendUnique(@, t, ExpectedNights)])

(* checkNighttime.                                                         *)
CheckNighttime(ip, t, significant) ==
  \/ /\ ~Considered(t, significant)
     /\ UNCHANGED nightVars
  \/ /\ Considered(t, significant)
     /\ ObserveActivity(ip, t)

-------------------------------------------------------------------------------
(* "reports the first unexpected nighttime windows; considers nighttime    *)
(* activity expected after 3 distinct significant nighttime windows": no   *)
(* device is reported for more distinct nighttime windows than that, in    *)
(* whatever order the rows come (checkNighttime, appendUniqueBucket).      *)
NightAlertsBounded ==
  \A ip \in DOMAIN activityProfiles :
    Cardinality(activityProfiles[ip].alerted) <= ExpectedNights
===============================================================================

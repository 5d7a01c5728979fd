---------------------------- MODULE MCAlertPipeline ----------------------------
(* A small instance of AlertPipeline: two detections of one subject, whose     *)
(* device has a cooldown policy; the destination of the first has a policy of  *)
(* its own, with a longer one; and a critical syslog event of a type with a    *)
(* threshold of high and a quiet hour, whose timestamp is early, late or in    *)
(* that hour.  A global policy would silence them all.                         *)
EXTENDS AlertPipeline, TLC

CONSTANTS a1, a2, u1, w1

MCDetected == {a1, a2}
MCAlerts == {a1, a2, u1}
MCSubject == a1 :> "host scan" @@ a2 :> "host scan" @@ u1 :> "unifi"
MCSeverity == a1 :> "high" @@ a2 :> "high" @@ u1 :> "critical"
MCDestination == a1 :> "printer" @@ a2 :> NoDestination @@ u1 :> NoDestination
MCChannels == <<"slack">>
MCRules == <<
  [id |-> "cooled", enabled |-> TRUE, severityMin |-> "medium", subjects |-> {"host scan"},
   cooldown |-> 1, channels |-> <<"slack">>] >>
MCConfigs == {{"slack"}}
MCNoise == {{}}
MCWorkers == {w1}
MCPolicies == {
  [id |-> 1, scope |-> "global", subjects |-> {"host scan", "unifi"}, destinations |-> {},
   suppressed |-> TRUE, severityMin |-> "", quietHours |-> {}, cooldown |-> 0],
  [id |-> 2, scope |-> "ip", subjects |-> {"host scan"}, destinations |-> {},
   suppressed |-> FALSE, severityMin |-> "medium", quietHours |-> {}, cooldown |-> 1],
  [id |-> 3, scope |-> "ip", subjects |-> {}, destinations |-> {"printer"},
   suppressed |-> FALSE, severityMin |-> "medium", quietHours |-> {}, cooldown |-> 2],
  [id |-> 4, scope |-> "alert_type", subjects |-> {"unifi"}, destinations |-> {},
   suppressed |-> FALSE, severityMin |-> "high", quietHours |-> {1}, cooldown |-> 0] }
===============================================================================

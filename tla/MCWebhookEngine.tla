---------------------------- MODULE MCWebhookEngine ----------------------------
(* Small instances of WebhookEngine: alerts of one subject that meet a rule    *)
(* with a cooldown, one without, and a disabled one.                           *)
EXTENDS WebhookEngine, TLC

CONSTANTS a1, a2, w1, w2

MCAlerts == {a1, a2}
MCSubject == a1 :> "host scan" @@ a2 :> "host scan"
MCSeverity == a1 :> "high" @@ a2 :> "low"
MCChannels == <<"slack", "webhook">>
MCRules == <<
  [id |-> "cooled", enabled |-> TRUE, severityMin |-> "low", subjects |-> {"host scan"},
   cooldown |-> 1, channels |-> <<"slack">>],
  [id |-> "loud", enabled |-> TRUE, severityMin |-> "medium", subjects |-> {"host scan"},
   cooldown |-> 0, channels |-> <<OtherCase, "webhook", "webhook">>],
  [id |-> "off", enabled |-> FALSE, severityMin |-> "low", subjects |-> {"host scan"},
   cooldown |-> 0, channels |-> <<"webhook">>] >>
MCConfigs == {{"slack"}, {"webhook"}}
MCNoise == {{}, {"host scan"}}
MCWorkers == {w1, w2}

(* Two alerts of one subject under two rules with different cooldowns.       *)
MCCooledRules == <<
  [id |-> "short", enabled |-> TRUE, severityMin |-> "low", subjects |-> {"host scan"},
   cooldown |-> 1, channels |-> <<"slack">>],
  [id |-> "long", enabled |-> TRUE, severityMin |-> "low", subjects |-> {"host scan"},
   cooldown |-> 2, channels |-> <<"slack">>] >>
MCOneChannel == <<"slack">>
MCOneConfig == {{"slack"}}
MCQuiet == {{}}
MCOneWorker == {w1}
===============================================================================

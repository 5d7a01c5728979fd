----------------------------- MODULE WebhookEngine -----------------------------
(***************************************************************************)
(* internal/webhook: routing an alert to the notification channels and the *)
(* bounded, asynchronous dispatch of the resulting HTTP requests.          *)
(*                                                                         *)
(* Goroutines.  SendAnomalyAlert runs in one callback goroutine per alert; *)
(* its steps are the places where it reads shared state or writes it.      *)
(* Workers are the dispatchWorker goroutines, and the stopper is the one   *)
(* that calls Shutdown and then closes the repository.  The send under     *)
(* queueMu does not block (it is a select with a default), but a sender    *)
(* whose notification finds no place writes the outcome to the repository  *)
(* with queueMu held: until then no other one enqueues, and Shutdown waits.*)
(*                                                                         *)
(* Data.  A subject is the pair of an anomaly's IP and type: it is what a  *)
(* rule's type and scope filters, the noise controls and the cooldown look *)
(* at.  Payloads, URLs and headers are left out.                           *)
(***************************************************************************)
EXTENDS Naturals, Sequences

CONSTANTS
  Alerts,        (* saved anomalies handed to SendAnomalyAlert              *)
  Subject,       (* Subject[a]: IP and type of anomaly a                    *)
  Severity,      (* Severity[a]: its severity string                        *)
  Rules,         (* ListNotificationRules: a sequence of routing rules      *)
  Channels,      (* the channel names, in the order the fallback uses them  *)
  Configs,       (* the sets of channels an operator may have configured    *)
  NoiseControls, (* the sets of subjects the global filters may suppress    *)
  Workers,       (* webhookDispatchWorkers goroutines                       *)
  QueueSize,     (* webhookDispatchQueueSize                                *)
  RepositoryErrors, (* TRUE: a call on the open repository may fail too     *)
  MaxTime        (* bound on the clock                                      *)

ChannelSet == {Channels[i] : i \in 1..Len(Channels)}
Subjects == {Subject[a] : a \in Alerts}
Severities == {"critical", "high", "medium", "low"}

(* The API accepts a channel target in any case, and the engine knows it   *)
(* in lower case only: a rule may hold a target that no case matches.      *)
OtherCase == "SLACK"
Targets == ChannelSet \cup {OtherCase}

(* A rule's type and scope filters together select a set of subjects.      *)
RuleRecord(r) ==
  /\ r.enabled \in BOOLEAN
  /\ r.severityMin \in Severities
  /\ r.subjects \subseteq Subjects
  /\ r.cooldown \in Nat
  /\ r.channels \in Seq(Targets)
RuleList == {Rules[i] : i \in 1..Len(Rules)}
NoRule == "no rule"
RuleIds == {r.id : r \in RuleList}

ASSUME RuleAssumption ==
  /\ Rules \in Seq(RuleList)
  /\ \A r \in RuleList : RuleRecord(r)
  /\ \A i, j \in 1..Len(Rules) : Rules[i].id = Rules[j].id => i = j
  /\ NoRule \notin RuleIds
ASSUME AlertAssumption ==
  /\ DOMAIN Subject = Alerts
  /\ Severity \in [Alerts -> Severities]
ASSUME ControlAssumption ==
  /\ Channels \in Seq(ChannelSet)
  /\ Configs \subseteq SUBSET ChannelSet
  /\ NoiseControls \subseteq SUBSET Subjects
ASSUME BoundAssumption ==
  /\ Workers # {} /\ QueueSize \in Nat \ {0}
  /\ RepositoryErrors \in BOOLEAN /\ MaxTime \in Nat

VARIABLES
  now,           (* the wall clock                                          *)
  status,        (* status[a]: the status the repository saved a with       *)
  config,        (* channels with an URL or credentials                     *)
  noise,         (* subjects the noise controls suppress                    *)
  at,            (* where the callback goroutine of each alert is           *)
  snapshot,      (* the configuration it copied                             *)
  rulesLeft,     (* the rules it has yet to evaluate                        *)
  channelsLeft,  (* the channels of the current rule it has yet to serve    *)
  due,           (* notifications it got to decide on (history)             *)
  dropping,      (* the one whose drop its sender records under queueMu     *)
  dispatchQueue, (* w.dispatchQueue                                         *)
  queueClosed,   (* w.queueClosed                                           *)
  hand,          (* hand[w]: the request worker w took, as a set            *)
  exited,        (* workers that have returned                              *)
  logs,          (* rows of notification_logs                               *)
  unlogged,      (* outcomes whose SaveNotificationLog failed               *)
  repoOpen,      (* the repository has not been closed                      *)
  stop           (* where the goroutine that stops the engine is            *)

senderVars == <<at, snapshot, rulesLeft, channelsLeft, due, dropping>>
queueVars == <<dispatchQueue, queueClosed>>
workerVars == <<hand, exited>>
logVars == <<logs, unlogged>>
settingVars == <<config, noise>>
envVars == <<now, status, repoOpen>>
vars == <<now, status, config, noise, at, snapshot, rulesLeft, channelsLeft, due,
          dropping, dispatchQueue, queueClosed, hand, exited, logs, unlogged, repoOpen, stop>>

Places == {"new", "noise", "suppressed", "config", "rules", "rule", "duplicate",
           "channel", "drop", "done"}
(* A rule may name a channel twice, so a notification also says which of   *)
(* the rule's targets it is for, counted from the last (history).          *)
Notifications == [alert : Alerts, rule : RuleIds \cup {NoRule}, channel : ChannelSet,
                  target : Nat \ {0}]
Outcomes == [alert : Alerts, rule : RuleIds \cup {NoRule}, channel : ChannelSet \cup {"all"},
             target : Nat, time : 0..MaxTime,
             status : {"sent", "failed", "suppressed", "deduplicated"}]

-------------------------------------------------------------------------------
(* Bugs a change could introduce, each replacing the definition it is      *)
(* named after in one mutation run.                                        *)
DropUnlogged(n) == UNCHANGED logVars
ReturnForContinue(a) == /\ at' = [at EXCEPT ![a] = "done"]
                        /\ UNCHANGED <<rulesLeft, channelsLeft>>
DrainedAtOnce == queueClosed
WorkersGoneUnchecked == TRUE
RoomOffByOne == Len(dispatchQueue) <= QueueSize

-------------------------------------------------------------------------------
(* The repository.  Every call on a closed one fails; every caller ignores *)
(* the error of SaveNotificationLog.                                       *)
Fails == RepositoryErrors \/ ~repoOpen

Outcome(n, st) == [alert |-> n.alert, rule |-> n.rule, channel |-> n.channel,
                   target |-> n.target, status |-> st, time |-> now]

SaveNotificationLog(o) ==
  \/ repoOpen /\ logs' = logs \cup {o} /\ UNCHANGED unlogged
  \/ Fails /\ unlogged' = unlogged \cup {o} /\ UNCHANGED logs

ForAll(a, rule) == [alert |-> a, rule |-> rule, channel |-> "all", target |-> 0]

CountsAsSent(l) == l.status = "sent"
HasRecentNotification(rule, a) ==
  \E l \in logs : /\ CountsAsSent(l)
                  /\ l.rule = rule.id
                  /\ Subject[l.alert] = Subject[a]
                  /\ l.time + rule.cooldown >= now

-------------------------------------------------------------------------------
(* enqueueDispatch, under queueMu.  A notification that finds the channel  *)
(* closed or full stays with its sender, who keeps the lock.               *)
HasRoom == Len(dispatchQueue) < QueueSize

EnqueueDispatch(a, n) ==
  /\ dropping = {}
  /\ \/ /\ ~queueClosed /\ HasRoom
        /\ dispatchQueue' = Append(dispatchQueue, n)
        /\ UNCHANGED <<at, dropping>>
     \/ /\ queueClosed \/ ~HasRoom
        /\ dropping' = {n}
        /\ at' = [at EXCEPT ![a] = "drop"]
        /\ UNCHANGED dispatchQueue

-------------------------------------------------------------------------------
(* SendAnomalyAlert, one read or write of shared state at a time.          *)
SilencedByPolicy(a) == status[a] = "silenced"

Begin(a) ==
  /\ at[a] = "new"
  /\ at' = [at EXCEPT ![a] = IF SilencedByPolicy(a) THEN "suppressed" ELSE "noise"]
  /\ UNCHANGED <<snapshot, rulesLeft, channelsLeft, due, dropping>>
  /\ UNCHANGED <<envVars, settingVars, queueVars, workerVars, logVars, stop>>

(* notificationSuppressedByConfig: the filters are copied under the lock.  *)
CheckNoise(a) ==
  /\ at[a] = "noise"
  /\ at' = [at EXCEPT ![a] = IF Subject[a] \in noise THEN "suppressed" ELSE "config"]
  /\ UNCHANGED <<snapshot, rulesLeft, channelsLeft, due, dropping>>
  /\ UNCHANGED <<envVars, settingVars, queueVars, workerVars, logVars, stop>>

RecordSuppressed(a) ==
  /\ at[a] = "suppressed"
  /\ SaveNotificationLog(Outcome(ForAll(a, NoRule), "suppressed"))
  /\ at' = [at EXCEPT ![a] = "done"]
  /\ UNCHANGED <<snapshot, rulesLeft, channelsLeft, due, dropping>>
  /\ UNCHANGED <<envVars, settingVars, queueVars, workerVars, stop>>

CopyConfig(a) ==
  /\ at[a] = "config"
  /\ snapshot' = [snapshot EXCEPT ![a] = config]
  /\ at' = [at EXCEPT ![a] = "rules"]
  /\ UNCHANGED <<rulesLeft, channelsLeft, due, dropping>>
  /\ UNCHANGED <<envVars, settingVars, queueVars, workerVars, logVars, stop>>

(* With an enabled rule the list is walked in order, passing over those    *)
(* that are not.  Without one, or when ListNotificationRules fails, every  *)
(* configured channel is used.                                             *)
Enabled(r) == r.enabled
ActiveRules == IF \E r \in RuleList : Enabled(r) THEN Rules ELSE <<>>

ListRules(a) ==
  /\ at[a] = "rules"
  /\ \/ repoOpen /\ rulesLeft' = [rulesLeft EXCEPT ![a] = ActiveRules]
     \/ Fails /\ rulesLeft' = [rulesLeft EXCEPT ![a] = <<>>]
  /\ IF rulesLeft'[a] = <<>>
     THEN /\ channelsLeft' = [channelsLeft EXCEPT ![a] = Channels]
          /\ at' = [at EXCEPT ![a] = "channel"]
     ELSE at' = [at EXCEPT ![a] = "rule"] /\ UNCHANGED channelsLeft
  /\ UNCHANGED <<snapshot, due, dropping>>
  /\ UNCHANGED <<envVars, settingVars, queueVars, workerVars, logVars, stop>>

(* severityScore knows three severities.                                   *)
Score(s) == CASE s = "high" -> 3 [] s = "medium" -> 2 [] s = "low" -> 1 [] OTHER -> 0

RuleMatches(r, a) ==
  /\ Enabled(r)
  /\ Score(Severity[a]) >= Score(r.severityMin)
  /\ Subject[a] \in r.subjects

Fallback(a) == rulesLeft[a] = <<>>
CurrentRule(a) == IF Fallback(a) THEN NoRule ELSE Head(rulesLeft[a]).id
NextRule(a) == /\ at' = [at EXCEPT ![a] = "rule"]
               /\ rulesLeft' = [rulesLeft EXCEPT ![a] = Tail(@)]
               /\ UNCHANGED channelsLeft

(* One iteration of the loop over the active rules, up to its channels.    *)
(* An error of HasRecentNotification counts as "not recent".  A duplicate  *)
(* is recorded by a later call of the repository, with its own time.       *)
EvaluateRule(a) ==
  /\ at[a] = "rule"
  /\ rulesLeft[a] # <<>>
  /\ LET r == Head(rulesLeft[a])
     IN  \/ /\ ~RuleMatches(r, a)
            /\ NextRule(a)
         \/ /\ RuleMatches(r, a)
            /\ r.cooldown > 0 /\ repoOpen /\ HasRecentNotification(r, a)
            /\ at' = [at EXCEPT ![a] = "duplicate"]
            /\ UNCHANGED <<rulesLeft, channelsLeft>>
         \/ /\ RuleMatches(r, a)
            /\ r.cooldown = 0 \/ Fails \/ ~HasRecentNotification(r, a)
            /\ at' = [at EXCEPT ![a] = "channel"]
            /\ channelsLeft' = [channelsLeft EXCEPT ![a] = r.channels]
            /\ UNCHANGED rulesLeft
  /\ UNCHANGED <<snapshot, due, dropping>>
  /\ UNCHANGED <<envVars, settingVars, queueVars, workerVars, logVars, stop>>

RecordDuplicate(a) ==
  /\ at[a] = "duplicate"
  /\ rulesLeft[a] # <<>>
  /\ SaveNotificationLog(Outcome(ForAll(a, CurrentRule(a)), "deduplicated"))
  /\ NextRule(a)
  /\ UNCHANGED <<snapshot, due, dropping>>
  /\ UNCHANGED <<envVars, settingVars, queueVars, workerVars, stop>>

EndOfRules(a) ==
  /\ at[a] = "rule"
  /\ rulesLeft[a] = <<>>
  /\ at' = [at EXCEPT ![a] = "done"]
  /\ UNCHANGED <<snapshot, rulesLeft, channelsLeft, due, dropping>>
  /\ UNCHANGED <<envVars, settingVars, queueVars, workerVars, logVars, stop>>

(* One channel of the current rule, in the order of its channel_targets.   *)
(* A rule that names a channel without credentials gets a failed outcome;  *)
(* the fallback leaves it alone, and so does a target no case matches.     *)
ServeChannel(a) ==
  /\ at[a] = "channel"
  /\ channelsLeft[a] # <<>>
  /\ LET n == [alert |-> a, rule |-> CurrentRule(a), channel |-> Head(channelsLeft[a]),
               target |-> Len(channelsLeft[a])]
     IN  \/ /\ n.channel \in snapshot[a]
            /\ due' = due \cup {n}
            /\ EnqueueDispatch(a, n)
            /\ UNCHANGED logVars
         \/ /\ n.channel \in ChannelSet \ snapshot[a] /\ ~Fallback(a)
            /\ due' = due \cup {n}
            /\ SaveNotificationLog(Outcome(n, "failed"))
            /\ UNCHANGED <<at, dropping, dispatchQueue>>
         \/ /\ n.channel \notin snapshot[a]
            /\ Fallback(a) \/ n.channel \notin ChannelSet
            /\ UNCHANGED <<at, due, dropping, dispatchQueue, logVars>>
  /\ channelsLeft' = [channelsLeft EXCEPT ![a] = Tail(@)]
  /\ UNCHANGED <<snapshot, rulesLeft, queueClosed>>
  /\ UNCHANGED <<envVars, settingVars, workerVars, stop>>

(* recordDroppedDispatch; the deferred Unlock of queueMu follows.          *)
RecordDrop(n) == SaveNotificationLog(Outcome(n, "failed"))

RecordDropped(a) ==
  /\ at[a] = "drop"
  /\ \E n \in dropping : RecordDrop(n)
  /\ dropping' = {}
  /\ at' = [at EXCEPT ![a] = "channel"]
  /\ UNCHANGED <<snapshot, rulesLeft, channelsLeft, due>>
  /\ UNCHANGED <<envVars, settingVars, queueVars, workerVars, stop>>

EndOfChannels(a) ==
  /\ at[a] = "channel"
  /\ channelsLeft[a] = <<>>
  /\ at' = [at EXCEPT ![a] = "rule"]
  /\ rulesLeft' = [rulesLeft EXCEPT ![a] = IF Fallback(a) THEN <<>> ELSE Tail(@)]
  /\ UNCHANGED <<snapshot, channelsLeft, due, dropping>>
  /\ UNCHANGED <<envVars, settingVars, queueVars, workerVars, logVars, stop>>

-------------------------------------------------------------------------------
(* dispatchWorker and dispatchHTTP.  The request times out after five      *)
(* seconds, so it ends, one way or the other.                              *)
Idle(w) == hand[w] = {} /\ w \notin exited

Take(w) ==
  /\ Idle(w)
  /\ dispatchQueue # <<>>
  /\ hand' = [hand EXCEPT ![w] = {Head(dispatchQueue)}]
  /\ dispatchQueue' = Tail(dispatchQueue)
  /\ UNCHANGED <<envVars, settingVars, senderVars, queueClosed, exited, logVars, stop>>

Post(w) ==
  /\ \E n \in hand[w], st \in {"sent", "failed"} : SaveNotificationLog(Outcome(n, st))
  /\ hand' = [hand EXCEPT ![w] = {}]
  /\ UNCHANGED <<exited, envVars, settingVars, senderVars, queueVars, stop>>

(* The range over the channel ends when it is closed and empty.            *)
Drained == queueClosed /\ dispatchQueue = <<>>

WorkerExit(w) ==
  /\ Idle(w)
  /\ Drained
  /\ exited' = exited \cup {w}
  /\ UNCHANGED <<hand, envVars, settingVars, senderVars, queueVars, logVars, stop>>

-------------------------------------------------------------------------------
(* Shutdown, and the repository's Close that follows it in main.go.        *)
CloseQueue ==
  /\ stop = "running"
  /\ dropping = {}
  /\ queueClosed' = TRUE
  /\ stop' = "waiting"
  /\ UNCHANGED <<envVars, settingVars, senderVars, dispatchQueue, workerVars, logVars>>

WorkersGone == exited = Workers

(* dispatchWG.Wait returns, or the shutdown context is done first.         *)
ShutdownReturns ==
  /\ stop = "waiting"
  /\ \/ WorkersGone /\ stop' = "clean"
     \/ stop' = "timeout"
  /\ UNCHANGED <<envVars, settingVars, senderVars, queueVars, workerVars, logVars>>

CloseRepository ==
  /\ stop \in {"clean", "timeout"}
  /\ repoOpen
  /\ repoOpen' = FALSE
  /\ UNCHANGED <<now, status, settingVars, senderVars, queueVars, workerVars, logVars, stop>>

-------------------------------------------------------------------------------
(* UpdateConfig and UpdateNoiseControls, called by the settings API.       *)
UpdateConfig(c) ==
  /\ config' = c
  /\ UNCHANGED <<envVars, noise, senderVars, queueVars, workerVars, logVars, stop>>

UpdateNoiseControls(s) ==
  /\ noise' = s
  /\ UNCHANGED <<envVars, config, senderVars, queueVars, workerVars, logVars, stop>>

Tick ==
  /\ now < MaxTime
  /\ now' = now + 1
  /\ UNCHANGED <<status, repoOpen, settingVars, senderVars, queueVars, workerVars, logVars, stop>>

-------------------------------------------------------------------------------
Send(a) == \/ CheckNoise(a) \/ RecordSuppressed(a) \/ CopyConfig(a) \/ ListRules(a)
           \/ EvaluateRule(a) \/ RecordDuplicate(a) \/ EndOfRules(a)
           \/ ServeChannel(a) \/ RecordDropped(a) \/ EndOfChannels(a)
Dispatch(w) == Take(w) \/ Post(w) \/ WorkerExit(w)
Settings == \/ \E c \in Configs : UpdateConfig(c)
            \/ \E s \in NoiseControls : UpdateNoiseControls(s)

Init ==
  /\ now = 0
  /\ status \in [Alerts -> {"active", "silenced"}]
  /\ config \in Configs
  /\ noise \in NoiseControls
  /\ at = [a \in Alerts |-> "new"]
  /\ snapshot = [a \in Alerts |-> {}]
  /\ rulesLeft = [a \in Alerts |-> <<>>]
  /\ channelsLeft = [a \in Alerts |-> <<>>]
  /\ due = {}
  /\ dropping = {}
  /\ dispatchQueue = <<>>
  /\ queueClosed = FALSE
  /\ hand = [w \in Workers |-> {}]
  /\ exited = {}
  /\ logs = {}
  /\ unlogged = {}
  /\ repoOpen = TRUE
  /\ stop = "running"

(* Once stopped the process is about to exit.  The clock stands still      *)
(* here; the composition with the rest of the pipeline lets it Tick.       *)
Stopped == ~repoOpen /\ UNCHANGED vars

Next ==
  \/ \E a \in Alerts : Begin(a) \/ Send(a)
  \/ \E w \in Workers : Dispatch(w)
  \/ CloseQueue \/ ShutdownReturns \/ CloseRepository
  \/ Settings
  \/ Stopped

(* Goroutines are scheduled and no HTTP request outlives its timeout.      *)
Fairness ==
  /\ \A a \in Alerts : WF_vars(Send(a))
  /\ \A w \in Workers : WF_vars(Dispatch(w))

SafeSpec == Init /\ [][Next]_vars
Spec == SafeSpec /\ Fairness
-------------------------------------------------------------------------------
InQueue == {dispatchQueue[i] : i \in 1..Len(dispatchQueue)}
InHand == UNION {hand[w] : w \in Workers}
Recorded == logs \cup unlogged
OutcomeOf(n, o) == o.alert = n.alert /\ o.rule = n.rule /\ o.target = n.target
HasOutcome(n) == \E o \in Recorded : OutcomeOf(n, o)

TypeOK ==
  /\ now \in 0..MaxTime
  /\ status \in [Alerts -> {"active", "silenced"}]
  /\ config \in SUBSET ChannelSet
  /\ noise \in SUBSET Subjects
  /\ at \in [Alerts -> Places]
  /\ snapshot \in [Alerts -> SUBSET ChannelSet]
  /\ rulesLeft \in [Alerts -> Seq(RuleList)]
  /\ channelsLeft \in [Alerts -> Seq(Targets)]
  /\ due \subseteq Notifications
  /\ dropping \subseteq Notifications
  /\ dispatchQueue \in Seq(Notifications)
  /\ Len(dispatchQueue) <= QueueSize
  /\ queueClosed \in BOOLEAN
  /\ hand \in [Workers -> SUBSET Notifications]
  /\ exited \subseteq Workers
  /\ logs \subseteq Outcomes
  /\ unlogged \subseteq Outcomes
  /\ repoOpen \in BOOLEAN
  /\ stop \in {"running", "waiting", "clean", "timeout"}

(* Every notification the engine decided on is in exactly one place: in    *)
(* the channel, in one worker's hands, with a sender that records its drop *)
(* under queueMu, or ended with one recorded outcome.  A full or closed    *)
(* queue, a missing credential, a failed request or a shutdown makes no    *)
(* notification disappear without a trace, none is attempted twice, and a  *)
(* Shutdown that returned without an error left none to the workers,       *)
(* although callbacks may still be running (engine.go SendAnomalyAlert,    *)
(* dispatch.go enqueueDispatch, Shutdown).                                 *)
OnTheWay == InQueue \cup InHand \cup dropping
NotificationsAccounted ==
  /\ due = OnTheWay \cup {n \in due : HasOutcome(n)}
  /\ \A o \in Recorded : o.target # 0 => \E n \in due : OutcomeOf(n, o)
  /\ \A n \in OnTheWay : ~HasOutcome(n)
  /\ InQueue \cap InHand = {} /\ dropping \cap (InQueue \cup InHand) = {}
  /\ \A i, j \in 1..Len(dispatchQueue) : dispatchQueue[i] = dispatchQueue[j] => i = j
  /\ \A w, x \in Workers : w # x => hand[w] \cap hand[x] = {}
  /\ \A o, p \in Recorded : OutcomeOf(p, o) => o = p
  /\ stop = "clean" => InQueue = {} /\ InHand = {}

(* One rule that is a duplicate, or one channel without credentials or     *)
(* without room in the queue, costs an alert no other rule and no other    *)
(* channel: when its goroutine is done the alert was suppressed, or every  *)
(* configured channel was served because no rules could be had, or every   *)
(* rule that matches it is recorded as deduplicated or decided on each of  *)
(* its targets (the loops of SendAnomalyAlert with their continues).       *)
EveryRuleServed ==
  \A a \in {b \in Alerts : at[b] = "done"} :
    LET decided(rule, channel, target) ==
          [alert |-> a, rule |-> rule, channel |-> channel, target |-> target] \in due
        ended(rule, st) ==
          \E o \in Recorded : o.alert = a /\ o.rule = rule /\ o.status = st
    IN  \/ ended(NoRule, "suppressed")
        \/ \A i \in 1..Len(Channels) :
             Channels[i] \in snapshot[a] => decided(NoRule, Channels[i], Len(Channels) - i + 1)
        \/ \A r \in {q \in RuleList : RuleMatches(q, a)} :
             \/ ended(r.id, "deduplicated")
             \/ \A i \in 1..Len(r.channels) :
                  r.channels[i] \in ChannelSet =>
                    decided(r.id, r.channels[i], Len(r.channels) - i + 1)

(* Every notification ends with an outcome, shutdown or not: the workers   *)
(* drain the closed channel before they exit, and a sender under queueMu   *)
(* gives the lock back.                                                    *)
EveryDispatchEnds == []<>(OnTheWay = {})

(* What the source says and the code does not do.  repository.go calls     *)
(* CooldownSeconds the "Deduplication period" of a rule: two alerts of one *)
(* subject are not both delivered under one rule within its cooldown.      *)
OneDeliveryPerCooldown ==
  \A l, m \in logs : \A r \in RuleList :
    /\ l.status = "sent" /\ m.status = "sent"
    /\ l.rule = r.id /\ m.rule = r.id
    /\ Subject[l.alert] = Subject[m.alert] /\ l.alert # m.alert
    /\ l.time <= m.time
    => m.time > l.time + r.cooldown
===============================================================================

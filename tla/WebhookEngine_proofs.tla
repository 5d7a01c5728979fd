--------------------------- MODULE WebhookEngine_proofs ---------------------------
(***************************************************************************)
(* Proofs about WebhookEngine for any alerts, rules, channels, workers and *)
(* queue size.  Every lemma about a step also covers Tick, so that the     *)
(* proofs about AlertPipeline, which lets the clock move, can cite it.     *)
(***************************************************************************)
EXTENDS WebhookEngine, SequenceTheorems, TLAPS

WebStep == Next \/ Tick

-------------------------------------------------------------------------------
(* Helpers.                                                                *)

(* Recording an outcome adds it to the log or to what the log missed, and  *)
(* nothing else.                                                           *)
LEMMA Saved ==
  ASSUME NEW o, SaveNotificationLog(o)
  PROVE  /\ Recorded' = Recorded \cup {o}
         /\ logs \subseteq logs' /\ logs' \subseteq logs \cup {o}
BY DEF SaveNotificationLog, Recorded

(* It types when the outcome does.                                         *)
LEMMA SavedTyped ==
  ASSUME NEW o \in Outcomes, SaveNotificationLog(o),
         logs \subseteq Outcomes, unlogged \subseteq Outcomes
  PROVE  logs' \subseteq Outcomes /\ unlogged' \subseteq Outcomes
BY DEF SaveNotificationLog

(* The outcomes of a notification, and those that stand for all channels.  *)
LEMMA OutcomeTyped ==
  ASSUME now \in 0..MaxTime
  PROVE  /\ \A n \in Notifications, st \in {"sent", "failed"} : Outcome(n, st) \in Outcomes
         /\ \A a \in Alerts, rule \in RuleIds \cup {NoRule},
               st \in {"suppressed", "deduplicated"} :
               Outcome(ForAll(a, rule), st) \in Outcomes
BY DEF Outcome, Outcomes, Notifications, ForAll

(* What a rule at the head of the list is.                                 *)
LEMMA HeadRule ==
  ASSUME NEW s \in Seq(RuleList), s # <<>>
  PROVE  /\ Head(s) \in RuleList
         /\ Head(s).id \in RuleIds
         /\ Head(s).channels \in Seq(Targets)
         /\ Tail(s) \in Seq(RuleList)
<1>1. Head(s) \in RuleList /\ Tail(s) \in Seq(RuleList)
  BY HeadTailProperties
<1> QED BY <1>1, RuleAssumption DEF RuleRecord, RuleIds

(* The sender's rule has an identifier of the rules, or none.              *)
LEMMA CurrentTyped ==
  ASSUME TypeOK, NEW a \in Alerts
  PROVE  CurrentRule(a) \in RuleIds \cup {NoRule}
<1>1. rulesLeft[a] \in Seq(RuleList)
  BY DEF TypeOK
<1> QED BY <1>1, HeadRule DEF CurrentRule, Fallback

(* The notification a sender serves.                                       *)
Served(a) == [alert |-> a, rule |-> CurrentRule(a), channel |-> Head(channelsLeft[a]),
              target |-> Len(channelsLeft[a])]

(* What a sender makes of an alert and the channel at the head of its list *)
(* is a notification.                                                      *)
LEMMA ServedTyped ==
  ASSUME TypeOK, NEW a \in Alerts, channelsLeft[a] # <<>>,
         Head(channelsLeft[a]) \in ChannelSet
  PROVE  Served(a) \in Notifications
<1>1. channelsLeft[a] \in Seq(Targets)
  BY DEF TypeOK
<1>2. Len(channelsLeft[a]) \in Nat \ {0}
  BY <1>1, EmptySeq
<1> QED BY <1>2, CurrentTyped DEF Served, Notifications

-------------------------------------------------------------------------------
(* Types.                                                                  *)
LEMMA TypedInit == Init => TypeOK
<1> SUFFICES ASSUME Init PROVE TypeOK
  OBVIOUS
<1>1. now \in 0..MaxTime
  BY BoundAssumption DEF Init
<1>2. config \in SUBSET ChannelSet /\ noise \in SUBSET Subjects
  BY ControlAssumption DEF Init
<1>3. dispatchQueue \in Seq(Notifications) /\ Len(dispatchQueue) <= QueueSize
  BY BoundAssumption DEF Init
<1>4. /\ rulesLeft \in [Alerts -> Seq(RuleList)]
      /\ channelsLeft \in [Alerts -> Seq(Targets)]
  BY DEF Init
<1> QED BY <1>1, <1>2, <1>3, <1>4 DEF Init, TypeOK, Places

(* A notification handed to the queue, or kept by its sender, types.       *)
LEMMA EnqueueTyped ==
  ASSUME TypeOK, NEW n \in Notifications, NEW a \in Alerts, EnqueueDispatch(a, n)
  PROVE  /\ dispatchQueue' \in Seq(Notifications) /\ Len(dispatchQueue') <= QueueSize
         /\ at' \in [Alerts -> Places] /\ dropping' \subseteq Notifications
<1>1. /\ dispatchQueue \in Seq(Notifications) /\ Len(dispatchQueue) <= QueueSize
      /\ at \in [Alerts -> Places] /\ dropping \subseteq Notifications
  BY DEF TypeOK
<1>2. CASE /\ dropping' = {n} /\ at' = [at EXCEPT ![a] = "drop"]
           /\ UNCHANGED dispatchQueue
  BY <1>1, <1>2 DEF Places
<1>3. CASE /\ HasRoom /\ dispatchQueue' = Append(dispatchQueue, n)
           /\ UNCHANGED <<at, dropping>>
  <2>1. Len(dispatchQueue) \in Nat /\ Len(dispatchQueue) < QueueSize
    BY <1>1, <1>3, LenProperties DEF HasRoom
  <2>2. Len(dispatchQueue') = Len(dispatchQueue) + 1 /\ dispatchQueue' \in Seq(Notifications)
    BY <1>1, <1>3, AppendProperties
  <2> QED BY <1>1, <1>3, <2>1, <2>2, BoundAssumption
<1> QED BY <1>2, <1>3 DEF EnqueueDispatch

(* Every step types: one case per action.                                  *)
LEMMA TypedStep == TypeOK /\ [WebStep]_vars => TypeOK'
<1> SUFFICES ASSUME TypeOK, [WebStep]_vars PROVE TypeOK'
  OBVIOUS
<1> USE DEF envVars, settingVars, senderVars, queueVars, workerVars, logVars
<1>1. ASSUME NEW a \in Alerts, Begin(a) \/ CheckNoise(a) PROVE TypeOK'
  <2>1. at' \in [Alerts -> Places]
    BY <1>1 DEF Begin, CheckNoise, TypeOK, Places
  <2> QED BY <1>1, <2>1 DEF Begin, CheckNoise, TypeOK
<1>2. ASSUME NEW a \in Alerts, RecordSuppressed(a) PROVE TypeOK'
  <2>1. at' \in [Alerts -> Places]
    BY <1>2 DEF RecordSuppressed, TypeOK, Places
  <2>2. logs' \subseteq Outcomes /\ unlogged' \subseteq Outcomes
    BY <1>2, SavedTyped, OutcomeTyped DEF RecordSuppressed, TypeOK
  <2> QED BY <1>2, <2>1, <2>2 DEF RecordSuppressed, TypeOK
<1>3. ASSUME NEW a \in Alerts, CopyConfig(a) PROVE TypeOK'
  BY <1>3 DEF CopyConfig, TypeOK, Places
<1>4. ASSUME NEW a \in Alerts, ListRules(a) PROVE TypeOK'
  <2>1. ActiveRules \in Seq(RuleList)
    BY RuleAssumption DEF ActiveRules
  <2>2. Channels \in Seq(Targets)
    BY ControlAssumption, SeqMonotonic DEF Targets
  <2>3. rulesLeft' \in [Alerts -> Seq(RuleList)]
    <3>1. \E s \in Seq(RuleList) : rulesLeft' = [rulesLeft EXCEPT ![a] = s]
      BY <1>4, <2>1, EmptySeq DEF ListRules
    <3> QED BY <3>1 DEF TypeOK
  <2>4. channelsLeft' \in [Alerts -> Seq(Targets)]
    BY <1>4, <2>2 DEF ListRules, TypeOK
  <2>5. at' \in [Alerts -> Places]
    BY <1>4 DEF ListRules, TypeOK, Places
  <2> QED BY <1>4, <2>3, <2>4, <2>5 DEF ListRules, TypeOK
<1>5. ASSUME NEW a \in Alerts, EvaluateRule(a) PROVE TypeOK'
  <2> DEFINE r == Head(rulesLeft[a])
  <2>1. rulesLeft[a] \in Seq(RuleList) /\ rulesLeft[a] # <<>>
    BY <1>5 DEF EvaluateRule, TypeOK
  <2>2. r.id \in RuleIds /\ r.channels \in Seq(Targets) /\ Tail(rulesLeft[a]) \in Seq(RuleList)
    BY <2>1, HeadRule
  <2>3. rulesLeft' \in [Alerts -> Seq(RuleList)]
    BY <1>5, <2>2 DEF EvaluateRule, NextRule, TypeOK
  <2>4. channelsLeft' \in [Alerts -> Seq(Targets)]
    BY <1>5, <2>2 DEF EvaluateRule, NextRule, TypeOK
  <2>5. at' \in [Alerts -> Places]
    BY <1>5 DEF EvaluateRule, NextRule, TypeOK, Places
  <2> QED BY <1>5, <2>3, <2>4, <2>5 DEF EvaluateRule, TypeOK
<1>16. ASSUME NEW a \in Alerts, RecordDuplicate(a) PROVE TypeOK'
  <2>1. rulesLeft[a] \in Seq(RuleList) /\ rulesLeft[a] # <<>>
    BY <1>16 DEF RecordDuplicate, TypeOK
  <2>2. at' \in [Alerts -> Places] /\ rulesLeft' \in [Alerts -> Seq(RuleList)]
    BY <1>16, <2>1, HeadRule DEF RecordDuplicate, NextRule, TypeOK, Places
  <2>3. logs' \subseteq Outcomes /\ unlogged' \subseteq Outcomes
    <3>1. Outcome(ForAll(a, CurrentRule(a)), "deduplicated") \in Outcomes
      BY CurrentTyped, OutcomeTyped DEF TypeOK
    <3> QED BY <1>16, <3>1, SavedTyped DEF RecordDuplicate, TypeOK
  <2> QED BY <1>16, <2>2, <2>3 DEF RecordDuplicate, NextRule, TypeOK
<1>6. ASSUME NEW a \in Alerts, EndOfRules(a) PROVE TypeOK'
  BY <1>6 DEF EndOfRules, TypeOK, Places
<1>7. ASSUME NEW a \in Alerts, ServeChannel(a) PROVE TypeOK'
  <2>1. channelsLeft[a] \in Seq(Targets) /\ channelsLeft[a] # <<>>
    BY <1>7 DEF ServeChannel, TypeOK
  <2>2. channelsLeft' \in [Alerts -> Seq(Targets)]
    BY <1>7, <2>1, HeadTailProperties DEF ServeChannel, TypeOK
  <2>3. /\ due' \subseteq Notifications
        /\ at' \in [Alerts -> Places] /\ dropping' \subseteq Notifications
        /\ dispatchQueue' \in Seq(Notifications) /\ Len(dispatchQueue') <= QueueSize
        /\ logs' \subseteq Outcomes /\ unlogged' \subseteq Outcomes
    <3>1. CASE Served(a).channel \in snapshot[a] /\ due' = due \cup {Served(a)}
               /\ EnqueueDispatch(a, Served(a)) /\ UNCHANGED logVars
      <4>1. Served(a) \in Notifications
        BY <2>1, <3>1, ServedTyped DEF Served, TypeOK
      <4> QED BY <3>1, <4>1, EnqueueTyped DEF TypeOK
    <3>2. CASE Served(a).channel \in ChannelSet /\ due' = due \cup {Served(a)}
               /\ SaveNotificationLog(Outcome(Served(a), "failed"))
               /\ UNCHANGED <<at, dropping, dispatchQueue>>
      <4>1. Served(a) \in Notifications
        BY <2>1, <3>2, ServedTyped DEF Served
      <4>2. Outcome(Served(a), "failed") \in Outcomes
        BY <4>1, OutcomeTyped DEF TypeOK
      <4> QED BY <3>2, <4>1, <4>2, SavedTyped DEF TypeOK
    <3>3. CASE UNCHANGED <<at, due, dropping, dispatchQueue, logVars>>
      BY <3>3 DEF TypeOK
    <3> QED BY <1>7, <3>1, <3>2, <3>3 DEF ServeChannel, Served
  <2> QED BY <1>7, <2>2, <2>3 DEF ServeChannel, TypeOK
<1>17. ASSUME NEW a \in Alerts, RecordDropped(a) PROVE TypeOK'
  <2>1. at' \in [Alerts -> Places]
    BY <1>17 DEF RecordDropped, TypeOK, Places
  <2>2. logs' \subseteq Outcomes /\ unlogged' \subseteq Outcomes
    BY <1>17, SavedTyped, OutcomeTyped DEF RecordDropped, RecordDrop, TypeOK
  <2> QED BY <1>17, <2>1, <2>2 DEF RecordDropped, TypeOK
<1>8. ASSUME NEW a \in Alerts, EndOfChannels(a) PROVE TypeOK'
  <2>1. rulesLeft[a] \in Seq(RuleList)
    BY DEF TypeOK
  <2>2. (IF Fallback(a) THEN <<>> ELSE Tail(rulesLeft[a])) \in Seq(RuleList)
    BY <2>1, HeadRule DEF Fallback
  <2> QED BY <1>8, <2>2 DEF EndOfChannels, TypeOK, Places
<1>9. ASSUME NEW w \in Workers, Take(w) PROVE TypeOK'
  <2>1. dispatchQueue \in Seq(Notifications) /\ dispatchQueue # <<>> /\ Len(dispatchQueue) <= QueueSize
    BY <1>9 DEF Take, TypeOK
  <2>2. /\ Head(dispatchQueue) \in Notifications /\ dispatchQueue' \in Seq(Notifications)
        /\ Len(dispatchQueue') = Len(dispatchQueue) - 1 /\ Len(dispatchQueue) \in Nat
    BY <1>9, <2>1, HeadTailProperties, LenProperties DEF Take
  <2>3. Len(dispatchQueue') <= QueueSize
    BY <2>1, <2>2, BoundAssumption
  <2> QED BY <1>9, <2>2, <2>3 DEF Take, TypeOK
<1>10. ASSUME NEW w \in Workers, Post(w) PROVE TypeOK'
  <2>1. logs' \subseteq Outcomes /\ unlogged' \subseteq Outcomes
    BY <1>10, SavedTyped, OutcomeTyped DEF Post, TypeOK
  <2> QED BY <1>10, <2>1 DEF Post, TypeOK
<1>11. ASSUME NEW w \in Workers, WorkerExit(w) PROVE TypeOK'
  BY <1>11 DEF WorkerExit, TypeOK
<1>12. CASE CloseQueue \/ ShutdownReturns \/ CloseRepository
  BY <1>12 DEF CloseQueue, ShutdownReturns, CloseRepository, TypeOK
<1>13. CASE Settings
  BY <1>13, ControlAssumption DEF Settings, UpdateConfig, UpdateNoiseControls, TypeOK
<1>14. CASE Tick
  <2>1. now' \in 0..MaxTime
    BY <1>14, BoundAssumption DEF Tick, TypeOK
  <2> QED BY <1>14, <2>1 DEF Tick, TypeOK
<1>15. CASE UNCHANGED vars
  BY <1>15 DEF vars, TypeOK
<1> QED BY <1>1, <1>2, <1>3, <1>4, <1>5, <1>6, <1>7, <1>8, <1>9, <1>10, <1>11, <1>12,
           <1>13, <1>14, <1>15, <1>16, <1>17 DEF WebStep, Next, Send, Dispatch, Stopped

(* Every queued notification, outcome and settings snapshot keeps its      *)
(* type, and the queue never exceeds its capacity.                         *)
THEOREM Typed == SafeSpec => []TypeOK
<1>1. Init => TypeOK
  BY TypedInit
<1>2. TypeOK /\ [Next]_vars => TypeOK'
  BY TypedStep DEF WebStep
<1> QED BY <1>1, <1>2, PTL DEF SafeSpec

-------------------------------------------------------------------------------
(* Where each notification is.                                             *)

(* Which alerts and rules have no notification and no outcome yet.         *)
NothingOf(a) == (\A n \in due : n.alert # a) /\ (\A o \in Recorded : o.alert # a)
NothingUnder(a, rule) ==
  /\ \A n \in due : n.alert = a => n.rule # rule
  /\ \A o \in Recorded : o.alert = a => o.rule # rule

(* A sender decides on nothing twice: what it has decided belongs to a     *)
(* rule it has left behind, or to a target of the current rule that is no  *)
(* longer to be served.                                                    *)
Progress(a) ==
  /\ at[a] \in {"new", "noise", "suppressed", "config", "rules"} => NothingOf(a)
  /\ at[a] \in {"rule", "duplicate"} =>
       \A i \in 1..Len(rulesLeft[a]) : NothingUnder(a, rulesLeft[a][i].id)
  /\ at[a] \in {"channel", "drop"} =>
       /\ \A i \in 2..Len(rulesLeft[a]) : NothingUnder(a, rulesLeft[a][i].id)
       /\ \A n \in due : n.alert = a /\ n.rule = CurrentRule(a) => n.target > Len(channelsLeft[a])
  /\ \A i, j \in 1..Len(rulesLeft[a]) : rulesLeft[a][i].id = rulesLeft[a][j].id => i = j

(* A worker holds one request at a time and leaves with none, after the    *)
(* closed channel ran dry; a clean Shutdown saw every worker leave.        *)
Hands ==
  /\ \A w \in Workers : \A m, n \in hand[w] : m = n
  /\ \A w \in exited : hand[w] = {}
  /\ exited # {} => queueClosed /\ dispatchQueue = <<>>
  /\ stop = "clean" => exited = Workers

(* Each notification is in one place, and identified by its alert, its     *)
(* rule and its target.                                                    *)
EachOnce ==
  /\ due = OnTheWay \cup {n \in due : HasOutcome(n)}
  /\ \A o \in Recorded : o.target # 0 => \E n \in due : OutcomeOf(n, o)
  /\ \A n \in OnTheWay : ~HasOutcome(n)
  /\ InQueue \cap InHand = {} /\ dropping \cap (InQueue \cup InHand) = {}
  /\ \A i, j \in 1..Len(dispatchQueue) : dispatchQueue[i] = dispatchQueue[j] => i = j
  /\ \A w, x \in Workers : w # x => hand[w] \cap hand[x] = {}
  /\ \A m, n \in dropping : m = n
  /\ \A o, p \in Recorded : OutcomeOf(p, o) => o = p
  /\ \A m, n \in due : OutcomeOf(m, n) => m = n

WInv == EachOnce /\ Hands /\ \A a \in Alerts : Progress(a)

(* The invariant is as strong as the property.                             *)
LEMMA WInvImplies == TypeOK /\ WInv => NotificationsAccounted
<1> SUFFICES ASSUME TypeOK, WInv PROVE NotificationsAccounted
  OBVIOUS
<1>1. stop = "clean" => InQueue = {} /\ InHand = {}
  <2> SUFFICES ASSUME stop = "clean" PROVE InQueue = {} /\ InHand = {}
    OBVIOUS
  <2>1. exited = Workers /\ Workers # {}
    BY BoundAssumption DEF WInv, Hands
  <2>2. dispatchQueue = <<>> /\ \A w \in Workers : hand[w] = {}
    BY <2>1 DEF WInv, Hands
  <2> QED BY <2>2 DEF InQueue, InHand
<1> QED BY <1>1 DEF WInv, EachOnce, NotificationsAccounted

(* The elements of the queue after a send and after a receive.             *)
LEMMA Appended ==
  ASSUME TypeOK, NEW n \in Notifications, dispatchQueue' = Append(dispatchQueue, n), n \notin InQueue,
         \A i, j \in 1..Len(dispatchQueue) : dispatchQueue[i] = dispatchQueue[j] => i = j
  PROVE  /\ InQueue' = InQueue \cup {n}
         /\ \A i, j \in 1..Len(dispatchQueue') : dispatchQueue'[i] = dispatchQueue'[j] => i = j
<1> DEFINE q == dispatchQueue
<1>1. q \in Seq(Notifications) /\ Len(q) \in Nat
  BY LenProperties DEF TypeOK
<1>2. /\ Len(q') = Len(q) + 1 /\ q'[Len(q) + 1] = n
      /\ \A i \in 1..Len(q) : q'[i] = q[i]
  BY <1>1, AppendProperties
<1>3. 1..Len(q') = 1..Len(q) \cup {Len(q) + 1}
  BY <1>1, <1>2
<1> QED BY <1>2, <1>3 DEF InQueue

(* Taking the head of a queue without repetitions leaves the others in it, *)
(* and nothing twice.                                                      *)
LEMMA HeadTaken ==
  ASSUME TypeOK, dispatchQueue # <<>>, dispatchQueue' = Tail(dispatchQueue),
         \A i, j \in 1..Len(dispatchQueue) : dispatchQueue[i] = dispatchQueue[j] => i = j
  PROVE  /\ InQueue = InQueue' \cup {Head(dispatchQueue)}
         /\ Head(dispatchQueue) \notin InQueue'
         /\ \A i, j \in 1..Len(dispatchQueue') : dispatchQueue'[i] = dispatchQueue'[j] => i = j
<1> DEFINE q == dispatchQueue
<1>1. q \in Seq(Notifications) /\ Len(q) \in Nat \ {0} /\ Head(q) = q[1]
  BY EmptySeq DEF TypeOK
<1>2. /\ Len(q') = Len(q) - 1
      /\ \A i \in 1..Len(q') : q'[i] = q[i + 1]
  BY <1>1, HeadTailProperties
<1>3. \A i \in 1..Len(q') : i + 1 \in 2..Len(q)
  BY <1>1, <1>2
<1>4. \A i \in 2..Len(q) : i - 1 \in 1..Len(q') /\ q'[i - 1] = q[i]
  BY <1>1, <1>2
<1>5. InQueue = InQueue' \cup {q[1]}
  <2>1. ASSUME NEW n \in InQueue PROVE n \in InQueue' \cup {q[1]}
    <3>1. PICK i \in 1..Len(q) : n = q[i]
      BY <2>1 DEF InQueue
    <3>2. CASE i = 1
      BY <3>1, <3>2
    <3>3. CASE i # 1
      <4>1. i \in 2..Len(q)
        BY <3>1, <3>3, <1>1
      <4> QED BY <3>1, <4>1, <1>4 DEF InQueue
    <3> QED BY <3>2, <3>3
  <2>2. ASSUME NEW n \in InQueue' PROVE n \in InQueue
    <3>1. PICK i \in 1..Len(q') : n = q'[i]
      BY <2>2 DEF InQueue
    <3> QED BY <3>1, <1>2, <1>3, <1>1 DEF InQueue
  <2>3. q[1] \in InQueue
    BY <1>1 DEF InQueue
  <2> QED BY <2>1, <2>2, <2>3
<1>6. q[1] \notin InQueue'
  <2> SUFFICES ASSUME NEW i \in 1..Len(q'), q'[i] = q[1] PROVE FALSE
    BY DEF InQueue
  <2> QED BY <1>1, <1>2, <1>3
<1>7. ASSUME NEW i \in 1..Len(q'), NEW j \in 1..Len(q'), q'[i] = q'[j] PROVE i = j
  <2>1. i + 1 = j + 1
    BY <1>1, <1>2, <1>3, <1>7
  <2> QED BY <2>1
<1> QED BY <1>1, <1>5, <1>6, <1>7

(* A step that moves no notification.                                      *)
LEMMA NoneMoved ==
  ASSUME EachOnce, Recorded' = Recorded, UNCHANGED <<due, dropping, dispatchQueue, hand>>
  PROVE  EachOnce'
<1>1. InQueue' = InQueue /\ InHand' = InHand /\ \A n : HasOutcome(n)' <=> HasOutcome(n)
  BY DEF InQueue, InHand, HasOutcome, OutcomeOf
<1>2. OnTheWay' = OnTheWay
  BY <1>1 DEF OnTheWay
<1> QED BY <1>1, <1>2 DEF EachOnce, OutcomeOf

(* An outcome that stands for all channels is nobody's outcome: nothing    *)
(* but the log changes.                                                    *)
LEMMA AllRecorded ==
  ASSUME TypeOK, EachOnce, NEW o, o.target = 0, \A p \in Recorded : ~OutcomeOf(p, o),
         Recorded' = Recorded \cup {o}, UNCHANGED <<due, dropping, dispatchQueue, hand>>
  PROVE  EachOnce'
<1>1. \A n \in due : n.target # 0
  BY DEF TypeOK, Notifications
<1>2. OnTheWay \subseteq due
  BY DEF EachOnce
<1>3. \A n \in due : HasOutcome(n)' <=> HasOutcome(n)
  BY <1>1 DEF HasOutcome, OutcomeOf
<1>4. InQueue' = InQueue /\ InHand' = InHand /\ OnTheWay' = OnTheWay
  BY DEF InQueue, InHand, OnTheWay
<1>5. \A p, r \in Recorded' : OutcomeOf(r, p) => p = r
  BY DEF EachOnce, OutcomeOf
<1>6. due' = OnTheWay' \cup {m \in due' : HasOutcome(m)'}
  BY <1>3, <1>4 DEF EachOnce
<1>7. \A n \in OnTheWay' : ~HasOutcome(n)'
  BY <1>2, <1>3, <1>4 DEF EachOnce
<1>8. \A p \in Recorded' : p.target # 0 => \E n \in due' : OutcomeOf(n, p)
  BY DEF EachOnce
<1> QED BY <1>4, <1>5, <1>6, <1>7, <1>8 DEF EachOnce, OutcomeOf

(* A new notification enters the channel, or stays with its sender, who    *)
(* has to record that there was no place for it.                           *)
LEMMA ServedQueued ==
  ASSUME TypeOK, EachOnce, NEW n \in Notifications, \A m \in due : ~OutcomeOf(m, n),
         due' = due \cup {n}, Recorded' = Recorded, UNCHANGED hand, dropping = {},
         \/ dispatchQueue' = Append(dispatchQueue, n) /\ UNCHANGED dropping
         \/ dropping' = {n} /\ UNCHANGED dispatchQueue
  PROVE  EachOnce'
<1>1. n \notin due
  BY DEF OutcomeOf
<1>2. OnTheWay \subseteq due /\ OnTheWay = InQueue \cup InHand
  BY DEF EachOnce, OnTheWay
<1>3. InHand' = InHand
  BY DEF InHand
<1>4. /\ OnTheWay' = OnTheWay \cup {n}
      /\ InQueue' \cap InHand' = {} /\ dropping' \cap (InQueue' \cup InHand') = {}
      /\ \A i, j \in 1..Len(dispatchQueue') : dispatchQueue'[i] = dispatchQueue'[j] => i = j
      /\ \A m, x \in dropping' : m = x
  <2>1. CASE dispatchQueue' = Append(dispatchQueue, n) /\ UNCHANGED dropping
    <3>1. /\ InQueue' = InQueue \cup {n}
          /\ \A i, j \in 1..Len(dispatchQueue') : dispatchQueue'[i] = dispatchQueue'[j] => i = j
      BY <1>1, <1>2, <2>1, Appended DEF EachOnce
    <3> QED BY <1>1, <1>2, <1>3, <2>1, <3>1 DEF EachOnce, OnTheWay
  <2>2. CASE dropping' = {n} /\ UNCHANGED dispatchQueue
    <3>1. InQueue' = InQueue
      BY <2>2 DEF InQueue
    <3> QED BY <1>1, <1>2, <1>3, <2>2, <3>1 DEF EachOnce, OnTheWay
  <2> QED BY <2>1, <2>2
<1>5. ~HasOutcome(n)
  BY DEF EachOnce, HasOutcome, OutcomeOf, Notifications
<1>6. \A m : HasOutcome(m)' <=> HasOutcome(m)
  BY DEF HasOutcome, OutcomeOf
<1>7. \A m, x \in due' : OutcomeOf(m, x) => m = x
  BY DEF EachOnce, OutcomeOf
<1>8. \A o \in Recorded' : o.target # 0 => \E m \in due' : OutcomeOf(m, o)
  BY DEF EachOnce
<1>9. due' = OnTheWay' \cup {m \in due' : HasOutcome(m)'}
  BY <1>4, <1>6 DEF EachOnce
<1>10. \A m \in OnTheWay' : ~HasOutcome(m)'
  BY <1>4, <1>5, <1>6 DEF EachOnce
<1> QED BY <1>4, <1>7, <1>8, <1>9, <1>10 DEF EachOnce, OutcomeOf

(* A new notification fails before it reaches the channel.                 *)
LEMMA ServedFailed ==
  ASSUME TypeOK, EachOnce, NEW n \in Notifications, \A m \in due : ~OutcomeOf(m, n),
         due' = due \cup {n}, Recorded' = Recorded \cup {Outcome(n, "failed")},
         UNCHANGED <<dropping, dispatchQueue, hand>>
  PROVE  EachOnce'
<1> DEFINE o == Outcome(n, "failed")
<1>0. o.alert = n.alert /\ o.rule = n.rule /\ o.target = n.target /\ n.target # 0
  BY DEF Outcome, Notifications
<1> HIDE DEF o
<1>1. n \notin due
  BY DEF OutcomeOf
<1>2. OnTheWay \subseteq due
  BY DEF EachOnce
<1>3. InQueue' = InQueue /\ InHand' = InHand /\ OnTheWay' = OnTheWay
  BY DEF InQueue, InHand, OnTheWay
<1>4. \A p \in Recorded : ~OutcomeOf(p, o) /\ ~OutcomeOf(o, p)
  BY <1>0 DEF EachOnce, OutcomeOf
<1>5. \A m \in due : HasOutcome(m)' <=> HasOutcome(m)
  BY <1>0 DEF HasOutcome, OutcomeOf, o
<1>6. HasOutcome(n)'
  BY <1>0 DEF HasOutcome, OutcomeOf, o
<1>7. \A m, x \in due' : OutcomeOf(m, x) => m = x
  BY DEF EachOnce, OutcomeOf
<1>8. \A p \in Recorded' : p.target # 0 => \E m \in due' : OutcomeOf(m, p)
  BY <1>0 DEF EachOnce, OutcomeOf, o
<1>9. \A p, r \in Recorded' : OutcomeOf(r, p) => p = r
  BY <1>4 DEF EachOnce, o
<1>10. due' = OnTheWay' \cup {m \in due' : HasOutcome(m)'}
  BY <1>2, <1>3, <1>5, <1>6 DEF EachOnce
<1>11. \A m \in OnTheWay' : ~HasOutcome(m)'
  BY <1>2, <1>3, <1>5 DEF EachOnce
<1>12. /\ InQueue' \cap InHand' = {} /\ dropping' \cap (InQueue' \cup InHand') = {}
       /\ \A i, j \in 1..Len(dispatchQueue') : dispatchQueue'[i] = dispatchQueue'[j] => i = j
       /\ \A w, x \in Workers : w # x => hand'[w] \cap hand'[x] = {}
       /\ \A m, x \in dropping' : m = x
  BY <1>3 DEF EachOnce
<1> QED BY <1>7, <1>8, <1>9, <1>10, <1>11, <1>12 DEF EachOnce

(* A worker with empty hands takes the request at the head of the channel. *)
LEMMA HandTaken ==
  ASSUME TypeOK, EachOnce, NEW w \in Workers, Take(w)
  PROVE  EachOnce'
<1> DEFINE n == Head(dispatchQueue)
<1>1. /\ InQueue = InQueue' \cup {n} /\ n \notin InQueue'
      /\ \A i, j \in 1..Len(dispatchQueue') : dispatchQueue'[i] = dispatchQueue'[j] => i = j
  BY HeadTaken DEF EachOnce, Take
<1>2. /\ hand[w] = {} /\ hand'[w] = {n} /\ \A x \in Workers \ {w} : hand'[x] = hand[x]
  BY DEF Take, Idle, TypeOK
<1> HIDE DEF n
<1>3. InHand' = InHand \cup {n}
  BY <1>2 DEF InHand
<1>4. due' = due /\ dropping' = dropping /\ Recorded' = Recorded
  BY DEF Take, senderVars, logVars, Recorded
<1>5. \A m : HasOutcome(m)' <=> HasOutcome(m)
  BY <1>4 DEF HasOutcome, OutcomeOf
<1>6. \A x, y \in Workers : x # y => hand'[x] \cap hand'[y] = {}
  BY <1>1, <1>2 DEF EachOnce, InHand
<1>7. n \notin InHand
  BY <1>1 DEF EachOnce
<1>8. InQueue' \cap InHand' = {}
  BY <1>1, <1>3, <1>7 DEF EachOnce
<1>9. InQueue' \cup InHand' = InQueue \cup InHand
  BY <1>1, <1>3
<1>10. OnTheWay' = OnTheWay
  BY <1>4, <1>9 DEF OnTheWay
<1>11. dropping' \cap (InQueue' \cup InHand') = {}
  BY <1>4, <1>9 DEF EachOnce
<1> QED BY <1>1, <1>4, <1>5, <1>6, <1>8, <1>10, <1>11 DEF EachOnce

(* What was on its way ends with one outcome, in the hands of a worker or  *)
(* of the sender that records a drop.                                      *)
LEMMA Ended ==
  ASSUME TypeOK, EachOnce, NEW n \in OnTheWay, NEW st,
         Recorded' = Recorded \cup {Outcome(n, st)}, due' = due, OnTheWay' = OnTheWay \ {n}
  PROVE  /\ due' = OnTheWay' \cup {m \in due' : HasOutcome(m)'}
         /\ \A p \in Recorded' : p.target # 0 => \E m \in due' : OutcomeOf(m, p)
         /\ \A m \in OnTheWay' : ~HasOutcome(m)'
         /\ \A p, r \in Recorded' : OutcomeOf(r, p) => p = r
<1> DEFINE o == Outcome(n, st)
<1>1. n \in due /\ ~HasOutcome(n)
  BY DEF EachOnce
<1>2. o.alert = n.alert /\ o.rule = n.rule /\ o.target = n.target /\ n.target # 0
  BY <1>1 DEF Outcome, Notifications, TypeOK
<1> HIDE DEF o
<1>3. Recorded' = Recorded \cup {o}
  BY DEF o
<1>4. \A m \in due : HasOutcome(m)' <=> HasOutcome(m) \/ m = n
  BY <1>1, <1>2, <1>3 DEF HasOutcome, OutcomeOf, EachOnce
<1>5. \A p \in Recorded : ~OutcomeOf(p, o) /\ ~OutcomeOf(o, p)
  BY <1>1, <1>2 DEF HasOutcome, OutcomeOf
<1>6. \A p, r \in Recorded' : OutcomeOf(r, p) => p = r
  BY <1>3, <1>5 DEF EachOnce
<1>7. \A p \in Recorded' : p.target # 0 => \E m \in due' : OutcomeOf(m, p)
  BY <1>1, <1>2, <1>3 DEF EachOnce, OutcomeOf
<1>8. due' = OnTheWay' \cup {m \in due' : HasOutcome(m)'}
  BY <1>1, <1>4 DEF EachOnce
<1>9. \A m \in OnTheWay' : ~HasOutcome(m)'
  BY <1>1, <1>4 DEF EachOnce
<1> QED BY <1>6, <1>7, <1>8, <1>9

(* A worker ends its request with one outcome.                             *)
LEMMA HandPosted ==
  ASSUME TypeOK, EachOnce, Hands, NEW w \in Workers, Post(w)
  PROVE  EachOnce'
<1>1. PICK n \in hand[w], st \in {"sent", "failed"} : SaveNotificationLog(Outcome(n, st))
  BY DEF Post
<1>2. Recorded' = Recorded \cup {Outcome(n, st)}
  BY <1>1, Saved
<1>3. hand[w] = {n} /\ hand'[w] = {} /\ \A x \in Workers \ {w} : hand'[x] = hand[x]
  BY DEF Hands, Post, TypeOK
<1>4. n \in InHand /\ n \in OnTheWay /\ n \notin InQueue /\ n \notin dropping
  BY <1>3 DEF InHand, EachOnce, OnTheWay
<1>5. InHand' = InHand \ {n}
  BY <1>3 DEF InHand, EachOnce
<1>6. due' = due /\ dropping' = dropping /\ dispatchQueue' = dispatchQueue /\ InQueue' = InQueue
  BY DEF Post, senderVars, queueVars, InQueue
<1>7. OnTheWay' = OnTheWay \ {n}
  BY <1>4, <1>5, <1>6 DEF OnTheWay
<1>8. \A x, y \in Workers : x # y => hand'[x] \cap hand'[y] = {}
  BY <1>3 DEF EachOnce
<1>9. InQueue' \cap InHand' = {} /\ dropping' \cap (InQueue' \cup InHand') = {}
  BY <1>5, <1>6 DEF EachOnce
<1>10. \A m, x \in due' : OutcomeOf(m, x) => m = x
  BY <1>6 DEF EachOnce
<1>11. /\ due' = OnTheWay' \cup {m \in due' : HasOutcome(m)'}
       /\ \A p \in Recorded' : p.target # 0 => \E m \in due' : OutcomeOf(m, p)
       /\ \A m \in OnTheWay' : ~HasOutcome(m)'
       /\ \A p, r \in Recorded' : OutcomeOf(r, p) => p = r
  BY <1>2, <1>4, <1>6, <1>7, Ended
<1> QED BY <1>6, <1>8, <1>9, <1>10, <1>11 DEF EachOnce

(* A sender ends the notification it found no place for with one outcome,  *)
(* and gives queueMu back.                                                 *)
LEMMA DropRecorded ==
  ASSUME TypeOK, EachOnce, NEW a \in Alerts, RecordDropped(a)
  PROVE  /\ EachOnce' /\ due' = due
         /\ \A o \in Recorded' : o \in Recorded \/ \E n \in due : OutcomeOf(n, o)
<1>1. PICK n \in dropping : SaveNotificationLog(Outcome(n, "failed"))
  BY DEF RecordDropped, RecordDrop
<1>2. Recorded' = Recorded \cup {Outcome(n, "failed")}
  BY <1>1, Saved
<1>3. dropping = {n} /\ dropping' = {}
  BY DEF EachOnce, RecordDropped
<1>4. UNCHANGED <<due, dispatchQueue, hand>> /\ InQueue' = InQueue /\ InHand' = InHand
  BY DEF RecordDropped, queueVars, workerVars, InQueue, InHand
<1>5. n \in OnTheWay /\ OnTheWay' = OnTheWay \ {n}
  BY <1>3, <1>4 DEF OnTheWay, EachOnce
<1>6. /\ due' = OnTheWay' \cup {m \in due' : HasOutcome(m)'}
      /\ \A p \in Recorded' : p.target # 0 => \E m \in due' : OutcomeOf(m, p)
      /\ \A m \in OnTheWay' : ~HasOutcome(m)'
      /\ \A p, r \in Recorded' : OutcomeOf(r, p) => p = r
  BY <1>2, <1>4, <1>5, Ended
<1>7. EachOnce'
  BY <1>3, <1>4, <1>6 DEF EachOnce, OutcomeOf
<1>8. n \in due
  BY <1>5 DEF EachOnce
<1>9. OutcomeOf(n, Outcome(n, "failed"))
  BY DEF OutcomeOf, Outcome
<1> QED BY <1>2, <1>4, <1>7, <1>8, <1>9

(* A sender is as far as it was when a step adds nothing of its alert but  *)
(* outcomes of what it had decided on before.                              *)
LEMMA OthersKept ==
  ASSUME NEW b, Progress(b),
         \A n \in due' : n.alert = b => n \in due,
         \A o \in Recorded' : o.alert = b => o \in Recorded \/ \E n \in due : OutcomeOf(n, o),
         at'[b] = at[b], rulesLeft'[b] = rulesLeft[b], channelsLeft'[b] = channelsLeft[b]
  PROVE  Progress(b)'
<1>1. NothingOf(b) => NothingOf(b)'
  BY DEF NothingOf, OutcomeOf
<1>2. \A rule : NothingUnder(b, rule) => NothingUnder(b, rule)'
  BY DEF NothingUnder, OutcomeOf
<1> QED BY <1>1, <1>2 DEF Progress, CurrentRule, Fallback

(* Moving on to the next rule: the list loses its head.                    *)
LEMMA RuleLeft ==
  ASSUME TypeOK, NEW a \in Alerts, rulesLeft[a] # <<>>, rulesLeft' = [rulesLeft EXCEPT ![a] = Tail(@)],
         \A i, j \in 1..Len(rulesLeft[a]) : rulesLeft[a][i].id = rulesLeft[a][j].id => i = j
  PROVE  /\ \A i \in 1..Len(rulesLeft'[a]) : /\ i + 1 \in 1..Len(rulesLeft[a])
                                              /\ i + 1 \in 2..Len(rulesLeft[a])
                                              /\ rulesLeft'[a][i] = rulesLeft[a][i + 1]
         /\ \A i, j \in 1..Len(rulesLeft'[a]) : rulesLeft'[a][i].id = rulesLeft'[a][j].id => i = j
         /\ \A i \in 2..Len(rulesLeft[a]) : rulesLeft[a][i].id # Head(rulesLeft[a]).id
<1> DEFINE q == rulesLeft[a]
<1>1. q \in Seq(RuleList) /\ Len(q) \in Nat \ {0} /\ Head(q) = q[1]
  BY EmptySeq DEF TypeOK
<1>2. rulesLeft'[a] = Tail(q)
  BY DEF TypeOK
<1>3. Len(Tail(q)) = Len(q) - 1 /\ \A i \in 1..Len(Tail(q)) : Tail(q)[i] = q[i + 1]
  BY <1>1, HeadTailProperties
<1>4. \A i \in 1..Len(Tail(q)) : i + 1 \in 2..Len(q) /\ i + 1 \in 1..Len(q)
  BY <1>1, <1>3
<1>5. ASSUME NEW i \in 1..Len(Tail(q)), NEW j \in 1..Len(Tail(q)), Tail(q)[i].id = Tail(q)[j].id
      PROVE  i = j
  <2>1. i + 1 = j + 1
    BY <1>3, <1>4, <1>5
  <2> QED BY <2>1
<1>6. ASSUME NEW i \in 2..Len(q) PROVE q[i].id # q[1].id
  <2>1. i \in 1..Len(q) /\ 1 \in 1..Len(q) /\ i # 1
    BY <1>1
  <2> QED BY <2>1
<1> QED BY <1>1, <1>2, <1>3, <1>4, <1>5, <1>6

(* Evaluating a rule: the sender passes it over, finds the alert to be a   *)
(* duplicate, or starts on its channels.                                   *)
LEMMA EvaluateKept ==
  ASSUME TypeOK, WInv, NEW a \in Alerts, EvaluateRule(a)
  PROVE  EachOnce' /\ Progress(a)' /\ due' = due /\ Recorded' = Recorded
<1> DEFINE r == Head(rulesLeft[a])
<1>1. /\ at[a] = "rule" /\ rulesLeft[a] # <<>> /\ Recorded' = Recorded
      /\ UNCHANGED <<due, dropping, dispatchQueue, hand>>
      /\ \A i \in 1..Len(rulesLeft[a]) : NothingUnder(a, rulesLeft[a][i].id)
      /\ \A i, j \in 1..Len(rulesLeft[a]) : rulesLeft[a][i].id = rulesLeft[a][j].id => i = j
  BY DEF EvaluateRule, WInv, Progress, workerVars, queueVars, logVars, Recorded
<1>2. NothingUnder(a, r.id) /\ r = rulesLeft[a][1]
  <2>1. Len(rulesLeft[a]) \in Nat \ {0} /\ r = rulesLeft[a][1]
    BY <1>1, EmptySeq DEF TypeOK
  <2>2. 1 \in 1..Len(rulesLeft[a])
    BY <2>1
  <2> QED BY <1>1, <2>1, <2>2
<1> HIDE DEF r
<1>3. EachOnce'
  BY <1>1, NoneMoved DEF WInv
<1>4. \A rule : NothingUnder(a, rule)' <=> NothingUnder(a, rule)
  BY <1>1 DEF NothingUnder
<1>5. CASE NextRule(a)
  <2>1. rulesLeft' = [rulesLeft EXCEPT ![a] = Tail(@)] /\ at'[a] = "rule"
    BY <1>5 DEF NextRule, TypeOK
  <2>2. Progress(a)'
    BY <1>1, <1>4, <2>1, RuleLeft DEF Progress
  <2> QED BY <1>1, <1>3, <2>2
<1>6. CASE at' = [at EXCEPT ![a] = "duplicate"] /\ UNCHANGED rulesLeft
  <2>1. at'[a] = "duplicate" /\ rulesLeft' = rulesLeft
    BY <1>6 DEF TypeOK
  <2>2. Progress(a)'
    BY <1>1, <1>4, <2>1 DEF Progress
  <2> QED BY <1>1, <1>3, <2>2
<1>7. CASE /\ at' = [at EXCEPT ![a] = "channel"]
           /\ channelsLeft' = [channelsLeft EXCEPT ![a] = r.channels]
           /\ UNCHANGED rulesLeft
  <2>1. at'[a] = "channel" /\ rulesLeft' = rulesLeft
    BY <1>7 DEF TypeOK
  <2>2. CurrentRule(a)' = r.id
    BY <1>1, <2>1 DEF CurrentRule, Fallback, r
  <2>3. \A n \in due' : n.alert = a => n.rule # CurrentRule(a)'
    BY <1>1, <1>2, <2>2 DEF NothingUnder
  <2>4. \A i \in 2..Len(rulesLeft'[a]) : NothingUnder(a, rulesLeft[a][i].id)'
    <3>1. Len(rulesLeft[a]) \in Nat
      BY LenProperties DEF TypeOK
    <3>2. 2..Len(rulesLeft[a]) \subseteq 1..Len(rulesLeft[a])
      BY <3>1
    <3> QED BY <1>1, <1>4, <2>1, <3>2
  <2>5. Progress(a)'
    <3>1. at'[a] \notin {"new", "noise", "suppressed", "config", "rules", "rule", "duplicate"}
      BY <2>1
    <3>2. \A i, j \in 1..Len(rulesLeft'[a]) : rulesLeft'[a][i].id = rulesLeft'[a][j].id => i = j
      BY <1>1, <2>1
    <3>3. \A n \in due' : n.alert = a /\ n.rule = CurrentRule(a)' => n.target > Len(channelsLeft'[a])
      BY <2>3
    <3> QED BY <2>1, <2>4, <3>1, <3>2, <3>3 DEF Progress
  <2> QED BY <1>1, <1>3, <2>5
<1> QED BY <1>5, <1>6, <1>7 DEF EvaluateRule, r

(* Recording the duplicate ends the rule: nothing was decided under it.    *)
LEMMA DuplicateKept ==
  ASSUME TypeOK, WInv, NEW a \in Alerts, RecordDuplicate(a)
  PROVE  /\ EachOnce' /\ Progress(a)' /\ due' = due
         /\ \A p \in Recorded' : p \in Recorded \/ p.alert = a
<1> DEFINE r == Head(rulesLeft[a])
           o == Outcome(ForAll(a, r.id), "deduplicated")
<1>1. /\ at[a] = "duplicate" /\ rulesLeft[a] # <<>>
      /\ UNCHANGED <<due, dropping, dispatchQueue, hand>>
      /\ \A i \in 1..Len(rulesLeft[a]) : NothingUnder(a, rulesLeft[a][i].id)
      /\ \A i, j \in 1..Len(rulesLeft[a]) : rulesLeft[a][i].id = rulesLeft[a][j].id => i = j
  BY DEF RecordDuplicate, WInv, Progress, workerVars, queueVars
<1>2. NothingUnder(a, r.id)
  <2>1. Len(rulesLeft[a]) \in Nat \ {0} /\ r = rulesLeft[a][1]
    BY <1>1, EmptySeq DEF TypeOK
  <2>2. 1 \in 1..Len(rulesLeft[a])
    BY <2>1
  <2> QED BY <1>1, <2>1, <2>2
<1>3. Recorded' = Recorded \cup {o}
  BY <1>1, Saved DEF RecordDuplicate, CurrentRule, Fallback
<1>4. o.alert = a /\ o.rule = r.id /\ o.target = 0
  BY DEF Outcome, ForAll
<1> HIDE DEF o
<1>5. rulesLeft' = [rulesLeft EXCEPT ![a] = Tail(@)] /\ at'[a] = "rule"
  BY DEF RecordDuplicate, NextRule, TypeOK
<1>6. \A rule : rule # r.id /\ NothingUnder(a, rule) => NothingUnder(a, rule)'
  BY <1>1, <1>3, <1>4 DEF NothingUnder
<1>7. Progress(a)'
  <2>1. ASSUME NEW i \in 1..Len(rulesLeft'[a]) PROVE NothingUnder(a, rulesLeft[a][i].id)'
    <3>1. /\ i + 1 \in 2..Len(rulesLeft[a]) /\ i + 1 \in 1..Len(rulesLeft[a])
          /\ rulesLeft'[a][i] = rulesLeft[a][i + 1]
      BY <1>1, <1>5, RuleLeft
    <3>2. rulesLeft[a][i + 1].id # r.id
      BY <1>1, <1>5, <3>1, RuleLeft
    <3> QED BY <1>1, <1>6, <3>1, <3>2
  <2>2. \A i, j \in 1..Len(rulesLeft'[a]) : rulesLeft'[a][i].id = rulesLeft'[a][j].id => i = j
    BY <1>1, <1>5, RuleLeft
  <2> QED BY <1>5, <2>1, <2>2 DEF Progress
<1>8. \A p \in Recorded : ~OutcomeOf(p, o)
  BY <1>2, <1>4 DEF OutcomeOf, NothingUnder
<1>9. EachOnce'
  BY <1>1, <1>3, <1>4, <1>8, AllRecorded DEF WInv
<1> QED BY <1>1, <1>3, <1>4, <1>7, <1>9

(* Serving a channel: the notification is new, whatever becomes of it.     *)
LEMMA ServeKept ==
  ASSUME TypeOK, WInv, NEW a \in Alerts, ServeChannel(a)
  PROVE  /\ EachOnce' /\ Progress(a)'
         /\ \A n \in due' : n \in due \/ n.alert = a
         /\ \A o \in Recorded' : o \in Recorded \/ o.alert = a
<1> DEFINE n == Served(a)
           Failed == SaveNotificationLog(Outcome(n, "failed"))
                     /\ UNCHANGED <<dropping, dispatchQueue>>
           Queued == /\ dropping = {} /\ UNCHANGED logVars
                     /\ \/ dispatchQueue' = Append(dispatchQueue, n) /\ UNCHANGED dropping
                        \/ dropping' = {n} /\ UNCHANGED dispatchQueue
<1>1. /\ at[a] = "channel" /\ channelsLeft[a] # <<>>
      /\ channelsLeft' = [channelsLeft EXCEPT ![a] = Tail(@)]
      /\ at'[a] \in {"channel", "drop"}
      /\ UNCHANGED <<rulesLeft, hand>>
  BY DEF ServeChannel, EnqueueDispatch, workerVars, TypeOK
<1>2. channelsLeft[a] \in Seq(Targets) /\ Len(channelsLeft[a]) \in Nat \ {0}
  BY <1>1, EmptySeq DEF TypeOK
<1>3. Len(channelsLeft'[a]) = Len(channelsLeft[a]) - 1
  BY <1>1, <1>2, HeadTailProperties DEF TypeOK
<1>4. n.alert = a /\ n.rule = CurrentRule(a) /\ n.target = Len(channelsLeft[a])
      /\ n.channel = Head(channelsLeft[a])
  BY DEF Served
<1>5. \/ UNCHANGED <<due, dropping, dispatchQueue, logVars>>
      \/ n.channel \in ChannelSet /\ due' = due \cup {n} /\ (Failed \/ Queued)
  BY DEF ServeChannel, Served, EnqueueDispatch, TypeOK
<1> HIDE DEF n
<1>6. \A m \in due : m.alert = a /\ m.rule = CurrentRule(a) => m.target > Len(channelsLeft[a])
  BY <1>1 DEF WInv, Progress
<1>7. \A m \in due : ~OutcomeOf(m, n)
  <2>1. \A m \in due : m.target \in Nat
    BY DEF TypeOK, Notifications
  <2> QED BY <1>2, <1>4, <1>6, <2>1 DEF OutcomeOf
<1>8. n.channel \in ChannelSet => n \in Notifications
  BY <1>1, <1>4, ServedTyped DEF n
<1>9. Failed => Recorded' = Recorded \cup {Outcome(n, "failed")}
  BY Saved
<1>10. UNCHANGED logVars => Recorded' = Recorded
  BY DEF logVars, Recorded
<1>11. EachOnce'
  <2>1. CASE UNCHANGED <<due, dropping, dispatchQueue, logVars>>
    BY <1>1, <1>10, <2>1, NoneMoved DEF WInv
  <2>2. CASE n.channel \in ChannelSet /\ due' = due \cup {n} /\ Failed
    BY <1>1, <1>7, <1>8, <1>9, <2>2, ServedFailed DEF WInv
  <2>3. CASE n.channel \in ChannelSet /\ due' = due \cup {n} /\ Queued
    BY <1>1, <1>7, <1>8, <1>10, <2>3, ServedQueued DEF WInv
  <2> QED BY <1>5, <2>1, <2>2, <2>3
<1>12. (\A m \in due' : m \in due \/ m = n)
       /\ (\A o \in Recorded' : o \in Recorded \/ (o.alert = a /\ o.rule = n.rule))
  BY <1>4, <1>5, <1>9, <1>10 DEF Outcome
<1>13. Progress(a)'
  <2>1. CurrentRule(a)' = CurrentRule(a)
    BY <1>1 DEF CurrentRule, Fallback
  <2>2. ASSUME NEW m \in due', m.alert = a, m.rule = CurrentRule(a)
        PROVE  m.target > Len(channelsLeft'[a])
    <3>1. CASE m = n
      BY <1>2, <1>3, <1>4, <3>1
    <3>2. CASE m \in due
      <4>1. m.target \in Nat /\ m.target > Len(channelsLeft[a])
        BY <1>6, <2>2, <3>2 DEF TypeOK, Notifications
      <4> QED BY <1>2, <1>3, <4>1
    <3> QED BY <1>12, <3>1, <3>2
  <2>3. ASSUME NEW i \in 2..Len(rulesLeft[a]) PROVE NothingUnder(a, rulesLeft[a][i].id)'
    <3>1. /\ NothingUnder(a, rulesLeft[a][i].id)
          /\ \A x, y \in 1..Len(rulesLeft[a]) : rulesLeft[a][x].id = rulesLeft[a][y].id => x = y
      BY <1>1 DEF WInv, Progress
    <3>2. Len(rulesLeft[a]) \in Nat /\ rulesLeft[a] \in Seq(RuleList)
      BY LenProperties DEF TypeOK
    <3>3. i \in 1..Len(rulesLeft[a]) /\ 1 \in 1..Len(rulesLeft[a]) /\ i # 1
      BY <3>2
    <3>4. rulesLeft[a] # <<>> /\ Head(rulesLeft[a]) = rulesLeft[a][1]
      BY <3>2, <3>3
    <3>5. n.rule # rulesLeft[a][i].id
      BY <1>4, <3>1, <3>3, <3>4 DEF CurrentRule, Fallback
    <3>6. \A m \in due' : m.alert = a => m.rule # rulesLeft[a][i].id
      BY <1>12, <3>1, <3>5 DEF NothingUnder
    <3>7. \A o \in Recorded' : o.alert = a => o.rule # rulesLeft[a][i].id
      BY <1>12, <3>1, <3>5 DEF NothingUnder
    <3> QED BY <1>1, <3>6, <3>7 DEF NothingUnder
  <2> QED BY <1>1, <2>1, <2>2, <2>3 DEF WInv, Progress
<1> QED BY <1>4, <1>11, <1>12, <1>13

-------------------------------------------------------------------------------
(* The invariant.                                                          *)
LEMMA WInvInit == Init => WInv
<1> SUFFICES ASSUME Init PROVE WInv
  OBVIOUS
<1>1. /\ due = {} /\ Recorded = {} /\ InQueue = {} /\ InHand = {} /\ dispatchQueue = <<>>
      /\ dropping = {} /\ OnTheWay = {}
      /\ exited = {} /\ stop = "running" /\ \A w \in Workers : hand[w] = {}
  BY DEF Init, Recorded, InQueue, InHand, OnTheWay
<1>2. EachOnce
  BY <1>1 DEF EachOnce
<1>3. Hands
  BY <1>1 DEF Hands
<1>4. ASSUME NEW a \in Alerts PROVE Progress(a)
  <2>1. at[a] = "new" /\ rulesLeft[a] = <<>> /\ Len(rulesLeft[a]) = 0
    BY DEF Init
  <2> QED BY <1>1, <2>1 DEF Progress, NothingOf
<1> QED BY <1>2, <1>3, <1>4 DEF WInv

(* A step that leaves senders, channel, workers and log alone keeps it.    *)
LEMMA QuietStep ==
  ASSUME WInv, UNCHANGED <<senderVars, queueVars, workerVars, logVars, stop>>
  PROVE  WInv'
<1>1. UNCHANGED <<at, rulesLeft, channelsLeft, due, dropping, dispatchQueue, queueClosed, hand, exited, stop>>
      /\ Recorded' = Recorded
  BY DEF senderVars, queueVars, workerVars, logVars, Recorded
<1>2. EachOnce'
  BY <1>1, NoneMoved DEF WInv
<1>3. Hands'
  BY <1>1 DEF WInv, Hands
<1>4. \A a \in Alerts : Progress(a)'
  BY <1>1, OthersKept DEF WInv
<1> QED BY <1>2, <1>3, <1>4 DEF WInv

(* An alert that is suppressed is logged once, before anything else is.    *)
LEMMA SuppressedKept ==
  ASSUME TypeOK, WInv, NEW a \in Alerts, RecordSuppressed(a)
  PROVE  /\ EachOnce' /\ Progress(a)'
         /\ due' = due /\ \A p \in Recorded' : p \in Recorded \/ p.alert = a
<1> DEFINE o == Outcome(ForAll(a, NoRule), "suppressed")
<1>1. /\ at[a] = "suppressed" /\ at'[a] = "done" /\ Recorded' = Recorded \cup {o}
      /\ UNCHANGED <<due, dropping, dispatchQueue, hand, rulesLeft>>
  BY Saved DEF RecordSuppressed, queueVars, workerVars, TypeOK
<1>2. o.alert = a /\ o.target = 0
  BY DEF Outcome, ForAll
<1> HIDE DEF o
<1>3. NothingOf(a) /\ \A p \in Recorded : ~OutcomeOf(p, o)
  BY <1>1, <1>2 DEF WInv, Progress, NothingOf, OutcomeOf
<1>4. EachOnce'
  BY <1>1, <1>2, <1>3, AllRecorded DEF WInv
<1>5. Progress(a)'
  BY <1>1 DEF WInv, Progress
<1> QED BY <1>1, <1>2, <1>4, <1>5

(* The steps of a sender that move it without a notification or outcome.   *)
LEMMA MoveKept ==
  ASSUME TypeOK, WInv, NEW a \in Alerts,
         \/ Begin(a) \/ CheckNoise(a) \/ CopyConfig(a)
         \/ ListRules(a) \/ EndOfRules(a) \/ EndOfChannels(a)
  PROVE  EachOnce' /\ Progress(a)' /\ due' = due /\ Recorded' = Recorded
<1>1. UNCHANGED <<due, dropping, dispatchQueue, hand>> /\ Recorded' = Recorded
  BY DEF Begin, CheckNoise, CopyConfig, ListRules, EndOfRules, EndOfChannels, queueVars, workerVars, logVars, Recorded
<1>2. EachOnce'
  BY <1>1, NoneMoved DEF WInv
<1>3. /\ NothingOf(a)' <=> NothingOf(a)
      /\ \A rule : NothingUnder(a, rule)' <=> NothingUnder(a, rule)
  BY <1>1 DEF NothingOf, NothingUnder
<1>4. Progress(a)
  BY DEF WInv
<1>5. CASE Begin(a) \/ CheckNoise(a) \/ CopyConfig(a) \/ EndOfRules(a)
  <2>1. /\ at'[a] \in {"noise", "suppressed", "config", "rules", "done"}
        /\ at'[a] # "done" => at[a] \in {"new", "noise", "config"}
        /\ UNCHANGED rulesLeft
    BY <1>5 DEF Begin, CheckNoise, CopyConfig, EndOfRules, TypeOK
  <2> QED BY <1>1, <1>2, <1>3, <1>4, <2>1 DEF Progress
<1>6. CASE ListRules(a)
  <2>1. /\ at[a] = "rules" /\ at'[a] \in {"channel", "rule"}
        /\ rulesLeft'[a] = <<>> \/ rulesLeft'[a] = Rules
    BY <1>6 DEF ListRules, ActiveRules, TypeOK
  <2>2. NothingOf(a)'
    BY <1>3, <1>4, <2>1 DEF Progress
  <2>3. \A rule : NothingUnder(a, rule)'
    BY <2>2 DEF NothingOf, NothingUnder
  <2>4. \A i, j \in 1..Len(rulesLeft'[a]) : rulesLeft'[a][i].id = rulesLeft'[a][j].id => i = j
    BY <2>1, RuleAssumption
  <2>5. \A n \in due' : n.alert # a
    BY <2>2 DEF NothingOf
  <2> QED BY <1>1, <1>2, <2>1, <2>3, <2>4, <2>5 DEF Progress
<1>7. CASE EndOfChannels(a)
  <2>1. /\ at[a] = "channel" /\ at'[a] = "rule"
        /\ rulesLeft' = [rulesLeft EXCEPT ![a] = IF rulesLeft[a] = <<>> THEN <<>> ELSE Tail(@)]
    BY <1>7 DEF EndOfChannels, Fallback, TypeOK
  <2>2. CASE rulesLeft[a] = <<>>
    <3>1. rulesLeft'[a] = <<>>
      BY <2>1, <2>2 DEF TypeOK
    <3> QED BY <1>1, <1>2, <2>1, <3>1 DEF Progress
  <2>3. CASE rulesLeft[a] # <<>>
    <3>1. rulesLeft' = [rulesLeft EXCEPT ![a] = Tail(@)]
      BY <2>1, <2>3
    <3>2. /\ \A i \in 1..Len(rulesLeft'[a]) : /\ i + 1 \in 2..Len(rulesLeft[a])
                                               /\ rulesLeft'[a][i] = rulesLeft[a][i + 1]
          /\ \A i, j \in 1..Len(rulesLeft'[a]) : rulesLeft'[a][i].id = rulesLeft'[a][j].id => i = j
      BY <1>4, <2>3, <3>1, RuleLeft DEF Progress
    <3>3. \A i \in 2..Len(rulesLeft[a]) : NothingUnder(a, rulesLeft[a][i].id)
      BY <1>4, <2>1 DEF Progress
    <3>4. ASSUME NEW i \in 1..Len(rulesLeft'[a]) PROVE NothingUnder(a, rulesLeft[a][i].id)'
      <4>1. NothingUnder(a, rulesLeft[a][i + 1].id)
        BY <3>2, <3>3
      <4> QED BY <1>3, <3>2, <4>1
    <3> QED BY <1>1, <1>2, <2>1, <3>2, <3>4 DEF Progress
  <2> QED BY <2>2, <2>3
<1> QED BY <1>5, <1>6, <1>7

(* A sender's step leaves the workers alone, and the channel alone once it *)
(* is closed.                                                              *)
LEMMA SenderHands ==
  ASSUME Hands, NEW a \in Alerts, Begin(a) \/ Send(a)
  PROVE  Hands'
<1> USE DEF workerVars, queueVars
<1>1. UNCHANGED <<hand, exited, stop, queueClosed>>
  BY DEF Begin, Send, CheckNoise, RecordSuppressed, CopyConfig, ListRules, EvaluateRule,
         RecordDuplicate, EndOfRules, ServeChannel, RecordDropped, EndOfChannels
<1>2. queueClosed => dispatchQueue' = dispatchQueue
  BY DEF Begin, Send, CheckNoise, RecordSuppressed, CopyConfig, ListRules, EvaluateRule,
         RecordDuplicate, EndOfRules, ServeChannel, RecordDropped, EndOfChannels, EnqueueDispatch
<1> QED BY <1>1, <1>2 DEF Hands

(* Other senders do not notice a sender's step.                            *)
LEMMA SenderOthers ==
  ASSUME NEW a \in Alerts, NEW b \in Alerts, a # b, Begin(a) \/ Send(a), TypeOK
  PROVE  at'[b] = at[b] /\ rulesLeft'[b] = rulesLeft[b] /\ channelsLeft'[b] = channelsLeft[b]
<1>1. /\ at \in [Alerts -> Places] /\ rulesLeft \in [Alerts -> Seq(RuleList)]
      /\ channelsLeft \in [Alerts -> Seq(Targets)]
  BY DEF TypeOK
<1>2. at'[b] = at[b]
  BY <1>1 DEF Begin, Send, CheckNoise, RecordSuppressed, CopyConfig, ListRules, EvaluateRule, NextRule,
              RecordDuplicate, EndOfRules, ServeChannel, EnqueueDispatch, RecordDropped, EndOfChannels
<1>3. rulesLeft'[b] = rulesLeft[b]
  BY <1>1 DEF Begin, Send, CheckNoise, RecordSuppressed, CopyConfig, ListRules, EvaluateRule, NextRule,
              RecordDuplicate, EndOfRules, ServeChannel, EnqueueDispatch, RecordDropped, EndOfChannels
<1>4. channelsLeft'[b] = channelsLeft[b]
  BY <1>1 DEF Begin, Send, CheckNoise, RecordSuppressed, CopyConfig, ListRules, EvaluateRule, NextRule,
              RecordDuplicate, EndOfRules, ServeChannel, EnqueueDispatch, RecordDropped, EndOfChannels
<1> QED BY <1>2, <1>3, <1>4

(* A step of SendAnomalyAlert, of any alert, keeps the invariant.          *)
LEMMA SenderKept ==
  ASSUME TypeOK, WInv, NEW a \in Alerts, Begin(a) \/ Send(a)
  PROVE  WInv'
<1>1. /\ EachOnce' /\ Progress(a)'
      /\ \A n \in due' : n \in due \/ n.alert = a
      /\ \A o \in Recorded' : o \in Recorded \/ o.alert = a \/ \E n \in due : OutcomeOf(n, o)
  <2>1. CASE RecordSuppressed(a)
    BY <2>1, SuppressedKept
  <2>2. CASE \/ Begin(a) \/ CheckNoise(a) \/ CopyConfig(a)
             \/ ListRules(a) \/ EndOfRules(a) \/ EndOfChannels(a)
    BY <2>2, MoveKept
  <2>3. CASE EvaluateRule(a)
    BY <2>3, EvaluateKept
  <2>4. CASE RecordDuplicate(a)
    BY <2>4, DuplicateKept
  <2>5. CASE ServeChannel(a)
    BY <2>5, ServeKept
  <2>6. CASE RecordDropped(a)
    <3>1. /\ EachOnce' /\ due' = due
          /\ \A o \in Recorded' : o \in Recorded \/ \E n \in due : OutcomeOf(n, o)
      BY <2>6, DropRecorded DEF WInv
    <3>2. /\ at[a] = "drop" /\ at'[a] = "channel"
          /\ UNCHANGED <<rulesLeft, channelsLeft>>
      BY <2>6 DEF RecordDropped, TypeOK
    <3>3. \A rule : NothingUnder(a, rule) => NothingUnder(a, rule)'
      BY <3>1 DEF NothingUnder, OutcomeOf
    <3>4. Progress(a)'
      BY <3>1, <3>2, <3>3 DEF WInv, Progress, CurrentRule, Fallback
    <3> QED BY <3>1, <3>4
  <2> QED BY <2>1, <2>2, <2>3, <2>4, <2>5, <2>6 DEF Send
<1>2. Hands'
  BY SenderHands DEF WInv
<1>3. ASSUME NEW b \in Alerts PROVE Progress(b)'
  <2>1. CASE b = a
    BY <1>1, <2>1
  <2>2. CASE b # a
    BY <1>1, <2>2, SenderOthers, OthersKept DEF WInv
  <2> QED BY <2>1, <2>2
<1> QED BY <1>1, <1>2, <1>3 DEF WInv

(* A step of a webhook worker keeps the invariant.                         *)
LEMMA WorkerKept ==
  ASSUME TypeOK, WInv, NEW w \in Workers, Dispatch(w)
  PROVE  WInv'
<1>1. UNCHANGED <<at, rulesLeft, channelsLeft, due, queueClosed, stop>>
  BY DEF Dispatch, Take, Post, WorkerExit, senderVars, queueVars
<1>2. EachOnce'
  <2>1. CASE Take(w)
    BY <2>1, HandTaken DEF WInv
  <2>2. CASE Post(w)
    BY <2>2, HandPosted DEF WInv
  <2>3. CASE WorkerExit(w)
    BY <1>1, <2>3, NoneMoved DEF WInv, WorkerExit, senderVars, queueVars, logVars, Recorded
  <2> QED BY <2>1, <2>2, <2>3 DEF Dispatch
<1>3. Hands'
  <2>1. CASE Take(w)
    <3>1. w \notin exited /\ exited' = exited /\ hand'[w] = {Head(dispatchQueue)}
          /\ \A x \in Workers \ {w} : hand'[x] = hand[x]
      BY <2>1 DEF Take, Idle, TypeOK
    <3>2. exited = {}
      BY <2>1 DEF Take, WInv, Hands
    <3> QED BY <1>1, <3>1, <3>2 DEF WInv, Hands
  <2>2. CASE Post(w)
    <3>1. exited' = exited /\ dispatchQueue' = dispatchQueue /\ hand'[w] = {}
          /\ \A x \in Workers \ {w} : hand'[x] = hand[x]
      BY <2>2 DEF Post, queueVars, TypeOK
    <3>2. \A x \in exited : x \in Workers
      BY DEF TypeOK
    <3> QED BY <1>1, <3>1, <3>2 DEF WInv, Hands
  <2>3. CASE WorkerExit(w)
    BY <1>1, <2>3 DEF WInv, Hands, WorkerExit, Idle, Drained, queueVars, TypeOK
  <2> QED BY <2>1, <2>2, <2>3 DEF Dispatch
<1>4. ASSUME NEW b \in Alerts PROVE Progress(b)'
  <2>1. \A o \in Recorded' : o \in Recorded \/ \E n \in due : OutcomeOf(n, o)
    <3>1. CASE Post(w)
      <4>1. PICK n \in hand[w], st \in {"sent", "failed"} : SaveNotificationLog(Outcome(n, st))
        BY <3>1 DEF Post
      <4>2. n \in due
        BY DEF InHand, OnTheWay, WInv, EachOnce
      <4> QED BY <4>1, <4>2, Saved DEF Outcome, OutcomeOf
    <3>2. CASE Take(w) \/ WorkerExit(w)
      BY <3>2 DEF Take, WorkerExit, logVars, Recorded
    <3> QED BY <3>1, <3>2 DEF Dispatch
  <2> QED BY <1>1, <2>1, OthersKept DEF WInv
<1> QED BY <1>2, <1>3, <1>4 DEF WInv

(* The steps of Shutdown keep the invariant.                               *)
LEMMA StopKept ==
  ASSUME WInv, CloseQueue \/ ShutdownReturns
  PROVE  WInv'
<1>1. /\ UNCHANGED <<at, rulesLeft, channelsLeft, due, dropping, dispatchQueue, hand, exited>>
      /\ Recorded' = Recorded
  BY DEF CloseQueue, ShutdownReturns, senderVars, queueVars, workerVars, logVars, Recorded
<1>2. EachOnce'
  BY <1>1, NoneMoved DEF WInv
<1>3. Hands'
  BY <1>1 DEF WInv, Hands, CloseQueue, ShutdownReturns, WorkersGone, queueVars
<1>4. \A a \in Alerts : Progress(a)'
  BY <1>1, OthersKept DEF WInv
<1> QED BY <1>2, <1>3, <1>4 DEF WInv

(* Every step of the engine, and of the clock, keeps the invariant.        *)
LEMMA WInvStep == TypeOK /\ WInv /\ [WebStep]_vars => WInv'
<1> SUFFICES ASSUME TypeOK, WInv, [WebStep]_vars PROVE WInv'
  OBVIOUS
<1>1. CASE \E a \in Alerts : Begin(a) \/ Send(a)
  BY <1>1, SenderKept
<1>2. CASE \E w \in Workers : Dispatch(w)
  BY <1>2, WorkerKept
<1>3. CASE CloseQueue \/ ShutdownReturns
  BY <1>3, StopKept
<1>4. CASE CloseRepository \/ Settings \/ Tick \/ UNCHANGED vars
  <2>1. UNCHANGED <<senderVars, queueVars, workerVars, logVars, stop>>
    BY <1>4 DEF CloseRepository, Settings, UpdateConfig, UpdateNoiseControls, Tick, vars,
                senderVars, queueVars, workerVars, logVars
  <2> QED BY <2>1, QuietStep
<1> QED BY <1>1, <1>2, <1>3, <1>4 DEF WebStep, Next, Stopped

(* Every notification is in exactly one place until it has its one         *)
(* outcome, and a clean Shutdown leaves none behind.                       *)
THEOREM Accounted == SafeSpec => []NotificationsAccounted
<1>1. Init => WInv
  BY WInvInit
<1>2. TypeOK /\ WInv /\ [Next]_vars => WInv'
  BY WInvStep DEF WebStep
<1>3. TypeOK /\ WInv => NotificationsAccounted
  BY WInvImplies
<1> QED BY <1>1, <1>2, <1>3, Typed, PTL DEF SafeSpec

-------------------------------------------------------------------------------
(* What the loops of a sender have behind them.                            *)

(* A notification was decided on; an alert was recorded under a rule.      *)
Decided(a, rule, channel, target) ==
  [alert |-> a, rule |-> rule, channel |-> channel, target |-> target] \in due
EndedAs(a, rule, st) ==
  \E o \in Recorded : o.alert = a /\ o.rule = rule /\ o.status = st

(* Those of the first k of a list of channels that are wanted were served; *)
(* the fallback is done; a rule has nothing left to do for an alert.       *)
ServedUpTo(a, rule, channels, wanted, k) ==
  \A i \in 1..k : channels[i] \in wanted => Decided(a, rule, channels[i], Len(channels) - i + 1)
FallbackDone(a) == ServedUpTo(a, NoRule, Channels, snapshot[a], Len(Channels))
RuleDone(r, a) ==
  \/ ~RuleMatches(r, a)
  \/ EndedAs(a, r.id, "deduplicated")
  \/ ServedUpTo(a, r.id, r.channels, ChannelSet, Len(r.channels))
RulesAhead(a) ==
  \A r \in RuleList : RuleDone(r, a) \/ \E i \in 1..Len(rulesLeft[a]) : rulesLeft[a][i] = r

(* The list a sender walks and the channels of it that it is to serve.     *)
List(a) == IF Fallback(a) THEN Channels ELSE Head(rulesLeft[a]).channels
Wanted(a) == IF Fallback(a) THEN snapshot[a] ELSE ChannelSet
Behind(a) == Len(List(a)) - Len(channelsLeft[a])

(* What is left of a list is its end, and what lies before it was served.  *)
InTurn(a) ==
  /\ at[a] \in {"rule", "duplicate"} =>
       RulesAhead(a) \/ (rulesLeft[a] = <<>> /\ FallbackDone(a))
  /\ at[a] \in {"channel", "drop"} =>
       /\ Fallback(a) \/ RulesAhead(a)
       /\ Behind(a) >= 0
       /\ \A j \in 1..Len(channelsLeft[a]) : channelsLeft[a][j] = List(a)[j + Behind(a)]
       /\ ServedUpTo(a, CurrentRule(a), List(a), Wanted(a), Behind(a))
  /\ at[a] = "done" =>
       \/ EndedAs(a, NoRule, "suppressed")
       \/ FallbackDone(a)
       \/ \A r \in RuleList : RuleDone(r, a)

(* More decisions and more outcomes undo nothing of that.                  *)
LEMMA DoneKept ==
  ASSUME NEW a, due \subseteq due', Recorded \subseteq Recorded', snapshot'[a] = snapshot[a]
  PROVE  /\ \A rule, st : EndedAs(a, rule, st) => EndedAs(a, rule, st)'
         /\ \A rule, channels, wanted, k :
              ServedUpTo(a, rule, channels, wanted, k) => ServedUpTo(a, rule, channels, wanted, k)'
         /\ FallbackDone(a) => FallbackDone(a)'
         /\ \A r : RuleDone(r, a) => RuleDone(r, a)'
<1>1. \A rule, st : EndedAs(a, rule, st) => EndedAs(a, rule, st)'
  BY DEF EndedAs
<1>2. \A rule, channels, wanted, k :
        ServedUpTo(a, rule, channels, wanted, k) => ServedUpTo(a, rule, channels, wanted, k)'
  BY DEF ServedUpTo, Decided
<1>3. FallbackDone(a) => FallbackDone(a)'
  BY <1>2 DEF FallbackDone
<1>4. ASSUME NEW r, RuleDone(r, a) PROVE RuleDone(r, a)'
  <2>1. RuleMatches(r, a)' <=> RuleMatches(r, a)
    BY DEF RuleMatches, Enabled, Score
  <2> QED BY <1>1, <1>2, <1>4, <2>1 DEF RuleDone
<1> QED BY <1>1, <1>2, <1>3, <1>4

(* Nor does it disturb a sender that stays where it is.                    *)
LEMMA InTurnKept ==
  ASSUME NEW a, InTurn(a), due \subseteq due', Recorded \subseteq Recorded',
         snapshot'[a] = snapshot[a], rulesLeft'[a] = rulesLeft[a],
         \/ at'[a] = at[a] /\ channelsLeft'[a] = channelsLeft[a]
         \/ at[a] = "drop" /\ at'[a] = "channel" /\ channelsLeft'[a] = channelsLeft[a]
  PROVE  InTurn(a)'
<1>1. RulesAhead(a) => RulesAhead(a)'
  BY DoneKept DEF RulesAhead
<1>2. /\ Fallback(a)' <=> Fallback(a)
      /\ List(a)' = List(a) /\ Wanted(a)' = Wanted(a) /\ Behind(a)' = Behind(a)
      /\ CurrentRule(a)' = CurrentRule(a)
  BY DEF Fallback, List, Wanted, Behind, CurrentRule
<1>3. ServedUpTo(a, CurrentRule(a), List(a), Wanted(a), Behind(a)) =>
        ServedUpTo(a, CurrentRule(a), List(a), Wanted(a), Behind(a))'
  BY <1>2, DoneKept DEF ServedUpTo, Decided
<1>4. (\A r \in RuleList : RuleDone(r, a)) => \A r \in RuleList : RuleDone(r, a)'
  BY DoneKept
<1>5. EndedAs(a, NoRule, "suppressed") => EndedAs(a, NoRule, "suppressed")'
  BY DoneKept
<1>6. FallbackDone(a) => FallbackDone(a)'
  BY DoneKept
<1> QED BY <1>1, <1>2, <1>3, <1>4, <1>5, <1>6 DEF InTurn

(* When the head of the list of rules is done, the tail is what is ahead.  *)
LEMMA TailAhead ==
  ASSUME TypeOK, NEW a \in Alerts, rulesLeft[a] # <<>>, RulesAhead(a),
         rulesLeft' = [rulesLeft EXCEPT ![a] = Tail(@)],
         due \subseteq due', Recorded \subseteq Recorded', snapshot'[a] = snapshot[a],
         NEW first, first = Head(rulesLeft[a]), RuleDone(first, a)'
  PROVE  RulesAhead(a)'
<1> DEFINE q == rulesLeft[a]
<1>1. q \in Seq(RuleList) /\ Len(q) \in Nat \ {0} /\ Head(q) = q[1]
  BY EmptySeq DEF TypeOK
<1>2. rulesLeft'[a] = Tail(q)
  BY DEF TypeOK
<1>3. Len(Tail(q)) = Len(q) - 1 /\ \A i \in 1..Len(Tail(q)) : Tail(q)[i] = q[i + 1]
  BY <1>1, HeadTailProperties
<1>4. ASSUME NEW r \in RuleList
      PROVE  RuleDone(r, a)' \/ \E i \in 1..Len(Tail(q)) : Tail(q)[i] = r
  <2>1. CASE RuleDone(r, a)
    BY <2>1, DoneKept
  <2>2. ASSUME NEW i \in 1..Len(q), q[i] = r
        PROVE  RuleDone(r, a)' \/ \E j \in 1..Len(Tail(q)) : Tail(q)[j] = r
    <3>1. CASE i = 1
      BY <1>1, <2>2, <3>1
    <3>2. CASE i # 1
      <4>1. i - 1 \in 1..Len(Tail(q)) /\ (i - 1) + 1 = i
        BY <1>1, <1>3, <3>2
      <4> QED BY <1>3, <2>2, <4>1
    <3> QED BY <3>1, <3>2
  <2> QED BY <2>1, <2>2 DEF RulesAhead
<1> QED BY <1>2, <1>4 DEF RulesAhead

(* Taking the head off the end of a list leaves the end that is one        *)
(* shorter.                                                                *)
LEMMA OneMoreBehind ==
  ASSUME NEW T, NEW c \in Seq(T), c # <<>>, NEW W, NEW n \in Nat, n = Len(W),
         NEW b \in Int, b >= 0, b = n - Len(c), \A j \in 1..Len(c) : c[j] = W[j + b]
  PROVE  /\ Head(c) = W[b + 1] /\ n - (b + 1) + 1 = Len(c)
         /\ n - Len(Tail(c)) = b + 1
         /\ \A j \in 1..Len(Tail(c)) : Tail(c)[j] = W[j + (b + 1)]
<1>1. /\ Len(c) \in Nat \ {0} /\ Head(c) = c[1]
      /\ Len(Tail(c)) = Len(c) - 1 /\ \A i \in 1..Len(Tail(c)) : Tail(c)[i] = c[i + 1]
  BY EmptySeq, HeadTailProperties
<1>2. Head(c) = W[b + 1]
  <2>1. 1 \in 1..Len(c) /\ 1 + b = b + 1
    BY <1>1
  <2> QED BY <1>1, <2>1
<1>3. ASSUME NEW j \in 1..Len(Tail(c)) PROVE Tail(c)[j] = W[j + (b + 1)]
  <2>1. j + 1 \in 1..Len(c) /\ (j + 1) + b = j + (b + 1)
    BY <1>1
  <2> QED BY <1>1, <2>1
<1>4. n - (b + 1) + 1 = Len(c) /\ n - Len(Tail(c)) = b + 1
  BY <1>1
<1> QED BY <1>2, <1>3, <1>4

(* Serving the channel at the head of the list puts one more behind.       *)
LEMMA ServeInTurn ==
  ASSUME TypeOK, NEW a \in Alerts, ServeChannel(a), InTurn(a),
         due \subseteq due', Recorded \subseteq Recorded'
  PROVE  InTurn(a)'
<1> DEFINE c == channelsLeft[a]
           W == List(a)
           b == Behind(a)
<1>1. /\ at[a] = "channel" /\ at'[a] \in {"channel", "drop"} /\ channelsLeft'[a] = Tail(c)
      /\ snapshot'[a] = snapshot[a] /\ rulesLeft'[a] = rulesLeft[a]
  BY DEF ServeChannel, EnqueueDispatch, TypeOK
<1>2. /\ c \in Seq(Targets) /\ Len(c) \in Nat \ {0} /\ Head(c) = c[1]
      /\ Len(Tail(c)) = Len(c) - 1 /\ \A i \in 1..Len(Tail(c)) : Tail(c)[i] = c[i + 1]
  <2>1. c \in Seq(Targets) /\ c # <<>>
    BY DEF ServeChannel, TypeOK
  <2> QED BY <2>1, EmptySeq, HeadTailProperties
<1>3. Len(W) \in Nat
  <2>1. Channels \in Seq(ChannelSet)
    BY ControlAssumption
  <2>2. rulesLeft[a] \in Seq(RuleList)
    BY DEF TypeOK
  <2>3. ~Fallback(a) => Head(rulesLeft[a]).channels \in Seq(Targets)
    BY <2>2, HeadRule DEF Fallback
  <2> QED BY <2>1, <2>3, LenProperties DEF List
<1>4. /\ Fallback(a) \/ RulesAhead(a)
      /\ b >= 0 /\ b = Len(W) - Len(c) /\ b \in Int
      /\ \A j \in 1..Len(c) : c[j] = W[j + b]
      /\ ServedUpTo(a, CurrentRule(a), W, Wanted(a), b)
  <2>1. b = Len(W) - Len(c)
    BY DEF Behind
  <2>2. b \in Int
    BY <1>2, <1>3, <2>1
  <2> HIDE DEF W, b
  <2>3. b = Behind(a) /\ W = List(a)
    BY DEF b, W
  <2> QED BY <1>1, <2>1, <2>2, <2>3 DEF InTurn
<1>5. /\ Fallback(a)' <=> Fallback(a)
      /\ List(a)' = W /\ Wanted(a)' = Wanted(a) /\ CurrentRule(a)' = CurrentRule(a)
  BY <1>1 DEF Fallback, List, Wanted, CurrentRule
<1>6. /\ Head(c) = W[b + 1] /\ Len(W) - (b + 1) + 1 = Len(c)
      /\ Len(W) - Len(Tail(c)) = b + 1
      /\ \A j \in 1..Len(Tail(c)) : Tail(c)[j] = W[j + (b + 1)]
  <2> HIDE DEF c, W, b
  <2>1. c # <<>>
    BY <1>2, EmptySeq
  <2> QED BY <1>2, <1>3, <1>4, <2>1, OneMoreBehind
<1>8. Behind(a)' = b + 1
  BY <1>1, <1>5, <1>6 DEF Behind
<1>7. RulesAhead(a) => RulesAhead(a)'
  BY <1>1, DoneKept DEF RulesAhead
<1>10. Head(c) \in Wanted(a) => Served(a) \in due'
  <2>1. Head(c) \in ChannelSet \ snapshot[a] /\ ~Fallback(a) => Served(a) \in due'
    BY DEF ServeChannel, Served
  <2>2. Head(c) \in snapshot[a] => Served(a) \in due'
    BY DEF ServeChannel, Served
  <2> QED BY <2>1, <2>2 DEF Wanted
<1>11. ASSUME NEW i \in 1..(b + 1), W[i] \in Wanted(a)
       PROVE  [alert |-> a, rule |-> CurrentRule(a), channel |-> W[i],
               target |-> Len(W) - i + 1] \in due'
  <2>1. CASE i = b + 1
    BY <1>6, <1>10, <1>11, <2>1 DEF Served
  <2>2. CASE i \in 1..b
    BY <1>4, <1>11, <2>2 DEF ServedUpTo, Decided
  <2>3. i = b + 1 \/ i \in 1..b
    <3>1. i \in 1..(b + 1)
      BY <1>11
    <3>2. b \in Int
      BY <1>4
    <3> HIDE DEF b
    <3> QED BY <3>1, <3>2
  <2> QED BY <2>1, <2>2, <2>3
<1>12. ServedUpTo(a, CurrentRule(a), List(a), Wanted(a), Behind(a))'
  <2>1. \A i \in 1..Behind(a)' : List(a)'[i] \in Wanted(a)' =>
           [alert |-> a, rule |-> CurrentRule(a)', channel |-> List(a)'[i],
            target |-> Len(List(a)') - i + 1] \in due'
    BY <1>5, <1>8, <1>11
  <2> QED BY <2>1 DEF ServedUpTo, Decided
<1>13. \A j \in 1..Len(channelsLeft'[a]) : channelsLeft'[a][j] = List(a)'[j + Behind(a)']
  BY <1>1, <1>5, <1>6, <1>8
<1>14. Behind(a)' >= 0
  <2> HIDE DEF b
  <2> QED BY <1>4, <1>8
<1> QED BY <1>1, <1>4, <1>5, <1>7, <1>12, <1>13, <1>14 DEF InTurn

(* Nothing that was decided or recorded is forgotten.                      *)
LEMMA SenderGrows ==
  ASSUME TypeOK, NEW a \in Alerts, Begin(a) \/ Send(a)
  PROVE  due \subseteq due' /\ Recorded \subseteq Recorded'
<1> USE DEF senderVars, logVars
<1>1. due \subseteq due'
  BY DEF Begin, Send, CheckNoise, RecordSuppressed, CopyConfig, ListRules, EvaluateRule,
         RecordDuplicate, EndOfRules, ServeChannel, RecordDropped, EndOfChannels
<1>2. Recorded \subseteq Recorded'
  <2>1. CASE RecordSuppressed(a) \/ RecordDuplicate(a) \/ ServeChannel(a) \/ RecordDropped(a)
    BY <2>1, Saved DEF RecordSuppressed, RecordDuplicate, ServeChannel, RecordDropped,
                       RecordDrop, Recorded
  <2>2. CASE \/ Begin(a) \/ CheckNoise(a) \/ CopyConfig(a) \/ ListRules(a)
             \/ EvaluateRule(a) \/ EndOfRules(a) \/ EndOfChannels(a)
    BY <2>2 DEF Begin, CheckNoise, CopyConfig, ListRules, EvaluateRule, EndOfRules,
                EndOfChannels, Recorded
  <2> QED BY <2>1, <2>2 DEF Send
<1> QED BY <1>1, <1>2

(* A sender goes through its lists in order and leaves nothing behind.     *)
LEMMA SenderInTurn ==
  ASSUME TypeOK, NEW a \in Alerts, Begin(a) \/ Send(a), InTurn(a)
  PROVE  InTurn(a)'
<1> USE DEF senderVars
<1>1. due \subseteq due' /\ Recorded \subseteq Recorded'
  BY SenderGrows
<1>2. CASE Begin(a) \/ CheckNoise(a) \/ CopyConfig(a)
  <2>1. at'[a] \in {"suppressed", "noise", "config", "rules"}
    BY <1>2 DEF Begin, CheckNoise, CopyConfig, TypeOK
  <2> QED BY <2>1 DEF InTurn
<1>3. CASE RecordSuppressed(a)
  <2>1. at'[a] = "done"
    BY <1>3 DEF RecordSuppressed, TypeOK
  <2>2. EndedAs(a, NoRule, "suppressed")'
    BY <1>3, Saved DEF RecordSuppressed, EndedAs, Outcome, ForAll
  <2> QED BY <2>1, <2>2 DEF InTurn
<1>4. CASE ListRules(a)
  <2>1. CASE rulesLeft'[a] = <<>>
    <3>1. at'[a] = "channel" /\ channelsLeft'[a] = Channels
      BY <1>4, <2>1 DEF ListRules, TypeOK
    <3>2. Fallback(a)' /\ List(a)' = Channels
      BY <2>1 DEF Fallback, List
    <3>3. Len(Channels) \in Nat
      BY ControlAssumption, LenProperties
    <3>4. Behind(a)' = 0
      BY <3>1, <3>2, <3>3 DEF Behind
    <3>5. \A j \in 1..Len(Channels) : Channels[j] = Channels[j + 0]
      BY <3>3
    <3>6. ServedUpTo(a, CurrentRule(a), List(a), Wanted(a), Behind(a))'
      BY <3>4 DEF ServedUpTo
    <3> QED BY <3>1, <3>2, <3>4, <3>5, <3>6 DEF InTurn
  <2>2. CASE rulesLeft'[a] # <<>>
    <3>1. at'[a] = "rule" /\ rulesLeft'[a] = Rules
      BY <1>4, <2>2 DEF ListRules, ActiveRules, TypeOK
    <3>2. RulesAhead(a)'
      BY <3>1 DEF RulesAhead, RuleList
    <3> QED BY <3>1, <3>2 DEF InTurn
  <2> QED BY <2>1, <2>2
<1>5. CASE EvaluateRule(a)
  <2> PICK r : r = Head(rulesLeft[a])
    OBVIOUS
  <2>1. at[a] = "rule" /\ rulesLeft[a] # <<>> /\ RulesAhead(a) /\ snapshot'[a] = snapshot[a]
    BY <1>5 DEF EvaluateRule, InTurn
  <2>2. CASE ~RuleMatches(r, a) /\ NextRule(a)
    <3>1. RuleDone(r, a)
      BY <2>2 DEF RuleDone
    <3>2. RuleDone(r, a)'
      BY <1>1, <2>1, <3>1, DoneKept
    <3>3. RulesAhead(a)'
      BY <1>1, <2>1, <2>2, <3>2, TailAhead DEF NextRule
    <3>4. at'[a] = "rule"
      BY <2>2 DEF NextRule, TypeOK
    <3> QED BY <3>3, <3>4 DEF InTurn
  <2>3. CASE at' = [at EXCEPT ![a] = "duplicate"] /\ UNCHANGED <<rulesLeft, channelsLeft>>
    <3>1. at'[a] = "duplicate"
      BY <2>3 DEF TypeOK
    <3>2. RulesAhead(a)'
      BY <1>1, <2>1, <2>3, DoneKept DEF RulesAhead
    <3> QED BY <3>1, <3>2 DEF InTurn
  <2>4. CASE /\ at' = [at EXCEPT ![a] = "channel"]
             /\ channelsLeft' = [channelsLeft EXCEPT ![a] = r.channels]
             /\ UNCHANGED rulesLeft
    <3>1. at'[a] = "channel" /\ channelsLeft'[a] = r.channels
      BY <2>4 DEF TypeOK
    <3>2. List(a)' = r.channels
      BY <2>1, <2>4 DEF Fallback, List
    <3>3. Len(r.channels) \in Nat
      <4>1. rulesLeft[a] \in Seq(RuleList)
        BY DEF TypeOK
      <4> QED BY <2>1, <4>1, HeadRule, LenProperties
    <3>4. Behind(a)' = 0
      BY <3>1, <3>2, <3>3 DEF Behind
    <3>5. \A j \in 1..Len(r.channels) : r.channels[j] = r.channels[j + 0]
      BY <3>3
    <3>6. ServedUpTo(a, CurrentRule(a), List(a), Wanted(a), Behind(a))'
      BY <3>4 DEF ServedUpTo
    <3>7. RulesAhead(a)'
      BY <1>1, <2>1, <2>4, DoneKept DEF RulesAhead
    <3> QED BY <3>1, <3>2, <3>4, <3>5, <3>6, <3>7 DEF InTurn
  <2> QED BY <1>5, <2>2, <2>3, <2>4 DEF EvaluateRule
<1>6. CASE RecordDuplicate(a)
  <2> PICK r : r = Head(rulesLeft[a])
    OBVIOUS
  <2>1. /\ at[a] = "duplicate" /\ rulesLeft[a] # <<>> /\ RulesAhead(a)
        /\ snapshot'[a] = snapshot[a]
    BY <1>6 DEF RecordDuplicate, InTurn
  <2>2. EndedAs(a, r.id, "deduplicated")'
    <3>1. CurrentRule(a) = r.id
      BY <2>1 DEF CurrentRule, Fallback
    <3> QED BY <1>6, <3>1, Saved DEF RecordDuplicate, EndedAs, Outcome, ForAll
  <2>3. RuleDone(r, a)'
    BY <2>2 DEF RuleDone
  <2>4. RulesAhead(a)'
    BY <1>1, <1>6, <2>1, <2>3, TailAhead DEF RecordDuplicate, NextRule
  <2>5. at'[a] = "rule"
    BY <1>6 DEF RecordDuplicate, NextRule, TypeOK
  <2> QED BY <2>4, <2>5 DEF InTurn
<1>7. CASE EndOfRules(a)
  <2>1. /\ at[a] = "rule" /\ at'[a] = "done" /\ rulesLeft[a] = <<>>
        /\ snapshot'[a] = snapshot[a]
    BY <1>7 DEF EndOfRules, TypeOK
  <2>2. RulesAhead(a) => \A r \in RuleList : RuleDone(r, a)
    BY <2>1 DEF RulesAhead
  <2>3. FallbackDone(a)' \/ \A r \in RuleList : RuleDone(r, a)'
    BY <1>1, <2>1, <2>2, DoneKept DEF InTurn
  <2> QED BY <2>1, <2>3 DEF InTurn
<1>8. CASE ServeChannel(a)
  BY <1>1, <1>8, ServeInTurn
<1>9. CASE RecordDropped(a)
  <2>1. /\ at[a] = "drop" /\ at'[a] = "channel"
        /\ UNCHANGED <<snapshot, rulesLeft, channelsLeft>>
    BY <1>9 DEF RecordDropped, TypeOK
  <2> QED BY <1>1, <2>1, InTurnKept
<1>10. CASE EndOfChannels(a)
  <2>1. /\ at[a] = "channel" /\ at'[a] = "rule" /\ channelsLeft[a] = <<>>
        /\ snapshot'[a] = snapshot[a]
    BY <1>10 DEF EndOfChannels, TypeOK
  <2>2. /\ Fallback(a) \/ RulesAhead(a)
        /\ ServedUpTo(a, CurrentRule(a), List(a), Wanted(a), Behind(a))
    BY <2>1 DEF InTurn
  <2>3. CASE Fallback(a)
    <3>1. rulesLeft'[a] = <<>>
      BY <1>10, <2>3 DEF EndOfChannels, TypeOK
    <3>2. Len(Channels) \in Nat
      BY ControlAssumption, LenProperties
    <3>3. Behind(a) = Len(Channels)
      BY <2>1, <2>3, <3>2 DEF Behind, List
    <3>4. FallbackDone(a)
      BY <2>2, <2>3, <3>3 DEF FallbackDone, CurrentRule, List, Wanted
    <3>5. FallbackDone(a)'
      BY <1>1, <2>1, <3>4, DoneKept
    <3> QED BY <2>1, <3>1, <3>5 DEF InTurn
  <2>4. CASE ~Fallback(a)
    <3> PICK r : r = Head(rulesLeft[a])
      OBVIOUS
    <3>1. rulesLeft' = [rulesLeft EXCEPT ![a] = Tail(@)] /\ rulesLeft[a] # <<>>
      BY <1>10, <2>4 DEF EndOfChannels, Fallback
    <3>2. Len(r.channels) \in Nat
      <4>1. rulesLeft[a] \in Seq(RuleList)
        BY DEF TypeOK
      <4> QED BY <3>1, <4>1, HeadRule, LenProperties
    <3>3. Behind(a) = Len(r.channels)
      BY <2>1, <2>4, <3>2 DEF Behind, List
    <3>4. RuleDone(r, a)
      BY <2>2, <2>4, <3>3 DEF RuleDone, CurrentRule, List, Wanted
    <3>5. RuleDone(r, a)'
      BY <1>1, <2>1, <3>4, DoneKept
    <3>6. RulesAhead(a)'
      BY <1>1, <2>1, <2>2, <2>4, <3>1, <3>5, TailAhead
    <3> QED BY <2>1, <3>6 DEF InTurn
  <2> QED BY <2>3, <2>4
<1> QED BY <1>2, <1>3, <1>4, <1>5, <1>6, <1>7, <1>8, <1>9, <1>10 DEF Send

(* Every step of the engine, and of the clock, leaves all senders in turn. *)
LEMMA InTurnStep ==
  ASSUME TypeOK, \A a \in Alerts : InTurn(a), [WebStep]_vars
  PROVE  \A a \in Alerts : InTurn(a)'
<1>1. ASSUME NEW a \in Alerts, Begin(a) \/ Send(a), NEW b \in Alerts PROVE InTurn(b)'
  <2>1. CASE b = a
    BY <1>1, <2>1, SenderInTurn
  <2>2. CASE b # a
    <3>1. snapshot'[b] = snapshot[b]
      <4>1. snapshot' = snapshot \/ \E s : snapshot' = [snapshot EXCEPT ![a] = s]
        BY <1>1 DEF Begin, Send, CheckNoise, RecordSuppressed, CopyConfig, ListRules,
                    EvaluateRule, RecordDuplicate, EndOfRules, ServeChannel, RecordDropped,
                    EndOfChannels, senderVars
      <4> QED BY <2>2, <4>1 DEF TypeOK
    <3> QED BY <1>1, <2>2, <3>1, SenderOthers, SenderGrows, InTurnKept
  <2> QED BY <2>1, <2>2
<1>2. ASSUME UNCHANGED senderVars, Recorded \subseteq Recorded', NEW b \in Alerts
      PROVE  InTurn(b)'
  BY <1>2, InTurnKept DEF senderVars
<1>3. CASE \E w \in Workers : Dispatch(w)
  <2>1. Recorded \subseteq Recorded' /\ UNCHANGED senderVars
    BY <1>3, Saved DEF Dispatch, Take, Post, WorkerExit, logVars, Recorded
  <2> QED BY <1>2, <2>1
<1>4. CASE \/ CloseQueue \/ ShutdownReturns \/ CloseRepository \/ Settings \/ Tick
           \/ UNCHANGED vars
  <2>1. UNCHANGED <<senderVars, logVars>>
    BY <1>4 DEF CloseQueue, ShutdownReturns, CloseRepository, Settings, UpdateConfig,
                UpdateNoiseControls, Tick, vars, senderVars, logVars
  <2> QED BY <1>2, <2>1 DEF logVars, Recorded
<1> QED BY <1>1, <1>3, <1>4 DEF WebStep, Next, Stopped

(* A sender that is done has obeyed every rule, or had a reason not to.    *)
LEMMA InTurnImplies ==
  ASSUME \A a \in Alerts : InTurn(a)
  PROVE  EveryRuleServed
<1> SUFFICES ASSUME NEW a \in Alerts, at[a] = "done"
             PROVE  \/ EndedAs(a, NoRule, "suppressed")
                    \/ FallbackDone(a)
                    \/ \A r \in RuleList : RuleDone(r, a)
  BY DEF EveryRuleServed, EndedAs, FallbackDone, RuleDone, ServedUpTo, Decided
<1> QED BY DEF InTurn

(* One rule that is a duplicate, or one channel that cannot be served,     *)
(* costs an alert none of its other rules and channels.                    *)
THEOREM RulesServed == SafeSpec => []EveryRuleServed
<1> DEFINE AllInTurn == \A a \in Alerts : InTurn(a)
<1>1. Init => AllInTurn
  BY DEF Init, InTurn
<1>2. TypeOK /\ AllInTurn /\ [Next]_vars => AllInTurn'
  BY InTurnStep DEF WebStep
<1>3. AllInTurn => EveryRuleServed
  BY InTurnImplies
<1> QED BY <1>1, <1>2, <1>3, Typed, PTL DEF SafeSpec

===============================================================================

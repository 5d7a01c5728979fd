--------------------------- MODULE AlertPipeline_proofs ---------------------------
(***************************************************************************)
(* Proofs about AlertPipeline for any alerts, policies, rules, slots and   *)
(* deduplication window.  What WebhookEngine_proofs shows of a step of the *)
(* webhook engine carries over: every step of the pipeline is one of its   *)
(* steps, leaves it alone, or sets the status of one alert.                *)
(***************************************************************************)
EXTENDS AlertPipeline, WebhookEngine_proofs, FiniteSetTheorems

StatusStep == \E a \in Alerts : Save(a)

(* A step of the pipeline is, for the webhook engine, one of its own       *)
(* steps, none, or the one that gives an alert its status.                 *)
LEMMA PipeStep ==
  ASSUME [PipeNext]_allVars
  PROVE  [WebStep]_vars \/ StatusStep
<1>1. ASSUME NEW a \in Alerts, Trigger(a) \/ Report(a) PROVE UNCHANGED vars
  BY <1>1 DEF Trigger, Report
<1>2. ASSUME NEW a \in Alerts, AlertStep(a) PROVE [WebStep]_vars \/ StatusStep
  BY <1>2 DEF AlertStep, SaveFails, DispatchCallbacks, Callback, CallbackReturns, StatusStep, WebStep, Next
<1>3. ASSUME NEW w \in Workers, WorkerStep(w) PROVE WebStep
  BY <1>3 DEF WorkerStep, WebStep, Next
<1>4. CASE DetectionStops \/ StopWebhook \/ CloseDispatcher \/ CloseStore
  BY <1>4 DEF DetectionStops, StopWebhook, CloseDispatcher, CloseStore, WebStep, Next
<1>5. CASE Settings \/ Tick \/ Stopped
  BY <1>5 DEF WebStep, Next
<1>6. CASE UNCHANGED allVars
  BY <1>6 DEF allVars
<1> QED BY <1>1, <1>2, <1>3, <1>4, <1>5, <1>6 DEF PipeNext

(* Setting a status is a quiet step for the webhook engine.                *)
LEMMA StatusKept ==
  ASSUME StatusStep, TypeOK
  PROVE  /\ TypeOK' /\ UNCHANGED <<now, senderVars, queueVars, workerVars, logVars, stop>>
<1>1. PICK a \in Alerts : Save(a)
  BY DEF StatusStep
<1>2. status' \in [Alerts -> {"active", "silenced"}]
  BY <1>1 DEF Save, TypeOK
<1>3. UNCHANGED <<now, repoOpen, settingVars, senderVars, queueVars, workerVars, logVars, stop>>
  BY <1>1 DEF Save
<1> QED BY <1>2, <1>3 DEF TypeOK, settingVars, senderVars, queueVars, workerVars, logVars

(* What the webhook engine promises holds in the pipeline too.             *)
LEMMA WebKept ==
  ASSUME TypeOK, WInv, [PipeNext]_allVars
  PROVE  TypeOK' /\ WInv'
<1>1. CASE [WebStep]_vars
  BY <1>1, TypedStep, WInvStep
<1>2. CASE StatusStep
  BY <1>2, StatusKept, QuietStep
<1> QED BY <1>1, <1>2, PipeStep

(* The invariant of the webhook engine holds in the pipeline: what feeds   *)
(* it, triggerAlert's callbacks, is one of the senders its own model       *)
(* allows.                                                                 *)
THEOREM WebInPipe == PipeSpec => [](TypeOK /\ WInv)
<1>1. PipeInit => TypeOK /\ WInv
  BY TypedInit, WInvInit DEF PipeInit
<1>2. TypeOK /\ WInv /\ [PipeNext]_allVars => TypeOK' /\ WInv'
  BY WebKept
<1> QED BY <1>1, <1>2, PTL DEF PipeSpec

(* No notification is lost without a trace, attempted twice or left behind *)
(* by a clean Shutdown, with the alerts coming from the rest of the        *)
(* pipeline and the clock moving.                                          *)
THEOREM AccountedInPipe == PipeSpec => []NotificationsAccounted
<1>1. TypeOK /\ WInv => NotificationsAccounted
  BY WInvImplies
<1> QED BY <1>1, WebInPipe, PTL

-------------------------------------------------------------------------------
(* The callback slots.                                                     *)

(* The variables of the pipeline, and the callbacks that run.              *)
PipeTyped ==
  /\ stage \in [Alerts -> Stages]
  /\ created \in [Alerts -> 0..MaxTime]
  /\ lastTriggered \in [Subjects -> SUBSET (0..MaxTime)]
  /\ detecting \in BOOLEAN
  /\ dispatcherClosed \in BOOLEAN
  /\ waited \in BOOLEAN
SlotsKept == IsFiniteSet(Running) /\ Cardinality(Running) <= Slots

(* The pipeline starts with its types, and with no callback running.       *)
LEMMA PipeTypedInit == PipeInit => PipeTyped /\ SlotsKept
<1> SUFFICES ASSUME PipeInit PROVE PipeTyped /\ SlotsKept
  OBVIOUS
<1>1. Running = {}
  BY DEF PipeInit, Running
<1>2. SlotsKept
  BY <1>1, FS_EmptySet, SlotAssumption DEF SlotsKept
<1>3. 0 \in 0..MaxTime
  BY BoundAssumption
<1>4. PipeTyped
  BY <1>3 DEF PipeInit, PipeTyped, Stages
<1> QED BY <1>2, <1>4

(* How a step changes the stage of an alert: it moves one alert on.        *)
LEMMA PipeTypedStep ==
  ASSUME TypeOK, PipeTyped, [PipeNext]_allVars
  PROVE  PipeTyped'
<1> USE DEF alertVars, engineVars, dispatcherVars, pipeVars
<1>1. ASSUME NEW a \in Alerts, Trigger(a) PROVE PipeTyped'
  <2>1. now \in 0..MaxTime /\ Subject[a] \in Subjects
    BY DEF TypeOK, Subjects
  <2>2. stage' \in [Alerts -> Stages]
    BY <1>1 DEF Trigger, PipeTyped, Stages
  <2>3. created' \in [Alerts -> 0..MaxTime]
    BY <1>1, <2>1 DEF Trigger, PipeTyped
  <2>4. lastTriggered' \in [Subjects -> SUBSET (0..MaxTime)]
    BY <1>1, <2>1 DEF Trigger, PipeTyped
  <2> QED BY <1>1, <2>2, <2>3, <2>4 DEF Trigger, PipeTyped
<1>2. ASSUME NEW a \in Alerts, Report(a) PROVE PipeTyped'
  <2>1. stage' \in [Alerts -> Stages]
    BY <1>2 DEF Report, PipeTyped, Stages
  <2>2. created' \in [Alerts -> 0..MaxTime]
    BY <1>2 DEF Report, PipeTyped
  <2> QED BY <1>2, <2>1, <2>2 DEF Report, PipeTyped
<1>3. ASSUME NEW a \in Alerts, AlertStep(a) PROVE PipeTyped'
  <2>1. stage' \in [Alerts -> Stages]
    BY <1>3 DEF AlertStep, Save, SaveFails, DispatchCallbacks, Callback, CallbackReturns, PipeTyped, Stages
  <2>2. UNCHANGED <<created, engineVars, dispatcherVars>>
    BY <1>3 DEF AlertStep, Save, SaveFails, DispatchCallbacks, Callback, CallbackReturns
  <2> QED BY <2>1, <2>2 DEF PipeTyped
<1>4. CASE DetectionStops \/ CloseDispatcher \/ CloseStore
  BY <1>4 DEF DetectionStops, CloseDispatcher, CloseStore, PipeTyped
<1>5. CASE StopWebhook \/ (\E w \in Workers : WorkerStep(w)) \/ UNCHANGED pipeVars \/ UNCHANGED allVars
  BY <1>5 DEF StopWebhook, WorkerStep, PipeTyped, allVars
<1> QED BY <1>1, <1>2, <1>3, <1>4, <1>5 DEF PipeNext

(* No step but DispatchCallbacks starts a callback, and that one starts a  *)
(* single one, with a free slot and an open dispatcher.                    *)
LEMMA Started ==
  ASSUME PipeTyped, [PipeNext]_allVars
  PROVE  \/ Running' \subseteq Running
         \/ \E a \in Alerts : ~dispatcherClosed /\ SlotIsFree /\ Running' = Running \cup {a}
<1> USE DEF alertVars, engineVars, dispatcherVars, pipeVars
<1>1. ASSUME NEW a \in Alerts, Trigger(a) \/ Report(a) PROVE Running' \subseteq Running
  BY <1>1 DEF Trigger, Report, Running, PipeTyped
<1>2. ASSUME NEW a \in Alerts, DispatchCallbacks(a)
      PROVE  Running' \subseteq Running
             \/ (~dispatcherClosed /\ SlotIsFree /\ Running' = Running \cup {a})
  BY <1>2 DEF DispatchCallbacks, DispatcherRefuses, Running, PipeTyped
<1>3. ASSUME NEW a \in Alerts, Save(a) \/ SaveFails(a) \/ Callback(a) \/ CallbackReturns(a)
      PROVE  Running' \subseteq Running
  BY <1>3 DEF Save, SaveFails, Callback, CallbackReturns, Running, PipeTyped
<1>4. CASE DetectionStops \/ CloseDispatcher \/ CloseStore
  BY <1>4 DEF DetectionStops, CloseDispatcher, CloseStore, Running
<1>5. CASE StopWebhook \/ (\E w \in Workers : WorkerStep(w)) \/ UNCHANGED pipeVars \/ UNCHANGED allVars
  BY <1>5 DEF StopWebhook, WorkerStep, Running, allVars
<1> QED BY <1>1, <1>2, <1>3, <1>4, <1>5 DEF PipeNext, AlertStep

(* Every step keeps the callbacks that run within the slots.               *)
LEMMA SlotsStep ==
  ASSUME PipeTyped, SlotsKept, [PipeNext]_allVars
  PROVE  SlotsKept'
<1>1. CASE Running' \subseteq Running
  <2>1. IsFiniteSet(Running') /\ Cardinality(Running') <= Cardinality(Running)
    BY <1>1, FS_Subset DEF SlotsKept
  <2>2. Cardinality(Running) \in Nat /\ Cardinality(Running') \in Nat
    BY <2>1, FS_CardinalityType DEF SlotsKept
  <2> QED BY <2>1, <2>2, SlotAssumption DEF SlotsKept
<1>2. ASSUME NEW a \in Alerts, SlotIsFree, Running' = Running \cup {a} PROVE SlotsKept'
  <2>1. Cardinality(Running) \in Nat /\ Cardinality(Running) < Slots
    BY <1>2, FS_CardinalityType DEF SlotsKept, SlotIsFree
  <2>2. IsFiniteSet(Running') /\ Cardinality(Running') <= Cardinality(Running) + 1
    BY <1>2, <2>1, FS_AddElement DEF SlotsKept
  <2>3. Cardinality(Running') \in Nat
    BY <2>2, FS_CardinalityType
  <2> QED BY <2>1, <2>2, <2>3, SlotAssumption DEF SlotsKept
<1> QED BY <1>1, <1>2, Started

(* No more callbacks run than the dispatcher has slots.                    *)
THEOREM PipeTypesAndSlots == PipeSpec => []PipeTypeOK
<1>1. PipeInit => PipeTyped /\ SlotsKept
  BY PipeTypedInit
<1>2. TypeOK /\ PipeTyped /\ SlotsKept /\ [PipeNext]_allVars => PipeTyped' /\ SlotsKept'
  BY PipeTypedStep, SlotsStep
<1>3. TypeOK /\ PipeTyped /\ SlotsKept => PipeTypeOK
  BY DEF PipeTypeOK, PipeTyped, SlotsKept
<1> QED BY <1>1, <1>2, <1>3, WebInPipe, PTL DEF PipeSpec

(* The variables of the pipeline keep their types.                         *)
THEOREM PipeTypes == PipeSpec => []PipeTyped
<1>1. PipeTypeOK => PipeTyped
  BY DEF PipeTypeOK, PipeTyped
<1> QED BY <1>1, PipeTypesAndSlots, PTL

-------------------------------------------------------------------------------
(* The end of the callbacks.                                               *)
WaitedLast == waited => dispatcherClosed /\ Running = {}

(* Every step keeps it: once the dispatcher's wait is over it is closed    *)
(* and no callback runs.                                                   *)
LEMMA WaitedStep ==
  ASSUME PipeTyped, WaitedLast, [PipeNext]_allVars
  PROVE  WaitedLast'
<1> USE DEF alertVars, engineVars, dispatcherVars, pipeVars
<1>1. waited' => waited \/ (dispatcherClosed /\ Running = {})
  BY DEF PipeNext, Trigger, Report, AlertStep, Save, SaveFails, DispatchCallbacks, Callback,
         CallbackReturns, WorkerStep, DetectionStops, StopWebhook, CloseDispatcher, CloseStore, allVars
<1>2. dispatcherClosed => dispatcherClosed'
  BY DEF PipeNext, Trigger, Report, AlertStep, Save, SaveFails, DispatchCallbacks, Callback,
         CallbackReturns, WorkerStep, DetectionStops, StopWebhook, CloseDispatcher, CloseStore, allVars
<1>3. dispatcherClosed => Running' \subseteq Running
  BY Started
<1> QED BY <1>1, <1>2, <1>3 DEF WaitedLast

(* Once the dispatcher's Shutdown saw the callbacks end, none runs again:  *)
(* an alert saved later is dropped.                                        *)
THEOREM CallbacksEnd == PipeSpec => []NoCallbackAfterClose
<1>1. PipeInit => WaitedLast
  BY DEF PipeInit, WaitedLast
<1>2. PipeTyped /\ WaitedLast /\ [PipeNext]_allVars => WaitedLast'
  BY WaitedStep
<1>3. WaitedLast => NoCallbackAfterClose
  BY DEF WaitedLast, NoCallbackAfterClose
<1> QED BY <1>1, <1>2, <1>3, PipeTypes, PTL DEF PipeSpec

-------------------------------------------------------------------------------
(* The distance between alerts.                                            *)

(* An alert that was let through has set its subject's time, which is not  *)
(* in the future, and only a later one replaces it.                        *)
LetThrough(a) == stage[a] \notin {"candidate", "ignored"}
TimesKnown ==
  /\ \A a \in Detected : LetThrough(a) => \E t \in lastTriggered[Subject[a]] : created[a] <= t
  /\ \A s \in Subjects : \A t, u \in lastTriggered[s] : t = u /\ t <= now

Windows == TimesKnown /\ OneAlertPerWindow

(* What OneAlertPerWindow says of two alerts.                              *)
Apart(a, b) ==
  created[a] + DedupWindow <= created[b] \/ created[b] + DedupWindow <= created[a]
(* OneAlertPerWindow, said of two alerts in either order of their times.   *)
LEMMA ApartIsThat ==
  OneAlertPerWindow <=>
    \A a, b \in Detected : a # b /\ Subject[a] = Subject[b] /\ LetThrough(a) /\ LetThrough(b)
                          => Apart(a, b)
BY DEF OneAlertPerWindow, LetThrough, Apart

(* A step that lets no detected alert through.                             *)
LEMMA WindowsQuiet ==
  ASSUME Windows, now' \in Nat, now \in Nat, now <= now', PipeTyped,
         \A a \in Detected : LetThrough(a)' => LetThrough(a) /\ created'[a] = created[a],
         UNCHANGED lastTriggered
  PROVE  Windows'
<1>1. TimesKnown'
  <2>1. \A s \in Subjects : \A t \in lastTriggered[s] : t \in Nat
    BY BoundAssumption DEF PipeTyped
  <2>2. \A s \in Subjects : \A t, u \in lastTriggered'[s] : t = u /\ t <= now'
    BY <2>1 DEF Windows, TimesKnown
  <2>3. \A a \in Detected : LetThrough(a)' => \E t \in lastTriggered'[Subject[a]] : created'[a] <= t
    BY DEF Windows, TimesKnown
  <2> QED BY <2>2, <2>3 DEF TimesKnown
<1>2. \A a, b \in Detected : /\ a # b /\ Subject[a] = Subject[b]
                            /\ LetThrough(a)' /\ LetThrough(b)'
                            => Apart(a, b)'
  BY ApartIsThat DEF Windows, Apart
<1>3. OneAlertPerWindow'
  BY <1>2 DEF OneAlertPerWindow, LetThrough, Apart
<1> QED BY <1>1, <1>3 DEF Windows

(* An alert that is let through: its subject's last time is at least a     *)
(* window old, and so is every earlier alert of the subject.               *)
LEMMA WindowsTrigger ==
  ASSUME TypeOK, PipeTyped, Windows, NEW c \in Alerts, Trigger(c)
  PROVE  Windows'
<1> DEFINE s == Subject[c]
<1>1. now \in Nat /\ now' = now /\ c \in Detected /\ s \in Subjects /\ stage[c] = "candidate"
  BY BoundAssumption DEF Trigger, TypeOK, Subjects, vars
<1>2. /\ \A t \in Subjects : \A u \in lastTriggered[t] : u \in Nat
      /\ \A a \in Alerts : created[a] \in Nat
  BY BoundAssumption DEF PipeTyped
<1>3. Detected \subseteq Alerts /\ DedupWindow \in Nat /\ \A a \in Alerts : Subject[a] \in Subjects
  BY DetectionAssumption DEF Subjects
<1>4. CASE stage' = [stage EXCEPT ![c] = "ignored"] /\ UNCHANGED <<created, lastTriggered>>
  <2>1. \A a \in Detected : LetThrough(a)' => LetThrough(a) /\ created'[a] = created[a]
    BY <1>3, <1>4 DEF LetThrough, PipeTyped
  <2> QED BY <1>1, <1>4, <2>1, WindowsQuiet
<1>5. CASE /\ ~Duplicate(c)
           /\ lastTriggered' = [lastTriggered EXCEPT ![s] = {now}]
           /\ created' = [created EXCEPT ![c] = now]
           /\ stage' = [stage EXCEPT ![c] = "saving"]
  <2>1. /\ \A a \in Detected \ {c} : LetThrough(a)' <=> LetThrough(a)
        /\ \A a \in Detected \ {c} : created'[a] = created[a]
        /\ created'[c] = now /\ lastTriggered'[s] = {now}
        /\ \A t \in Subjects \ {s} : lastTriggered'[t] = lastTriggered[t]
    BY <1>1, <1>3, <1>5 DEF LetThrough, PipeTyped
  <2>2. \A t \in lastTriggered[s] : t + DedupWindow <= now
    <3> SUFFICES ASSUME NEW t \in lastTriggered[s] PROVE t + DedupWindow <= now
      OBVIOUS
    <3>1. t \in Nat /\ ~(now - t < DedupWindow)
      BY <1>1, <1>2, <1>5 DEF Duplicate, TriggeredAt
    <3> QED BY <1>1, <1>3, <3>1
  <2>3. ASSUME NEW a \in Detected \ {c}, Subject[a] = s, LetThrough(a)
        PROVE  created[a] + DedupWindow <= now
    <3>1. PICK t \in lastTriggered[s] : created[a] <= t
      BY <2>3 DEF Windows, TimesKnown
    <3>2. t \in Nat /\ created[a] \in Nat /\ t + DedupWindow <= now
      BY <1>1, <1>2, <1>3, <2>2
    <3> QED BY <1>1, <1>3, <3>1, <3>2
  <2>4. TimesKnown'
    <3>1. ASSUME NEW a \in Detected, LetThrough(a)'
          PROVE  \E t \in lastTriggered'[Subject[a]] : created'[a] <= t
      <4>1. CASE a = c
        BY <1>1, <2>1, <4>1
      <4>2. CASE a # c /\ Subject[a] = s
        <5>1. LetThrough(a) /\ created'[a] = created[a]
          BY <2>1, <3>1, <4>2
        <5>2. created[a] \in Nat /\ created[a] + DedupWindow <= now
          BY <1>2, <1>3, <2>3, <4>2, <5>1
        <5>3. created[a] <= now
          BY <1>1, <1>3, <5>2
        <5> QED BY <2>1, <4>2, <5>1, <5>3
      <4>3. CASE a # c /\ Subject[a] # s
        <5>1. LetThrough(a) /\ created'[a] = created[a]
              /\ lastTriggered'[Subject[a]] = lastTriggered[Subject[a]]
          BY <1>3, <2>1, <3>1, <4>3
        <5> QED BY <5>1 DEF Windows, TimesKnown
      <4> QED BY <4>1, <4>2, <4>3
    <3>2. ASSUME NEW x \in Subjects, NEW t \in lastTriggered'[x], NEW u \in lastTriggered'[x]
          PROVE  t = u /\ t <= now'
      <4>1. CASE x = s
        BY <1>1, <2>1, <3>2, <4>1
      <4>2. CASE x # s
        BY <1>1, <2>1, <3>2, <4>2 DEF Windows, TimesKnown
      <4> QED BY <4>1, <4>2
    <3> QED BY <3>1, <3>2 DEF TimesKnown
  <2>5. ASSUME NEW a \in Detected, NEW b \in Detected, a # b, Subject[a] = Subject[b],
               LetThrough(a)', LetThrough(b)'
        PROVE  Apart(a, b)'
    <3>1. CASE a = c
      BY <2>1, <2>3, <2>5, <3>1 DEF Apart
    <3>2. CASE b = c
      BY <2>1, <2>3, <2>5, <3>2 DEF Apart
    <3>3. CASE a # c /\ b # c
      BY <2>1, <2>5, <3>3, ApartIsThat DEF Apart, Windows
    <3> QED BY <3>1, <3>2, <3>3
  <2>6. OneAlertPerWindow'
    BY <2>5 DEF OneAlertPerWindow, LetThrough, Apart
  <2> QED BY <2>4, <2>6 DEF Windows
<1> QED BY <1>4, <1>5 DEF Trigger

(* The other steps move no candidate that was detected past its trigger.   *)
LEMMA WindowsStep ==
  ASSUME TypeOK, PipeTyped, Windows, [PipeNext]_allVars
  PROVE  Windows'
<1> USE DEF alertVars, engineVars, dispatcherVars, pipeVars
<1>1. now \in Nat /\ now' \in Nat /\ now <= now'
  <2>1. now \in Nat
    BY BoundAssumption DEF TypeOK
  <2>2. now' = now \/ Tick
    <3>1. CASE StatusStep
      BY <3>1 DEF StatusStep, Save
    <3>2. CASE UNCHANGED vars
      BY <3>2 DEF vars
    <3>3. CASE \E a \in Alerts : Send(a)
      BY <3>3 DEF Send, CheckNoise, RecordSuppressed, CopyConfig, ListRules, EvaluateRule,
                  RecordDuplicate, EndOfRules, ServeChannel, RecordDropped, EndOfChannels, envVars
    <3>4. CASE \E a \in Alerts : Begin(a)
      BY <3>4 DEF Begin, envVars
    <3>5. CASE WebStep /\ ~(\E a \in Alerts : Send(a) \/ Begin(a))
      BY <3>5 DEF WebStep, Next, Dispatch, Take, Post, WorkerExit, CloseQueue, ShutdownReturns,
                  CloseRepository, Settings, UpdateConfig, UpdateNoiseControls, Stopped, vars, envVars
    <3> QED BY <3>1, <3>2, <3>3, <3>4, <3>5, PipeStep
  <2> QED BY <2>1, <2>2 DEF Tick
<1>2. Detected \subseteq Alerts
  BY DetectionAssumption
<1>3. ASSUME NEW c \in Alerts, Report(c) PROVE Windows'
  <2>1. \A a \in Detected : LetThrough(a)' => LetThrough(a) /\ created'[a] = created[a]
    BY <1>2, <1>3 DEF Report, LetThrough, PipeTyped
  <2> QED BY <1>1, <1>3, <2>1, WindowsQuiet DEF Report
<1>4. ASSUME NEW c \in Alerts, AlertStep(c) PROVE Windows'
  <2>1. \A a \in Detected : LetThrough(a)' => LetThrough(a)
    BY <1>2, <1>4 DEF AlertStep, Save, SaveFails, DispatchCallbacks, Callback, CallbackReturns,
                      LetThrough, PipeTyped
  <2>2. UNCHANGED <<created, lastTriggered>>
    BY <1>4 DEF AlertStep, Save, SaveFails, DispatchCallbacks, Callback, CallbackReturns
  <2> QED BY <1>1, <2>1, <2>2, WindowsQuiet
<1>5. CASE \/ DetectionStops \/ CloseDispatcher \/ CloseStore \/ StopWebhook
           \/ (\E w \in Workers : WorkerStep(w)) \/ UNCHANGED pipeVars \/ UNCHANGED allVars
  <2>1. UNCHANGED <<stage, created, lastTriggered>>
    BY <1>5 DEF DetectionStops, CloseDispatcher, CloseStore, StopWebhook, WorkerStep, allVars
  <2>2. \A a \in Detected : LetThrough(a)' => LetThrough(a) /\ created'[a] = created[a]
    BY <2>1 DEF LetThrough
  <2> QED BY <1>1, <2>1, <2>2, WindowsQuiet
<1> QED BY <1>3, <1>4, <1>5, WindowsTrigger DEF PipeNext

(* Two alerts of one subject from the anomaly engine lie a window apart.   *)
THEOREM WindowKept == PipeSpec => []OneAlertPerWindow
<1>1. PipeInit => Windows
  <2> SUFFICES ASSUME PipeInit PROVE Windows
    OBVIOUS
  <2>1. /\ \A a \in Detected : stage[a] = "candidate"
        /\ \A s \in Subjects : lastTriggered[s] = {}
    BY DetectionAssumption DEF PipeInit
  <2> QED BY <2>1 DEF Windows, TimesKnown, LetThrough, OneAlertPerWindow
<1>2. TypeOK /\ PipeTyped /\ Windows /\ [PipeNext]_allVars => Windows'
  BY WindowsStep
<1>3. Windows => OneAlertPerWindow
  BY DEF Windows
<1> QED BY <1>1, <1>2, <1>3, WebInPipe, PipeTypes, PTL DEF PipeSpec

-------------------------------------------------------------------------------
(* The cooldown of a policy.                                               *)

(* Only Save makes an alert stored, and only of one alert; a stored alert  *)
(* keeps its status and the time it was created.                           *)
LEMMA StoredStep ==
  ASSUME TypeOK, PipeTyped, [PipeNext]_allVars, NEW a \in Alerts, Stored(a)', ~Save(a)
  PROVE  Stored(a) /\ created'[a] = created[a] /\ status'[a] = status[a]
<1> USE DEF alertVars, engineVars, dispatcherVars, pipeVars
<1>1. ASSUME NEW c \in Alerts, Trigger(c) \/ Report(c)
      PROVE  Stored(a) /\ created'[a] = created[a] /\ status' = status
  BY <1>1 DEF Trigger, Report, Stored, PipeTyped, vars
<1>2. ASSUME NEW c \in Alerts, AlertStep(c), ~Save(c)
      PROVE  Stored(a) /\ created'[a] = created[a] /\ status' = status
  <2>1. Stored(a) /\ created'[a] = created[a]
    BY <1>2 DEF AlertStep, SaveFails, DispatchCallbacks, Callback, CallbackReturns, Stored, PipeTyped
  <2>2. status' = status
    BY <1>2 DEF AlertStep, SaveFails, DispatchCallbacks, Callback, CallbackReturns, vars, envVars,
                Begin, Send, CheckNoise, RecordSuppressed, CopyConfig, ListRules, EvaluateRule,
                RecordDuplicate, EndOfRules, ServeChannel, RecordDropped, EndOfChannels
  <2> QED BY <2>1, <2>2
<1>3. ASSUME NEW c \in Alerts, Save(c)
      PROVE  Stored(a) /\ created'[a] = created[a] /\ status'[a] = status[a]
  <2>1. c # a
    BY <1>3
  <2> QED BY <1>3, <2>1 DEF Save, Stored, PipeTyped, TypeOK
<1>4. CASE \/ DetectionStops \/ CloseDispatcher \/ CloseStore \/ StopWebhook
           \/ (\E w \in Workers : WorkerStep(w)) \/ ((Settings \/ Tick \/ Stopped) /\ UNCHANGED pipeVars)
           \/ UNCHANGED allVars
  <2>1. UNCHANGED <<stage, created>>
    BY <1>4 DEF DetectionStops, CloseDispatcher, CloseStore, StopWebhook, WorkerStep, allVars
  <2>2. status' = status
    BY <1>4 DEF DetectionStops, CloseDispatcher, CloseStore, StopWebhook, WorkerStep, allVars, vars,
                envVars, Dispatch, Take, Post, WorkerExit, CloseQueue, ShutdownReturns,
                CloseRepository, Settings, UpdateConfig, UpdateNoiseControls, Tick, Stopped
  <2> QED BY <2>1, <2>2 DEF Stored
<1> QED BY <1>1, <1>2, <1>3, <1>4 DEF PipeNext, AlertStep

(* Two alerts, one of which lies past the cooldown of its best policy.     *)
Cooled(a, b) ==
  \A p \in BestPolicies(a), q \in BestPolicies(b) :
    p.cooldown > 0 /\ q.cooldown > 0 => After(a, b, p) \/ After(b, a, q)
Active(a) == Stored(a) /\ status[a] = "active"

(* Saving an alert next to the stored ones: it stays active only if it     *)
(* lies past the cooldown of its own policy after each of them.            *)
LEMMA SaveCooled ==
  ASSUME TypeOK, PipeTyped, NEW a \in Alerts, NEW b \in Alerts, a # b, Subject[a] = Subject[b],
         Save(a), Active(a)', Stored(b)
  PROVE  \A p \in BestPolicies(a) : p.cooldown > 0 => After(a, b, p)'
<1>1. created' = created /\ status'[a] = "active"
  BY DEF Save, Active
<1>2. \A p \in BestPolicies(a) : ~Suppresses(p, a)
  BY <1>1 DEF Save, TypeOK
<1> SUFFICES ASSUME NEW p \in BestPolicies(a), p.cooldown > 0
             PROVE  created[b] + p.cooldown < created[a]
  BY <1>1 DEF After
<1>3. ~(created[b] + p.cooldown >= created[a])
  BY <1>2 DEF Suppresses, HasRecentAnomaly
<1>4. p.cooldown \in Nat /\ created[a] \in Nat /\ created[b] \in Nat
  BY PolicyAssumption, BoundAssumption DEF BestPolicies, Matching, PolicyRecord, PipeTyped
<1> QED BY <1>3, <1>4

(* Every step keeps the active alerts of a subject apart: of two, the one  *)
(* saved later looked at the other.                                        *)
LEMMA CooldownStep ==
  ASSUME TypeOK, PipeTyped, OneActivePerCooldown, [PipeNext]_allVars
  PROVE  OneActivePerCooldown'
<1>1. ASSUME NEW a \in Alerts, NEW b \in Alerts, a # b, Subject[a] = Subject[b], Active(a)', Active(b)'
      PROVE  Cooled(a, b)'
  <2>1. BestPolicies(a)' = BestPolicies(a) /\ BestPolicies(b)' = BestPolicies(b)
    BY DEF BestPolicies, Matching
  <2>2. CASE Save(a)
    <3>1. ~Save(b)
      BY <1>1, <2>2 DEF Save, PipeTyped
    <3>2. Stored(b)
      BY <1>1, <3>1, StoredStep DEF Active
    <3>3. \A p \in BestPolicies(a) : p.cooldown > 0 => After(a, b, p)'
      BY <1>1, <2>2, <3>2, SaveCooled
    <3> QED BY <2>1, <3>3 DEF Cooled, After
  <2>3. CASE Save(b)
    <3>1. ~Save(a)
      BY <1>1, <2>3 DEF Save, PipeTyped
    <3>2. Stored(a)
      BY <1>1, <3>1, StoredStep DEF Active
    <3>3. \A q \in BestPolicies(b) : q.cooldown > 0 => After(b, a, q)'
      BY <1>1, <2>3, <3>2, SaveCooled
    <3> QED BY <2>1, <3>3 DEF Cooled, After
  <2>4. CASE ~Save(a) /\ ~Save(b)
    <3>1. /\ Active(a) /\ Active(b)
          /\ created'[a] = created[a] /\ created'[b] = created[b]
      BY <1>1, <2>4, StoredStep DEF Active
    <3>2. Cooled(a, b)
      BY <1>1, <3>1 DEF OneActivePerCooldown, Active, Cooled
    <3> QED BY <2>1, <3>1, <3>2 DEF Cooled, After
  <2> QED BY <2>2, <2>3, <2>4
<1> QED BY <1>1 DEF OneActivePerCooldown, Active, Cooled

(* Two active alerts of one subject, whatever their policies, their times  *)
(* and the order in which they were saved: one lies past the cooldown of   *)
(* its own policy after the other.                                         *)
THEOREM CooldownKept == PipeSpec => []OneActivePerCooldown
<1>1. PipeInit => OneActivePerCooldown
  BY DEF PipeInit, OneActivePerCooldown, Stored
<1>2. TypeOK /\ PipeTyped /\ OneActivePerCooldown /\ [PipeNext]_allVars => OneActivePerCooldown'
  BY CooldownStep
<1> QED BY <1>1, <1>2, WebInPipe, PipeTypes, PTL DEF PipeSpec

===============================================================================

----------------------------- MODULE AlertPipeline -----------------------------
(***************************************************************************)
(* From a detection to a notification: the anomaly engine's triggerAlert   *)
(* (internal/anomaly/alerts.go), the repository's SaveAnomaly with its     *)
(* policies (internal/storage/sqlite/anomalies.go), the callback           *)
(* dispatcher (internal/storage/callbacks/dispatcher.go), the webhook      *)
(* engine of module WebhookEngine as the registered callback, and the      *)
(* order in which main.go stops them.                                      *)
(*                                                                         *)
(* An alert is a candidate until its detection reports it.  Detected ones  *)
(* come from the anomaly engine, which deduplicates them and saves them in *)
(* a goroutine nobody joins; the others (UniFi syslog, collector package)  *)
(* are saved, without deduplication and with the time their sender gave    *)
(* them, by a goroutine that Shutdown joins.  The policies stay the same,  *)
(* and the times of one subject are in one zone: they are compared as the  *)
(* strings the repository stores.                                          *)
(***************************************************************************)
EXTENDS WebhookEngine, FiniteSets

CONSTANTS
  Destination,  (* Destination[a]: DestinationIP of anomaly a, or none      *)
  Detected,     (* alerts triggered by AnomalyEngine.triggerAlert           *)
  DedupWindow,  (* its 15 minutes                                           *)
  Policies,     (* the rows of the policies table                           *)
  Slots         (* maxConcurrentAnomalyCallbacks                            *)

Scopes == {"ip", "subnet", "alert_type", "global"}
NoThreshold == ""
NoDestination == "none"
Destinations == {Destination[a] : a \in Alerts}
(* A policy's target selects subjects (its IPs with every type, or its     *)
(* type with every IP) and, of scope ip or subnet, destinations.           *)
PolicyRecord(p) ==
  /\ p.id \in Nat
  /\ p.scope \in Scopes
  /\ p.subjects \subseteq Subjects
  /\ p.destinations \subseteq Destinations \ {NoDestination}
  /\ p.scope \notin {"ip", "subnet"} => p.destinations = {}
  /\ p.suppressed \in BOOLEAN
  /\ p.severityMin \in Severities \cup {NoThreshold}
  /\ p.quietHours \subseteq 0..MaxTime
  /\ p.cooldown \in Nat

ASSUME DetectionAssumption ==
  Detected \subseteq Alerts /\ DOMAIN Destination = Alerts /\ DedupWindow \in Nat
ASSUME PolicyAssumption ==
  /\ \A p \in Policies : PolicyRecord(p)
  /\ \A p, q \in Policies : p.id = q.id => p = q
ASSUME SlotAssumption == Slots \in Nat \ {0}

VARIABLES
  stage,            (* how far each alert has come                          *)
  created,          (* CreatedAt of each alert                              *)
  lastTriggered,    (* e.alertDeduplicator: the times a subject was set to  *)
  detecting,        (* FALSE once agg.Shutdown has returned                 *)
  dispatcherClosed, (* the dispatcher's closed flag                         *)
  waited            (* its Shutdown saw the callbacks end                   *)

alertVars == <<stage, created>>
engineVars == <<lastTriggered, detecting>>
dispatcherVars == <<dispatcherClosed, waited>>
pipeVars == <<alertVars, engineVars, dispatcherVars>>
allVars == <<vars, pipeVars>>

Stages == {"candidate", "ignored", "saving", "lost", "stored", "dropped", "running", "finished"}
Stored(a) == stage[a] \in {"stored", "dropped", "running", "finished"}
Running == {a \in Alerts : stage[a] = "running"}

-------------------------------------------------------------------------------
(* Bugs a change could introduce, each replacing the definition it is      *)
(* named after in one mutation run.                                        *)
SlotIsFreeOffByOne == Cardinality(Running) <= Slots
DispatcherRefusesNobody == FALSE
DedupWindowFromLastSave(s) ==
  {created[a] : a \in {b \in Detected : Subject[b] = s /\ Stored(b)}}
RecentIfActiveBefore(a, p) ==
  \E b \in Alerts : /\ Stored(b) /\ Subject[b] = Subject[a]
                    /\ created[b] + p.cooldown > created[a]

-------------------------------------------------------------------------------
(* triggerAlert.  The deduplicator is read and set in one critical         *)
(* section, before the alert is saved.                                     *)
TriggeredAt(s) == lastTriggered[s]
Duplicate(a) == \E t \in TriggeredAt(Subject[a]) : now - t < DedupWindow

Trigger(a) ==
  /\ detecting
  /\ a \in Detected
  /\ stage[a] = "candidate"
  /\ \/ /\ Duplicate(a)
        /\ stage' = [stage EXCEPT ![a] = "ignored"]
        /\ UNCHANGED <<created, lastTriggered>>
     \/ /\ ~Duplicate(a)
        /\ lastTriggered' = [lastTriggered EXCEPT ![Subject[a]] = {now}]
        /\ created' = [created EXCEPT ![a] = now]
        /\ stage' = [stage EXCEPT ![a] = "saving"]
  /\ UNCHANGED <<vars, detecting, dispatcherVars>>

(* The UniFi syslog worker turns an event into an anomaly, which carries   *)
(* the timestamp of the message: the sender's clock, early or late.        *)
Report(a) ==
  /\ detecting
  /\ a \notin Detected
  /\ stage[a] = "candidate"
  /\ \E timestamp \in 0..MaxTime : created' = [created EXCEPT ![a] = timestamp]
  /\ stage' = [stage EXCEPT ![a] = "saving"]
  /\ UNCHANGED <<vars, engineVars, dispatcherVars>>

-------------------------------------------------------------------------------
(* SaveAnomaly: the policies are evaluated and the row is inserted under   *)
(* r.mu.  The matching policy of the narrowest scope counts, and the       *)
(* newest of several.                                                      *)
ScopePriority(s) ==
  CASE s = "ip" -> 4 [] s = "subnet" -> 3 [] s = "alert_type" -> 2 [] s = "global" -> 1

Matching(a) ==
  {p \in Policies : Subject[a] \in p.subjects \/ Destination[a] \in p.destinations}
Outranks(p, q) ==
  \/ ScopePriority(p.scope) > ScopePriority(q.scope)
  \/ p.scope = q.scope /\ p.id >= q.id
BestPolicies(a) == {p \in Matching(a) : \A q \in Matching(a) : Outranks(p, q)}

HasRecentAnomaly(a, p) ==
  \E b \in Alerts : /\ Stored(b) /\ Subject[b] = Subject[a]
                    /\ created[b] + p.cooldown >= created[a]

BelowThreshold(a, p) ==
  p.severityMin # NoThreshold /\ Score(Severity[a]) < Score(p.severityMin)
InQuietHours(a, p) == created[a] \in p.quietHours

Suppresses(p, a) ==
  \/ p.suppressed
  \/ BelowThreshold(a, p)
  \/ InQuietHours(a, p)
  \/ p.cooldown > 0 /\ HasRecentAnomaly(a, p)

Save(a) ==
  /\ stage[a] = "saving"
  /\ repoOpen
  /\ status' = [status EXCEPT ![a] = IF \E p \in BestPolicies(a) : Suppresses(p, a)
                                     THEN "silenced" ELSE "active"]
  /\ stage' = [stage EXCEPT ![a] = "stored"]
  /\ UNCHANGED <<now, repoOpen, settingVars, senderVars, queueVars, workerVars, logVars, stop>>
  /\ UNCHANGED <<created, engineVars, dispatcherVars>>

(* An error, or the two seconds of its context are over; a deduplicated    *)
(* successor will not be saved either.                                     *)
SaveFails(a) ==
  /\ stage[a] = "saving"
  /\ stage' = [stage EXCEPT ![a] = "lost"]
  /\ UNCHANGED <<vars, created, engineVars, dispatcherVars>>

-------------------------------------------------------------------------------
(* Dispatcher.Dispatch after r.mu is released, and the callback it starts. *)
SlotIsFree == Cardinality(Running) < Slots
DispatcherRefuses == dispatcherClosed

DispatchCallbacks(a) ==
  /\ stage[a] = "stored"
  /\ stage' = [stage EXCEPT ![a] = IF ~DispatcherRefuses /\ SlotIsFree
                                   THEN "running" ELSE "dropped"]
  /\ UNCHANGED <<vars, created, engineVars, dispatcherVars>>

Callback(a) ==
  /\ stage[a] = "running"
  /\ Begin(a) \/ Send(a)
  /\ UNCHANGED pipeVars

CallbackReturns(a) ==
  /\ stage[a] = "running"
  /\ at[a] = "done"
  /\ stage' = [stage EXCEPT ![a] = "finished"]
  /\ UNCHANGED <<vars, created, engineVars, dispatcherVars>>

-------------------------------------------------------------------------------
(* main.go, in the order of its statements: the collectors and the         *)
(* aggregator, the webhook engine, then the repository, whose Close shuts  *)
(* the dispatcher down first.                                              *)
DetectionStops ==
  /\ detecting
  /\ \A a \in Alerts \ Detected : stage[a] # "saving"
  /\ detecting' = FALSE
  /\ UNCHANGED <<vars, alertVars, lastTriggered, dispatcherVars>>

StopWebhook ==
  /\ ~detecting
  /\ CloseQueue \/ ShutdownReturns
  /\ UNCHANGED pipeVars

CloseDispatcher ==
  /\ stop \in {"clean", "timeout"}
  /\ ~dispatcherClosed
  /\ dispatcherClosed' = TRUE
  /\ UNCHANGED <<vars, alertVars, engineVars, waited>>

(* wg.Wait returned, or its five seconds passed.                           *)
CloseStore ==
  /\ dispatcherClosed
  /\ CloseRepository
  /\ waited' = (Running = {})
  /\ UNCHANGED <<alertVars, engineVars, dispatcherClosed>>

-------------------------------------------------------------------------------
PipeInit ==
  /\ Init
  /\ status = [a \in Alerts |-> "active"]
  /\ stage = [a \in Alerts |-> "candidate"]
  /\ created = [a \in Alerts |-> 0]
  /\ lastTriggered = [s \in Subjects |-> {}]
  /\ detecting = TRUE
  /\ dispatcherClosed = FALSE
  /\ waited = FALSE

AlertStep(a) ==
  \/ Save(a) \/ SaveFails(a)
  \/ DispatchCallbacks(a) \/ Callback(a) \/ CallbackReturns(a)
WorkerStep(w) == Dispatch(w) /\ UNCHANGED pipeVars

PipeNext ==
  \/ \E a \in Alerts : Trigger(a) \/ Report(a) \/ AlertStep(a)
  \/ \E w \in Workers : WorkerStep(w)
  \/ DetectionStops \/ StopWebhook \/ CloseDispatcher \/ CloseStore
  \/ (Settings \/ Tick \/ Stopped) /\ UNCHANGED pipeVars

PipeSpec == PipeInit /\ [][PipeNext]_allVars
-------------------------------------------------------------------------------
PipeTypeOK ==
  /\ TypeOK
  /\ stage \in [Alerts -> Stages]
  /\ created \in [Alerts -> 0..MaxTime]
  /\ lastTriggered \in [Subjects -> SUBSET (0..MaxTime)]
  /\ Cardinality(Running) <= Slots
  /\ detecting \in BOOLEAN
  /\ dispatcherClosed \in BOOLEAN
  /\ waited \in BOOLEAN

(* "Alerts of the same type and device are deduplicated for 15 minutes"    *)
(* (docs/features/anomaly-detection.md): two alerts of one subject from    *)
(* the anomaly engine lie a window apart, although each is saved later, by *)
(* a goroutine of its own (alerts.go triggerAlert).                        *)
OneAlertPerWindow ==
  \A a, b \in Detected :
    /\ a # b /\ Subject[a] = Subject[b]
    /\ {stage[a], stage[b]} \cap {"candidate", "ignored"} = {}
    => created[a] + DedupWindow <= created[b] \/ created[b] + DedupWindow <= created[a]

(* A policy's cooldown keeps active alerts of one subject apart, in        *)
(* whatever order the goroutines get to save theirs and whatever times the *)
(* senders gave: of any two, one lies more than the cooldown of its own    *)
(* best policy after the other.  The policies may differ, because one is   *)
(* also chosen by the destination of the alert; and the look at the stored *)
(* anomalies and the insert are one critical section (anomalies.go         *)
(* SaveAnomaly).                                                           *)
After(a, b, p) == created[b] + p.cooldown < created[a]
OneActivePerCooldown ==
  \A a, b \in Alerts :
    /\ a # b /\ Subject[a] = Subject[b]
    /\ Stored(a) /\ Stored(b)
    /\ status[a] = "active" /\ status[b] = "active"
    => \A p \in BestPolicies(a), q \in BestPolicies(b) :
         p.cooldown > 0 /\ q.cooldown > 0 => After(a, b, p) \/ After(b, a, q)

(* Once the repository is closed after its callbacks ended, none runs and  *)
(* none starts: an alert saved late is dropped, its callback never meets   *)
(* the closed database (dispatcher.go Dispatch and Shutdown).              *)
NoCallbackAfterClose == waited => Running = {}

(* What the source says and the code does not do.  main.go shuts "the      *)
(* webhook dispatcher [down] after final anomaly callbacks have had a      *)
(* chance to enqueue notifications": once its queue is closed no alert is  *)
(* on its way to it.                                                       *)
FinalAlertsReachTheQueue ==
  queueClosed => \A a \in Alerts : stage[a] \notin {"saving", "stored", "running"}
===============================================================================

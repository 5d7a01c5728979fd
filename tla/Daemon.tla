-------------------------------- MODULE Daemon --------------------------------
(***************************************************************************)
(* The program as a process (cmd/flowguard/main.go): it loads its settings *)
(* or exits, cleans up the history before anything else runs, serves, and  *)
(* is stopped or killed at any moment and started again.  The composition  *)
(* of the settings and the history, which one of two backends keeps: the   *)
(* retention loop reads the retention from the Config in memory, which the *)
(* settings handlers change.                                               *)
(***************************************************************************)
EXTENDS DuckStore, Settings, SuricataTailer

CONSTANTS
  Workloads,    (* what happens in one behaviour, until when, in what       *)
                (* environment (the fields FLOWGUARD_ variables override),  *)
                (* with which StorageBackend, and the lines of Suricata's   *)
                (* log, 0 where it has none                                 *)
  MaxStarts     (* bound on the number of starts                            *)

ASSUME StartsAssumption == MaxStarts \in Nat
ASSUME WorkloadAssumption ==
  \A w \in Workloads :
    /\ w.batches \subseteq Batches /\ w.queries \subseteq Queries
    /\ w.backend \in {"sqlite", "duckdb"}
    /\ w.requests \subseteq Requests /\ w.until \in 0..MaxTime /\ w.lines \in 0..MaxLines
    /\ Overridden(Defaults, w.env) \in Config
    /\ "hash" \in DOMAIN w.env => w.env["hash"] # ""

VARIABLES
  phase,     (* down, loaded, cleaning, up, or refused by its settings      *)
  starts,    (* how often it has been started                               *)
  cleanedAt, (* when the retention loop last ran                            *)
  workload   (* the workload of this behaviour                              *)

processVars == <<phase, starts, cleanedAt, workload>>
historyVars == <<storeVars, duckVars>>
daemonVars == <<historyVars, settingsVars, tailVars, processVars>>

-------------------------------------------------------------------------------
OnDuck == workload.backend = "duckdb"
Cleanup(retentionDays) ==
  \/ ~OnDuck /\ CleanupRetention(retentionDays) /\ UNCHANGED duckVars
  \/ OnDuck /\ DuckCleanupRetention(retentionDays)

(* A start: LoadConfig, then one clean-up before the collectors, the       *)
(* aggregator and the API server are created.                              *)
Start ==
  /\ phase = "down"
  /\ starts < MaxStarts
  /\ starts' = starts + 1
  /\ \/ LoadConfig(workload.env) /\ phase' = "loaded"
     \/ /\ ~Valid(Loaded(file, workload.env))
        /\ phase' = "refused"
        /\ UNCHANGED settingsVars
  /\ UNCHANGED <<historyVars, tailVars, cleanedAt, workload>>

StartupCleanup ==
  /\ phase = "loaded"
  /\ Cleanup(mem.retention)
  /\ phase' = "cleaning"
  /\ cleanedAt' = now
  /\ UNCHANGED <<settingsVars, tailVars, starts, workload>>

Serve ==
  /\ phase = "cleaning"
  /\ pruner.at = "idle"
  /\ phase' = "up"
  /\ StartTailer(workload.lines > 0)
  /\ UNCHANGED <<historyVars, settingsVars, fileOfEve, alertKeys, tailHistory, starts, cleanedAt, workload>>

(* The ticker of the retention loop; a tick that comes while a clean-up    *)
(* still runs waits for it.                                                *)
PeriodicCleanup ==
  /\ phase = "up"
  /\ now >= cleanedAt + DayLength
  /\ Cleanup(mem.retention)
  /\ cleanedAt' = now
  /\ UNCHANGED <<settingsVars, tailVars, phase, starts, workload>>

(* A crash, an exit on a server error, or a shutdown: what is in progress  *)
(* is cut off, in a shutdown after the time it is given.                   *)
Stop ==
  /\ phase \in {"loaded", "cleaning", "up"}
  /\ phase' = "down"
  /\ ProcessGone
  /\ LocksGone
  /\ RequestsGone
  /\ TailerGone
  /\ UNCHANGED <<starts, cleanedAt, workload>>

-------------------------------------------------------------------------------
ShardStep ==
  /\ ~OnDuck
  /\ \/ /\ phase = "up"
        /\ \/ \E b \in workload.batches : SaveAggregates(b)
           \/ \E q \in workload.queries : AskHistory(q)
           \/ Write
           \/ \E q \in workload.queries : Read(q)
     \/ Sweep
  /\ UNCHANGED duckVars

(* The goroutines of the writers and of one query, inside the repository.  *)
DuckWriters ==
  \/ Lock \/ DuckCommit \/ DuckSaveFails \/ ReadClock \/ DeleteExpired
  \/ CleanupEnds /\ UNCHANGED duckVars
DuckStep ==
  /\ OnDuck
  /\ \/ /\ phase = "up"
        /\ \/ \E b \in workload.batches : DuckSaveAggregates(b)
           \/ \E q \in workload.queries : DuckQuery(q) \/ ListDevices(q)
     \/ DuckWriters

HistoryStep ==
  /\ \/ ShardStep
     \/ DuckStep
     \/ now < workload.until /\ StoreTick /\ UNCHANGED duckVars
  /\ UNCHANGED <<settingsVars, tailVars, processVars>>

SettingsStep ==
  /\ phase = "up"
  /\ \E q \in workload.requests : PostSettings(q) \/ PostSetup(q) \/ Handle(q)
  /\ UNCHANGED <<historyVars, tailVars, processVars>>

TailStep ==
  /\ \/ phase = "up" /\ Follow
     \/ written < workload.lines /\ WriteEve
     \/ workload.lines > 0 /\ Rotate
  /\ UNCHANGED <<historyVars, settingsVars, processVars>>

DaemonInit ==
  /\ StoreInit
  /\ DuckInit
  /\ SettingsInit
  /\ TailInit
  /\ phase = "down"
  /\ starts = 0
  /\ cleanedAt = 0
  /\ workload \in Workloads

DaemonNext ==
  \/ Start \/ StartupCleanup \/ Serve \/ PeriodicCleanup \/ Stop
  \/ HistoryStep \/ SettingsStep \/ TailStep

DaemonSpec == DaemonInit /\ [][DaemonNext]_daemonVars
-------------------------------------------------------------------------------
DaemonTypeOK ==
  /\ StoreTypeOK /\ DuckTypeOK /\ TailTypeOK
  /\ DOMAIN mem = Fields /\ mem.retention \in Nat /\ mem.pps \in Nat /\ mem.spike \in Nat
  /\ pruner.cutoff <= now
  /\ phase \in {"down", "loaded", "cleaning", "up", "refused"}
  /\ workload \in Workloads
  /\ starts \in 0..MaxStarts
  /\ cleanedAt \in 0..now

(* The engines never run settings that were not saved: apart from the      *)
(* moment of the hand-out their copies are what the last saved settings    *)
(* POST, or the start, said, however many POSTs failed since.  Memory,     *)
(* which the DDoS detector and the retention loop read directly, gives no  *)
(* such promise (handlePostSettings).                                      *)
EnginesRunSaved ==
  \/ overlapped \/ phase # "up"
  \/ \E q \in Requests : request[q].at = "push"
  \/ pushed = Copies(current)

(* Whichever backend keeps the history, an answer that was given without  *)
(* an error is true of it (AnswersTrue, DuckAnswersTrue).                  *)
HistoryAnswersTrue == AnswersTrue /\ DuckAnswersTrue

(* The history keeps its promise through the races of clean-ups, queries   *)
(* and saves over the shard files or behind the lock, through crashes, and *)
(* whatever the settings handlers do to the retention while a clean-up     *)
(* waits: a row younger than what the clean-up was told to keep is never   *)
(* lost.                                                                   *)
Promise == INSTANCE FlowStore
  WITH MaxClock <- MaxTime, TimeOf <- MinuteOf, clock <- now,
       kept <- IF OnDuck THEN InTable ELSE OnDisk,
       retention <- (IF pruner.at = "idle" THEN mem.retention ELSE pruner.keep) * DayLength
HistoryPromise == Promise!PromiseSpec

-------------------------------------------------------------------------------
(* Every goroutine that can go on does, the repository's mutex included;   *)
(* nobody has to start anything or to stop the process.                    *)
DuckFairness ==
  /\ WF_daemonVars(DuckWriters /\ UNCHANGED <<settingsVars, tailVars, processVars>>)
  /\ \A q \in Queries :
       SF_daemonVars(phase = "up" /\ ListDevices(q) /\ UNCHANGED <<settingsVars, tailVars, processVars>>)
DuckSpec == DaemonSpec /\ DuckFairness

(* A clean-up that has begun ends, however queries and saves are timed     *)
(* (docs/performance-baselines.md, Bounded Retention: database prunes must *)
(* execute successfully).                                                  *)
PrunesEnd == pruner.at = "lock" ~> pruner.at = "idle"
===============================================================================

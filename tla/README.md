# FlowGuard Lite in TLA+

FlowGuard Lite is a network monitor for small networks, one Go process over a
set of SQLite files (or one DuckDB file). It receives NetFlow, IPFIX, sFlow and UniFi syslog
datagrams or captures packets itself, rolls the flows up per minute, stores
them in one database per day, looks for anomalies in every stored batch, and
notifies the operator through webhooks. This directory holds TLA+ modules that
model the program, configurations that check them with TLC, and proofs checked
with TLAPS. `PROJECT.json` maps every definition to the lines it stands for.

Contents: 1. the system - 2. the modules - 3. how to read them against the code
- 4. the runs - 5. bounds - 6. fairness - 7. the proofs - 8. what the models
found - 9. what is not modelled - 10. the plan.

To check everything: `tlc -workers 2 -config X.cfg M` for the pairs of section
4, and `tlapm M.tla` for the eight modules `SetTheorems`,
`FlowAggregator_proofs`, `WebhookEngine_proofs`, `AlertPipeline_proofs`,
`IngestPath_proofs`, `DuckStore_proofs`, `Daemon_proofs` and
`AnomalyEngine_proofs`.

## 1. The system

### 1.1 Components

Sources are relative to `src/internal/` unless they start with `cmd/`.

| component | source | state | operations |
|---|---|---|---|
| flow collector | `collector/collector.go` | sockets, packet queue (5000), counters, exporters | Start, listeners, decoding workers, Shutdown |
| UniFi syslog listener | `collector/unifi_syslog.go` | message queue, its counters | listener, worker, ParseUniFiSyslog |
| passive capture | `collector/pcap_collector.go` | table of active flows | capture loop, evictor, Shutdown |
| DDoS detector | `ddos/detector.go` | counters per local host, deduplicator | Process, monitor every 5 s, Shutdown |
| device profiler | `device/profiler.go`, `storage/sqlite/devices.go` | DNS cache, lookup queue, `devices` table | Process, resolvers, upserts, Shutdown |
| flow aggregator | `storage/aggregator.go` | buffer of one minute, flush queue, stop flags | Process, Flush, ticker, worker, Shutdown |
| shard store | `storage/sqlite/repository.go`, `flows.go` | open day databases, system database | SaveAggregates, queries, CleanupRetention, Close |
| DuckDB backend | `storage/duckdb/*.go` | one file, one read-write mutex | the same interface |
| anomaly engine | `anomaly/*.go` | controls, deduplicator, profiles of devices, peers, nights, beacons, metrics of the batch | AnalyzeBatch, UpdateConfig, triggerAlert |
| baselines | `baseline/baseline.go` | `cachedBaselines`, `device_baselines` table | recalculation, first after 5 s, then hourly; IsAnomaly |
| anomalies and policies | `storage/sqlite/anomalies.go`, `policies.go` | `anomalies`, `policies` tables | SaveAnomaly, status changes, lists |
| callback dispatcher | `storage/callbacks/dispatcher.go` | 16 slots, closed flag | Dispatch, Shutdown |
| webhook engine | `webhook/engine.go`, `dispatch.go` | channel settings, noise controls, queue (16), 4 workers, `notification_logs` | SendAnomalyAlert, UpdateConfig, UpdateNoiseControls, Shutdown |
| Suricata tailer | `suricata/tailer.go` | open file, offset, reader buffer, deduplicator | Start, tail loop, Shutdown |
| settings | `api/settings_handlers.go`, `config/config.go` | the shared `Config`, the YAML file | POST /settings, SaveConfig, LoadConfig |
| authentication | `api/auth.go` | password hash, sessions, rate limiter | setup, login, logout, middleware |
| risk engine | `risk/engine.go` | none | score of a device |
| HTTP API, web interface | `api/*.go`, `ui/` | none of their own | queries |
| process | `cmd/flowguard/main.go` | order of start and stop | main |

### 1.2 How they interact

```
 UDP sockets --> packet queue --> decoding workers --+
 libpcap ------> active table --> evictor -----------+--> DDoSDetector.Process
                                                           -> DeviceProfiler.Process
                                                              -> FlowAggregator.Process
 FlowAggregator --> flush queue --> flush worker --> SaveAggregates (shard of the day)
                                              \--> AnalyzeBatch --> triggerAlert
 triggerAlert, DDoS monitor, syslog worker, tailer --> SaveAnomaly (policies)
 SaveAnomaly --> callback dispatcher --> SendAnomalyAlert --> dispatch queue --> HTTP workers
```

The three `Process` methods are nested calls on the goroutine of the collector.
Everything after the flush queue runs on the single flush worker, up to
`triggerAlert`, which starts a goroutine of its own for each alert. Settings
handlers call `UpdateConfig` of the engines from HTTP goroutines. `main` stops
the parts one after the other on a signal: HTTP server, tailer, capture,
collector, DDoS detector, profiler, aggregator, webhook engine, repository.

### 1.3 What is hard, and what makes each part correct

* **Collectors.** Channels are closed by a Shutdown that must first be alone
  with them; bounded queues drop when full and must count what they drop. Every
  datagram and packet is counted exactly once, and no goroutine sends on a
  closed channel.
* **DDoS detector.** Workers race to create the counters of one host and add to
  them without a lock while the monitor swaps them out one field at a time. No
  traffic may escape both the window read and the next one.
* **Profiler.** Devices are upserted by goroutines nobody joins, in any order,
  beside resolvers that save the name. A resolved name must survive.
* **Aggregator.** Producers, ticker and stopper drain the same buffer, block on
  a full queue while they hold its mutex, and wait for the worker. Every event
  is stored exactly once or lost with a refused batch, Flush waits, Shutdown
  returns.
* **Stateful detectors.** Bounded tables, retention by a watermark, lists cut to
  the most recent minutes, learning and confirmation windows, with rows that
  come late and several times per minute. Alerts need their confirmations, and
  no device is reported more often than documented.
* **Alerts.** Detections are deduplicated before they are saved and saved by
  goroutines in any order, policies look at what is stored, callbacks have
  bounded slots. One alert per subject and window, one active anomaly per policy
  cooldown, and no callback works on a closed repository.
* **Webhooks.** A cooldown is checked and recorded in two steps far apart, the
  dispatch queue is bounded, settings change under way, and the stop races with
  all of it. No notification disappears without a trace, none is attempted twice.
* **Shard store.** Handles leave the mutex and are used afterwards, while
  retention closes handles and removes files. An answer misses no row of a
  shard that was there all the time, and no row young enough is ever lost.
* **DuckDB.** One mutex makes every method atomic, except the query that takes
  it twice.
* **Settings.** Handlers change the shared `Config` in place before it is saved,
  and nothing keeps two of them apart. Memory, file and engines must agree after
  a failure and after a restart.
* **Tailer.** The log grows, is truncated or replaced while it is read.

The 40 hazards of `PROJECT.json` name the lines where these bite.

## 2. The modules

| module | models | extends |
|---|---|---|
| `FlowLedger` | the abstract promise of the aggregator | |
| `FlowAggregator` | buffer, queue, worker and Shutdown of the aggregator | |
| `WebhookEngine` | rules, cooldowns, dispatch queue and workers | |
| `AlertPipeline` | triggerAlert, SaveAnomaly and policies, the callback dispatcher, the stop | `WebhookEngine` |
| `FlowProcessor` | flow events and the chain of nested `Process` calls | |
| `FlowCollector` | UDP and syslog listeners, queues, workers, Shutdown | `FlowProcessor` |
| `PcapCollector` | the passive capture | `FlowProcessor` |
| `DDoSDetector` | counters per victim and the monitor | `FlowProcessor` |
| `DeviceProfiler` | DNS cache, resolvers, the devices table | `FlowProcessor` |
| `IngestPath` | from the wire to the aggregator, and main's stop order | the four above |
| `DetectorTable` | bounded tables, watermarks, lists of recent minutes | |
| `ProfileDetector`, `PeerDetector`, `NightDetector`, `BeaconDetector` | one stateful detector each | `DetectorTable` |
| `BatchMetrics` | the metrics of a batch, and the two scan detectors | `DetectorTable` |
| `FlowBaseline` | baselines, and lookups of the stored history | `BatchMetrics` |
| `AnomalyEngine` | the detectors under the engine's controls and deduplicator | the four detectors, `FlowBaseline` |
| `FlowStore` | the abstract promise of the flow history | |
| `FlowQueries` | what the queries of the history compute | |
| `ShardStore` | one SQLite file per day: saves, queries, retention | `FlowQueries` |
| `DuckStore` | the same behind the mutex of the DuckDB backend | `ShardStore` |
| `Settings` | the shared `Config`, its file, its handlers, the engines' copies | |
| `SuricataTailer` | the tailer, and the log it follows | |
| `Daemon` | the process that starts, stops and crashes with the three above | `DuckStore`, `Settings`, `SuricataTailer` |
| `MC*` | the instances the runs check | the module of the same name |
| `FlowAggregator_proofs` | the aggregator is safe and implements `FlowLedger` | `FlowAggregator` |
| `WebhookEngine_proofs` | what a step of the webhook engine keeps | `WebhookEngine` |
| `AlertPipeline_proofs` | the pipeline, on top of that | `AlertPipeline`, `WebhookEngine_proofs` |
| `IngestPath_proofs` | the four components of ingest, then the path | `IngestPath` |
| `SetTheorems` | finite sets, least and largest numbers, sums over sets | |
| `DuckStore_proofs` | what a step of either history backend keeps | `DuckStore`, `SetTheorems` |
| `Daemon_proofs` | settings, log and history in the process; implements `FlowStore` | `Daemon`, `DuckStore_proofs` |
| `AnomalyEngine_proofs` | the detectors, one by one, then the engine, then what is found | `AnomalyEngine`, `SetTheorems` |

A composition is the conjunction of the components' state and initial
predicates; its next-state relation takes one component's step and leaves the
others' variables alone, or joins two steps where the code makes one call. Two
compositions meet the aggregator at its edges instead of repeating it:
`IngestPath` ends where an event is handed to `Process`, and its
`AggregatorStopsLast` is what justifies `ProducersJoined = TRUE` in
`FlowAggregator`; `AnomalyEngine` starts where the flush worker's callback calls
`AnalyzeBatch`, and `AlertPipeline` where a detection calls `triggerAlert`.
`Daemon` joins the settings and the history where they really meet: the
retention loop reads the retention from the `Config` that a POST is changing.

## 3. Reading the modules against the code

**Steps.** A step is what a goroutine does between two points at which another
one can see or change what it works with: a critical section that does not
block, a channel operation, a call of the repository, an atomic addition. A
mutex that is held across a blocking operation is a variable. Variables and
actions bear the names of the code where it has one; `map` in `PROJECT.json`
gives the lines.

**FlowAggregator.** `buffer` is the set of events in the current rows, a row
being the events of one key, and `stampOf` the timestamp of a row.
`Process`, `Flush` and `DrainForShutdown` are the three users of
`drainBuffer`; `LockQueue` and `Send` are `enqueueFlush`, which sends while it
holds `queueMu`; `Take`, `SaveSucceeds`, `SaveFails`, `RunCallbacks`, `Signal`
and `WorkerExit` are `flushWorker` and `flushBatch`; `Cancel`,
`DrainForShutdown`, `CloseQueue` and `ShutdownReturns` are `Shutdown`.
`handed`, `accepted`, `stored`, `failed`, `dropped` and `analysed` record where
events went. A save may fail at any time, the ten-second timeout included. The
key of a row has no minute and only a later minute advances the bucket, so a
late event is counted in the current row of its key, and one that opens a row
gives it its own, older timestamp: `BatchesWellFormed` says what is left of
"one-minute time buckets" then.

**WebhookEngine.** `at` is the place of the goroutine of each alert,
`snapshot` the channel settings it read, `rulesLeft` and `channelsLeft` what its
two loops have yet to do. `dispatchQueue` is the channel, `hand` what each worker
delivers, `exited` the workers that have left. `logs` is the table of
notifications: sent, failed (the request, the credentials, or a queue that was
full or closed), suppressed by a noise control or deduplicated by a cooldown;
`unlogged` are the outcomes whose row could not be written. Each row is written by
a step of its own, with its own time: `RecordSuppressed` and `RecordDuplicate`
come after the look that decided, and `RecordDropped` after a queue that was full
or closed. The latter runs with `queueMu` held (`dropping`), so meanwhile nobody
else enqueues and Shutdown waits. `RepositoryErrors`
lets calls on the open repository fail; on a closed one they all do. The targets
of a rule are a sequence of channel names, which may repeat one or spell it in a
case the engine does not know (`OtherCase`); a notification therefore says which
target it is for, counted from the end (`target`, a history field). Without an
enabled rule, or when the rules cannot be listed, the `Fallback` serves every
configured channel. The rules are a constant: a call reads them once, and what
an operator changes in them between two calls is left out.

**AlertPipeline.** `stage[a]` follows an alert from its detection over
deduplication, saving and policies to its callback. `Trigger` is `triggerAlert`;
`Report` the syslog worker or the tailer, which save without it and with the
timestamp of the message, of a clock that may be early or late. A policy is
matched by the subject of an anomaly and, if its scope is an address or a subnet,
by its destination too, so two alerts of one subject may fall under different
policies. The clock counts ticks that windows, cooldowns and quiet hours are
measured in. The policies are a constant, and what an operator does to an anomaly
(`UpdateAnomalyStatus`) is left out. `created_at` is compared as text in the
database; the model compares times, which is the same while the anomalies of one
subject are written in one zone: those of syslog are in UTC, detected ones in
that of the host.

**FlowProcessor, IngestPath.** `call[g]` is where goroutine `g` is in the chain
of nested calls for the event it carries. The counters of a host are an object
that goroutines keep a reference to while the monitor removes it from the map.
`swaps[h]` are the fields the monitor has yet to swap of host `h`: the order of
the hosts is that of a Go map, the order of the fields that of the code.
`PacketsConserved` counts per key, so packets of one flow cannot stand in for
those of another. An entry of the DNS cache is a name and whether it is fresh.
A workload says what the network brings: datagrams, packets of each captured
key, windows of the monitor, entries that grow old, and how many writes of devices
fail. After the repository is closed they all do. `unsaved[h]` are the names of
which the last write failed, which the code logs and forgets: of those
`ResolvedNameIsStored` promises nothing. The monitor's deduplicator has hosts
and alert types; no type is disabled and no host muted.

**Detectors.** A timestamp is a whole minute, as the aggregator truncates it.
Feeds are the batches, metrics and rows that may come, in any order and number.
History fields of a profile (`windows`, `reports`, ...) record what the
properties are about. The peers of a window come out of a Go map in any order, so
`LearnPeers` chooses which of them still fit. `InsertUnique` is the insertion at
the place `sort.Search` finds, `AppendUnique` cuts the result to its last
entries, and `AreMostRecent` says what a list should be without either: in
order, a subset of the minutes seen, and above every minute that is left out.
Entries of the deduplicators that are old enough to be ignored are modelled as
absent (`DedupExpires`).

**BatchMetrics, FlowBaseline.** `aggregateBatchMetrics` is one action per row,
because the rows come out of a Go map in any order and the bounded sets forget
what comes after they are full. A row of a metric also goes to `rows`, a history
field, so that `FindingsTrue` can compare a finding with the rows it is about. A
baseline is the number, the sum and the sum of the squares of its samples, and
"more than three deviations above the mean" a comparison of integers; the code
computes in floating point, and rounding is left out. An entry of `stored` is a
row, the minute it is stored with (`stamp`) and the `bucket` it was saved for.
SQLite keeps the row's own minute, in the file of the bucket's day (`ShardOf`);
DuckDB stores the bucket for every row. A lookup that ends before midnight does
not open the next day's file, and one that ends before a bucket does not find what
DuckDB stored with it: `FindingsTrue` says that rows saved for an earlier bucket
always count and late ones as far as the lookup sees them. Retention is left out
here, as in `Lookback` all days are kept. `verdict` is what the
engine decided about a batch it has finished.

**ShardStore.** `r.mu` protects the table `shards` of open handles and nothing
else, so a save, a query and a clean-up are cut into the steps between which
they do not hold it: `SaveAggregates`, `BeginTx`, `CommitTx`; `AskHistory`, then
per day `LookForShard` and `OpenShard`, then per handle `ReadShard`, then
`Answer`; `CleanupRetention`, then per shard `CloseExpired` and `RemoveExpired`.
A handle is a file and whether it was closed; a file that was removed still
serves the handles that have it open. A table is the set of rows added to it:
an upsert adds its counters to the row with the same key, so sums are over the
set. The shard is named by the bucket, the rows carry their own minutes.
`RowsCutShort` is `mergeRows`, which does not ask `rows.Err()`. `FlowQueries`
holds what each query computes from what each shard gave.

**DuckStore.** The same actors and variables with other places: `at = "lock"` is
a goroutine in `Lock`, `locking` the writer that has the mutex or is next,
`"listing"` a query for the top devices that holds the read lock and is about to
take it again. What runs under the lock is one action. The rows of a batch get
the minute of the bucket (`StoredAs`), and retention goes by the second.

**Settings.** A field of the model stands for the fields the code treats alike,
as the module's heading lists. `Config` and `Body` are the records of the two
Go structs, with integers of any value and the texts of a set `Texts`, of which
the code looks only at those it names. A POST is cut where something can come between:
checks, assignments, hash, check before saving, temporary file, rename, hand-out
to the engines, audit. `current` is what the last settings POST saved;
`overlapped` is set once two requests were in their handlers together, which
nothing prevents, and then the properties of the file and the engines are given
up, as the code does.

**SuricataTailer.** A line is written in two halves or at once; the reader's
buffer is filled from the file, so a line can be split over a fill, a rotation
or a restart. `unseen` and `torn` name the lines the tailer may miss: those
before it opened the file and those it took in pieces. In the state `closed` the
old file is closed and the new one could not be opened: the code never gets out
of it but by a restart.

**Daemon.** `phase` goes from `down` over `loaded` and `cleaning` to `up`, or
ends in `refused` when the settings do not load. `Stop` is a crash or a
shutdown, at any moment after the settings were loaded: what was in progress is
cut off, files stay. `workload` says which of the parts is busy in a behaviour
and which backend keeps the history.

**Bugs a change could introduce.** Some definitions of the code have a variant
with which a property fails, named after the bug it has: `mutants` in
`PROJECT.json` lists the pairs. No specification uses the variants.

## 4. The runs

Distinct states are those of the instance in the `MC` module.

| run | module, configuration | distinct states | question |
|---|---|---|---|
| `aggregator_joined` | `MCFlowAggregator`, `FlowAggregator_joined` | 238 k | with producers stopped before Shutdown: is every event settled, does Flush wait, does Shutdown return? |
| `aggregator_racing` | `MCFlowAggregator`, `FlowAggregator_racing` | 551 k | with producers that still run: is every event accounted for once, is the queue safe, what may a batch contain? |
| `webhook_delivery` | `MCWebhookEngine`, `WebhookEngine_delivery` | 470 k | two alerts, three rules, settings and noise controls that change, a stop: is every notification accounted for and ended, every rule served? |
| `webhook_repeats` | `MCWebhookEngine`, `WebhookEngine_repeats` | violation | is there one delivery per rule and cooldown? |
| `alert_pipeline` | `MCAlertPipeline`, `AlertPipeline_stored` | 4.8 M | detections, events with the time of their sender, unordered saves, policies, one slot, a clock, failing calls, stop: deduplication, cooldowns of policies, no callback on a closed repository |
| `alert_stop` | `MCAlertPipeline`, `AlertPipeline_stop` | violation | do the last alerts reach the dispatch queue before the webhook engine stops? |
| `ingest_path` | `MCIngestPath`, `IngestPath` | 3.1 M | datagrams, packets, monitor, lookups, failing writes and the stop order: is everything counted once, is no channel used after it is closed, do names survive? |
| `ingest_drain` | `MCIngestPath`, `IngestPath_drain` | violation | does the collector's Shutdown drain the remaining packets? |
| `anomaly_detectors` | `MCAnomalyEngine`, `AnomalyEngine_detectors` | 51 k | are alerts confirmed, bounded and not repeated, lists and pruning right, for late and repeated rows? are the findings about a batch true of its rows? |
| `anomaly_unsaid` | `MCAnomalyEngine`, `AnomalyEngine_unsaid` | violation | was an alert raised for every peer learned after learning? |
| `daemon` | `MCDaemon`, `Daemon` | 1.3 M | saves, queries, clean-ups, POSTs, rotations, crashes and restarts, on either backend: are answers true, is young history kept, does the file load, do the engines run what was saved, is every line taken once? |
| `duck_prune` | `MCDaemon`, `Daemon_duck` | violation | does a clean-up of the DuckDB backend end? |

What the properties say; one type invariant per composition comes first in each
passing run.

* `AccountedOnce`, `NoSendOnClosedQueue`, `BatchesWellFormed`: an accepted event
  is in exactly one place until it is settled in one way; nobody sends on the
  closed flush queue; a batch has one row per key, stamped no later than its
  bucket.
* `ShutdownSettles`, `FlushWaits`, `LedgerSpec`: when Shutdown returns nothing
  is in transit; Flush returns no earlier than the batch it drained is settled;
  the aggregator implements `FlowLedger`. `EveryEventSettles` and
  `ShutdownTerminates` are its liveness.
* `NotificationsAccounted`: a notification that is due is queued, in delivery,
  or has exactly one outcome, and a clean Shutdown leaves none behind.
  `EveryRuleServed`: a rule that is a duplicate, a channel without credentials
  and a full queue cost the alert none of its other rules and channels.
  `EveryDispatchEnds`: a notification is delivered or given up in the end.
* `OneAlertPerWindow`, `OneActivePerCooldown`, `NoCallbackAfterClose`: the
  promises of triggerAlert, SaveAnomaly and the dispatcher under every order of
  their goroutines. Of two active alerts of a subject, each with its own best
  policy, one comes after the other's cooldown is over as its policy counts it.
* `DatagramsAccounted`, `PacketsConserved`: every datagram read and every packet
  captured is processed or counted as dropped, once. `RatesConserved`: what was
  added to the counters of a host is in a counter or in a window that was read.
  `NoSendOnClosedChannel`, `AggregatorStopsLast`: no goroutine sends on a closed
  channel, and none calls `Process` of the aggregator once that is stopped.
  `ResolvedNameIsStored`: a resolved name that was written is not lost to an
  upsert, whichever other writes fail.
* `PeerReportedOnce`, `PeerConfirmed`, `ProfileChangeConfirmed`,
  `NightAlertsBounded`, `SeriesAreMostRecent`, `OnlyInactiveSeriesPruned`: the
  sentences of `docs/features/anomaly-detection.md` quoted with each.
  `FindingsTrue`: a scan, a deviation from the baseline or a new destination
  the engine reports is there in the rows and in the history its lookup sees,
  and a destination saved for an earlier bucket is never reported.
* `HistoryAnswersTrue`: an answer without an error misses no row that lay in the
  queried days all the while, counts none twice and invents none.
  `HistoryPromise`: both backends implement `FlowStore`; a row younger than what
  a clean-up was told to keep is never lost.
* `SavedSettingsLoad`, `EnginesRunSaved`, `SetupSurvives`: whatever fails or
  crashes, the file loads at the next start, the engines run settings that were
  saved, and the password of the first setup stays.
* `LinesInOrder`, `LinesAccounted`: no line of the log is taken twice or after a
  later one, and none the tailer has read past is skipped, but those torn or
  unseen.

## 5. Bounds

These are the bounds of the runs. What section 7 lists as proved holds for any of
them.

* **Aggregator.** Two producers and four events: two in one minute, three of one
  key in a minute each, so every order of merge, bucket advance and late event
  occurs; a queue of one, so that producers, ticker and stopper all block on it.
* **Webhook.** Two alerts of one subject, which is what deduplication is about; a
  rule with a cooldown, one without, one disabled; two channels; two workers; a
  queue of one. `MaxTime = 0` stops the clock, whose only reader is the
  cooldown: the callbacks of `alert_pipeline` meet it with a clock that
  passes the cooldown of their rule, and `webhook_repeats` shows what it does not
  give.
* **Alerts.** Two detections of one subject and a syslog anomaly of severity
  critical; a silencing global policy that an `ip` policy with threshold and
  cooldown, one for the destination of the first with a longer cooldown, and an
  `alert_type` policy with threshold and quiet hour override;
  one slot; a deduplication window and cooldowns of one tick in two, so that the
  same subject can be alerted twice. The alerts of one subject that were reported,
  with times in any order, are in the proof only.
* **Ingest.** Queues of one and an active table of one, so each drop and
  overflow happens; two decoding workers racing on one victim; an event between
  two local hosts, whose lookups fill the lookup queue; one window of the
  monitor during the race, one cache entry growing old while two writes of
  devices fail. The four workloads
  exercise different components; their product would only interleave
  independent steps. Workers are symmetric.
* **Detectors.** The documented numbers (12 learning windows, 9 dominant, 3
  confirming, 18 observations, 256 peers, ...) are constants; the runs take
  2 to 4, keep their order and reach each limit: a full table, a full list, a
  full set of peers. Seven minutes are more than retention plus confirmation.
  `ProfileAssumption` requires a dominance of more than half, as 9 of 12 is:
  then the code's tie-break is irrelevant. Batches have up to five rows, sets
  of three, and scans from two targets on, so a batch has a scan, is cut off by
  a full set or has neither; a late row and a row of another network are among
  them. Days of four minutes, and for either database a row that is saved after
  its midnight before another one of its destination comes.
* **History.** Days of two minutes, five minutes, a retention of one or two
  days: a day expires while it is saved to, queried or opened. Three batches of
  which one has a row of the day before its bucket. One query of each kind,
  over two days at least.
* **Settings.** Two or three requests of six: settings that lengthen the
  retention, that only `Validate` refuses, that change several groups, a
  duplicated list with a password, and two setups; with and without environment
  variables.
* **Process.** Two starts, so that everything on disk is found again by a
  second one. Three lines in two files, with truncations. The workloads keep
  history, settings and log apart, except for the POST that lengthens the
  retention during clean-ups: the parts share nothing else.

## 6. Fairness

`aggregator_joined`, `webhook_delivery` and `duck_prune` check liveness.

* `FlowAggregator!Fairness`: weak fairness of each goroutine's own steps. Go
  schedules every runnable goroutine; the ticker ticks for ever, so `Flush` is
  taken again and again; channel operations of a ready goroutine complete;
  `SaveAggregates` returns because its context ends after ten seconds. No
  fairness for `Process`, `Cancel` or the choice between success and failure of
  a save. A Go mutex hands itself over to a waiter after a millisecond, hence
  weak fairness for each actor's `Enqueue` suffices: in the model an actor that
  waits for `queueMu` is passed over only while others keep taking it, which
  finitely many events and one ticker do not do for ever.
* `WebhookEngine!Spec`: weak fairness of each worker and of each callback
  goroutine once it has begun. The HTTP client has a deadline of five seconds,
  so `Post` is eventually taken. Nobody has to raise an alert, change a setting
  or stop the engine.

`Daemon!DuckSpec`, of the run `duck_prune`: the goroutines that wait for the
repository's mutex go on when they can. With that fairness the counterexample is
a deadlock and nothing else: `PrunesEnd` holds when `ListDevices` does not wait
for its second read lock.

The specifications of the other runs state safety only. `CHECK_DEADLOCK` is off
in `Daemon.cfg` and `Daemon_duck.cfg`, where the program may really stop: it is
down and has used up `MaxStarts`, or its settings were refused. Elsewhere the end
of the process (`Down`, `Stopped`, `Ended`) is an explicit stuttering action with
the condition under which nothing is left to do, so TLC's deadlock check shows
that the goroutines do not all wait for one another before that.

## 7. The proofs

Of the 40 properties in the passing runs, 37 are also theorems, all but the three
liveness properties: they hold for any number of goroutines, events, alerts, rules,
hosts, devices, rows, requests, queries, days and restarts, and for any value of
the limits. Each row names the theorem
and, where it has another name, the property it states.

| module | obligations | theorems |
|---|---|---|
| `FlowAggregator_proofs` | 1391 | `TypeSafe` (`TypeOK`), `SendSafe` (`NoSendOnClosedQueue`), `Accounted` (`AccountedOnce`), `Settles` (`ShutdownSettles`), `FlushesWait` (`FlushWaits`), `WellFormedBatches` (`BatchesWellFormed`), `KeepsLedger`: with the producers joined, `SafeSpec => LedgerSpec` |
| `WebhookEngine_proofs` | 1580 | `Typed` (`TypeOK`), `Accounted` (`NotificationsAccounted`), `RulesServed` (`EveryRuleServed`) |
| `AlertPipeline_proofs` | 485 | `PipeTypesAndSlots` (`PipeTypeOK`), `WindowKept` (`OneAlertPerWindow`), `CooldownKept` (`OneActivePerCooldown`), `CallbacksEnd` (`NoCallbackAfterClose`), `AccountedInPipe` (`NotificationsAccounted`) |
| `IngestPath_proofs` | 2990 | `IngestTypes` (`IngestTypeOK`), `NoSends` (`NoSendOnClosedChannel`), `Datagrams` (`DatagramsAccounted`), `Packets` (`PacketsConserved`), `Rates` (`RatesConserved`), `StopsLast` (`AggregatorStopsLast`), `NamesStored` (`ResolvedNameIsStored`) |
| `SetTheorems` | 629 | lemmas only: finite sets, `SetInduction`, least and largest numbers, sums |
| `DuckStore_proofs` | 4107 | lemmas only: what each step of either backend keeps of `HistoryInv` and of `AnswersInv`, and what a query computes (`AnswersAreTrue`) |
| `Daemon_proofs` | 3159 | `DaemonTypes` (`DaemonTypeOK`), `FileLoads` (`SavedSettingsLoad`), `PasswordStays` (`SetupSurvives`), `EnginesFollow` (`EnginesRunSaved`), `LinesTakenInOrder` (`LinesInOrder`), `LinesTakenAccounted` (`LinesAccounted`), `KeepsPromise`: `DaemonSpec => HistoryPromise`, the refinement of `FlowStore`, `AnswersAlwaysTrue` (`HistoryAnswersTrue`) |
| `AnomalyEngine_proofs` | 4340 | `EngineTypes` (`EngineTypeOK`), `ReportedOnce` (`PeerReportedOnce`), `NightsBounded` (`NightAlertsBounded`), `MostRecentKept` (`SeriesAreMostRecent`), `PeersConfirmed` (`PeerConfirmed`), `ChangesConfirmed` (`ProfileChangeConfirmed`), `OnlyInactivePruned` (`OnlyInactiveSeriesPruned`), `FoundIsTrue` (`FindingsTrue`), `BeaconsSpread`: what is reported as a beacon was seen evenly over its span |

Every leaf is proved. Hardly any of these properties is inductive, so each module
has an invariant that is. It is defined at the head of the module (or, in
`FlowAggregator` and `IngestPath`, part by part with the component it is about),
and was checked by TLC on the instance of the run before it was proved.

### 7.1 The arguments

**Aggregator** (`IInv`). A tower, each floor using those below.

1. `Typed`: `TypeOK`, each request was built by the actor that holds it
   (`Requested`), and the worker analyses what it stored
   (`StoredThenAnalysed`).
2. `Awaited`: an actor that waits for its batch has its request in the queue or
   in the worker's hands, and no other request that asks for a signal bears its
   name; without it `Signal` could wake an actor whose batch is not settled.
   `HolderSends`: an actor about to send holds `queueMu`, and the queue is not
   closed then. Together they give `SendSafe`, and with the step relation
   `FlushesWait`.
3. `Phases`: what the stopper's place says about the ticker, the worker, the
   flags and, with `ProducersJoined`, the producers.
4. `AccountedOnce`, inductive on top of floor 1 and 2. The lemmas `HeldKept`,
   `HeldGained`, `HeldLost`, `QueuedAppend`, `QueuedTail`, `DrainAccounted`
   say how the unions over actors and over the queue change.
5. `BatchesWellFormed`, inductive with 1 and 4: a batch being merged is apart
   from those on their way, because an event is in one place (`MergeStamped`).
6. `Settles` follows from 3 and 4 alone, and `KeepsLedger` maps each action to
   `Accept`, `Commit`, `Refuse`, `Close` or a stutter of the ledger.

**Webhook engine** (`WInv`). `Progress`: a sender has decided nothing yet for a
rule it has left to evaluate, nor for a target it has left to serve, so what it
decides next is new. `EachOnce`: a notification is in the queue, in one worker's
hand, with the sender that records its drop, or has one outcome. `Hands`: a worker leaves with empty hands from a closed
and empty queue; with `stop = "clean"` this is why none is left behind. Every
step lemma also covers the clock, which `AlertPipeline` moves. For `RulesServed`
the invariant `InTurn` says that what a sender has left of a list is its end, and
that the rules and channels before it were served (`TailAhead`, `ServeInTurn`).

**Alert pipeline**. `PipeStep`: for the webhook engine a step of the pipeline is
one of its own, none, or the saving of one alert's status, so `WInv` carries
over. `Windows` adds to `OneAlertPerWindow` that the time recorded for a subject
is single, not in the future and not before any alert that was let through.
`SaveCooled` is the step that matters for `OneActivePerCooldown`: policies are
looked up and the row inserted in one section, so whoever saves second sees the
first, whatever the times of the two. `SlotsKept` and `WaitedLast` bound the callbacks and
end them.

**Ingest** (`IngestInv`). Each component has its part, and lemmas
(`ChainKeeps`, `CollectorKeeps`, ...) for what the others' steps leave alone.
`RatesOwned` with `CountersFetched` is why the race over a victim's counters
loses nothing: an adder's reference is the one in the map, because the second
look under the lock takes what another created and the monitor swaps fields, not
objects. `Books` splits the datagrams of `DatagramsAccounted` by kind, each under
way or done. `EmittersSound` says who may hold flows of the capture at which
stage of its Shutdown. `NamesSound`: once a lookup answered a name whose write did not
fail, the row has a name or a resolver is about to write it. `StopInv` is main's order, from which nobody
can call the aggregator when it is stopped.

**Tailer** (`TailInv`). Both halves of all lines are ranked. What the tailer has
taken ranks below everything it can still come to (`Coming`); that rests on
files that are sorted within and among one another and on an offset that never
passes what was read.

**History** (`HistoryInv`). A handle stays on the file it was opened on; a file is
linked under its day unless a clean-up removed it, and then all of its day is
expired. So a batch committed to a file nobody can open any more is older than
what the clean-up was told to keep. For DuckDB: who has the lock, and that the
table holds only rows that were saved. With it each step is a step of `FlowStore`
or a stutter (`HistorySteps`).

**Answers** (`AnswersInv`). An answer is right about the rows that were there, so
the proof follows one query through its shards while saves and clean-ups go on.

1. `SavedOnce`: what a file holds was saved, and no row is in two files. A
   cached handle is on the file the directory has under its day, if it has one.
2. `Collected`: the shards found are of different days, in order and before the
   day looked at next; the rows of the parts got are saved rows, apart from one
   another and from those in the shards yet to be read, so nothing counts twice.
3. `Covered`: a row that was there when the query was asked and is there still is
   in a shard found and not read, or under a day not looked at yet, or in a part,
   where for the newest records it may have given way to as many newer ones as
   are asked for.
4. `Truthful`: what the answer says is nothing beyond what was saved, and leaves
   out nothing that is due (`Due`). Both sides move the right way: files come
   empty and only go (`WorldGoes`), so what is due shrinks (`MissesLess`), and
   what was saved grows (`InventsMore`). An answer once true stays true.
5. `AnswersAreTrue` is the step that answers: what merging, filtering and
   limiting make of true parts is true of their rows, for every kind of query.
   With DuckDB there is one part, the whole table (`TableIsSound`,
   `DuckQueryIsTrue`), and a device list looked up after it (`ListIsTrue`).

TLC checked `AnswersInv` on the instance of the run `daemon` beforehand.

**Settings** (`SettingsInv`). While no two requests have been in their handlers at
once: what is marshalled was checked, what is renamed is what is in memory, and an
answered setup left its hash in memory and file. `NormalisedKeeps`: what `Validate`
accepts it accepts again after the migrations of a start. `SettingsTyped` holds in
any case.

**Detectors** (`EngineInv`). A table holds only sound profiles (`SoundPeers`,
`SoundProfiles`, `SoundActivities`, `SoundSeries`): a candidate's count is at most
the number of last windows that all showed it, a reported peer is known or the
known peers are full, a reported night is recorded until enough are, a series was
last seen in its last minute. A fresh profile is sound, each handler takes a sound
profile to a sound one, and pruning only drops. `AppendUniqueExtends` carries the
lists: `sort.Search` finds the least place (`Least`, `PlaceFound`), insertion there
keeps the order (`InList`), and cutting from the front keeps the most recent.
`Moves` is what a step of the engine does to the four tables; the action properties
follow from it and the soundness of what was there.

`BeaconsSpread` is about `Regular`, which averages the intervals. They add up to
the span (`IntervalsSpan`) because the list is in order, which is `SoundSeries`:
so a report means evenly spread minutes, whatever rows came late or twice.

**Findings** (`FindingsInv`). The metrics of a device tell the truth about the rows
they were made of (`CountsTrue`): packets are the sum over those rows, and a set
that is not full has missed nothing. The same per target (`TargetsTrue`), where
the packets are exact as long as the ports are not full. Rows still in the batch
are apart from those counted, so a row adds itself once. So the verdict on a
device is true of its rows when it is given, and holds until the next one.

**Sets and sums** (`SetTheorems`). The least of a set of numbers comes from `WFMin`
and the well-founded order of the naturals. So does induction over a finite set:
the strict subsets of a finite set are well-founded, hence if a *set* of good
subsets has every subset from which all smaller ones by a member are good, it has
all of them (`SetInduction`). No operator is a parameter. With weights that are a
function, `Weighed` sums them as `MapThenSumSet` does, in the order `CHOOSE` gives;
`SumLess` says that the order does not matter, and the rest follows: `SumOfBoth`,
`SumOfPart`, `SumOfUnion`.

### 7.2 What is assumed

TLC evaluates every assumption on the constants in the runs. They are:

* Sizes the code fixes and that are positive: queues, slots, workers, limits,
  windows, `MaxStarts`, `MaxTime`, `MaxFiles`. `Workers # {}` is
  `webhookDispatchWorkers` and the worker loop of the collector. `PeerConfirm`
  is at least two, as documented and as the constant is.
* Identities: actors differ, rules and policies have distinct identifiers (primary
  keys), no row belongs to two batches.
* Shapes of what the environment brings: rules, channels, subjects, requests,
  defaults and texts (`SettingsAssumption`), queries, packets of keys that are
  tuples (`Keys \subseteq Tuples`), batches that are finite sets of rows with
  natural numbers of bytes, rows with a minute no later than their
  bucket, which `BatchesWellFormed` proves of the aggregator. An override from the
  environment is a value of its field's type, and a password hash from there is not
  empty, because `LoadConfig` ignores an empty one. The defaults are valid
  (`DefaultsAssumption`), as the repository's tests of `DefaultConfig` require.
* `IsFiniteSet(Peers)`: addresses are finitely many. `SignatureOf` gives every set
  of ports and every peer band a signature, as `deviceProfileSignature` does.
* `StampAssumption`, for DuckDB: what tells the rows of the model apart is more than
  their minute, so they stay apart when it is replaced by that of the bucket. A row
  of the model is one contribution to the counters of a key.

`FileLoads`, `PasswordStays` and `EnginesFollow` hold while requests to the settings
do not overlap (`overlapped`), as the properties say; `KeepsLedger` with producers
that were joined, which `StopsLast` shows of the real ones.

### 7.3 Only model-checked

* Liveness: `EveryEventSettles`, `ShutdownTerminates`, `EveryDispatchEnds`. They
  need fairness, hence ENABLED.
* The five counterexamples of section 8.

## 8. What the models found

Five sentences of the repository are not what the code does; each has a run that
ends in a counterexample (`findings` in `PROJECT.json`).

* **A mutex taken twice** (`duck_prune`). With the DuckDB backend the query for
  the top devices holds the read lock and takes it again in `ListDevices`. A save
  or a clean-up that calls `Lock` in between waits for the query, the query for
  it, and everything that uses the repository after them. The performance
  document requires prunes to succeed under load.
* **Two deliveries in one cooldown** (`webhook_repeats`). The cooldown looks at
  deliveries already logged; two alerts can both pass before either is.
* **Final alerts** (`alert_stop`). main stops the webhook engine "after final
  anomaly callbacks have had a chance to enqueue"; nothing waits for them.
* **Syslog messages left behind** (`ingest_drain`). The collector's Shutdown says
  it drains the remaining packets; the syslog worker may leave first.
* **Peers learned without an alert** (`anomaly_unsaid`). A peer becomes known when
  its detector confirms it, even if the alert is then deduplicated, disabled or
  muted. The documentation says it is learned after alerting.

Proof attempts also found what was wrong with the models themselves, where TLC
had no objection:

* `ComparePeers` compared the unknown peer with the number of the candidate's
  windows instead of the candidate, which only shows with more than the two
  confirming windows the code and the run ask for. The step that keeps
  `InLast(p.windows, p.candidateWindows, ...)` did not go through.
* Cases of `CompareSignature` and `ObserveActivity` overlapped, so `CASE` stood
  for either branch, where the code returns from the first. TLC takes the first, a
  proof must be right about both. The guards are disjoint now.
* `SeriesAreMostRecent` was stated with the operator that the model itself cuts
  its lists with. `AreMostRecent` does without.

## 9. What is not modelled

* The decoders of NetFlow, IPFIX and sFlow, gopacket and the syslog grammar:
  external or pure; their outcome is an input.
* SQL. Tables are sets of records or functions; a statement is atomic, a
  transaction that fails leaves nothing.
* The HTTP API's queries, the web interface, logging and formatting.
* Of the DuckDB backend, everything but the flow history: its `SaveAnomaly`, its
  devices, rules and logs do what those of SQLite do.
* The activity heatmap, which asks for the top devices and then for their hours;
  `LoadBaselines` after a restart; the seed for demonstrations; the tables of
  policies, audit, firewall and UniFi events, whose statements are single.
* Sessions and the rate limit of the login: a map each, behind its own mutex,
  read and written in one section. The risk score, which is pure and keeps no
  state.
* `SendTestAlert`, which enqueues to every target of one rule without asking for
  cooldowns, as `ServeChannel` does.
* What an operator changes in rules, policies and anomalies between two calls.
* A collector that fails to start, and the exit on a server error, which skips
  the webhook engine's Shutdown: for the files it is a `Stop` of `Daemon`.
* Numbers: byte and packet counters are `uint64` and not near their limit.
* `localSubnets` of detector and profiler, which settings replace without the
  lock their readers would need: a data race over a slice header, in the list of
  hazards without a property.

## 10. The plan

Written: the aggregator, notifications, ingest, all detectors, shard store and
DuckDB history, settings, tailer and process, with the proofs of section 7. Left
to model, in this order:

1. **Subnets and triage**: `UpdateLocalSubnets` of detector and profiler beside
   their readers, the disabled and muted lists of the detector, and the status
   an operator gives an anomaly, which no cooldown looks at.
2. **Sessions**: login, logout, rate limit and the middleware, beside the setup
   that `Settings` has.
3. **Exits of main**: the server-error exit and callbacks that are registered
   after the collectors started, composed with `AlertPipeline`.
4. **Risk**: as operators checked against a reference, with the severity
   critical that ranks lowest.

What a proof could still add: `IngestPath` and `FlowAggregator` together, with
`AggregatorStopsLast` as the formal premise of `KeepsLedger`, not only as the
reason for a constant.

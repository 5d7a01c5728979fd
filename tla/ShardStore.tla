------------------------------ MODULE ShardStore ------------------------------
(***************************************************************************)
(* internal/storage/sqlite: the flow history in one database file per day. *)
(*                                                                         *)
(* Goroutines.  The writer is the aggregator's flush worker, the only      *)
(* caller of SaveAggregates; readers are the API handlers and the          *)
(* detectors, one per query; the pruner is the retention loop of main.go.  *)
(* r.mu protects only the table of open handles: a handle is used after    *)
(* the mutex is released, and a file is removed outside of it.             *)
(*                                                                         *)
(* Data.  A row is one flow aggregate: its minute and what identifies it.  *)
(* An upsert adds its counters to the row of the same key, so a table is   *)
(* the set of what was added to it.  A handle stands for the *sql.DB with  *)
(* the file it opened: Close ends it for later statements but not for the  *)
(* transaction that already runs, and a file that was removed is still     *)
(* served to the handles that had it open.  Dates are those of one time    *)
(* zone.  Directories and the metadata tables are left out.                *)
(***************************************************************************)
EXTENDS FlowQueries

CONSTANTS
  Batches,    (* batches of the aggregator                                  *)
  Bucket,     (* Bucket[b]: the minute of batch b, which names its shard    *)
  RowsOf,     (* RowsOf[b]: its rows, each stamped with its own minute      *)
  Queries,    (* what is asked of the history                               *)
  DayLength,  (* minutes in a day                                           *)
  MaxTime     (* bound on the clock, in minutes                             *)

Rows == UNION {RowsOf[b] : b \in Batches}
DateOf(minute) == minute \div DayLength
Days == 0..DateOf(MaxTime)
MinuteOf(r) == r.minute

(* The aggregator never stamps a row with a minute after its bucket's.     *)
ASSUME BatchAssumption ==
  /\ DOMAIN Bucket = Batches /\ DOMAIN RowsOf = Batches
  /\ \A b \in Batches :
       /\ Bucket[b] \in 0..MaxTime
       /\ RowsOf[b] # {} /\ IsFiniteSet(RowsOf[b])
       /\ \A r \in RowsOf[b] : /\ {"minute", "bytes"} \subseteq DOMAIN r
                               /\ r.minute \in 0..Bucket[b] /\ r.bytes \in Nat
  /\ \A b, c \in Batches : b # c => RowsOf[b] \cap RowsOf[c] = {}
ASSUME QueryAssumption ==
  \A q \in Queries :
    /\ q.kind \in Kinds
    /\ q.from \in 0..MaxTime /\ q.to \in q.from..MaxTime
    /\ q.limit \in Nat \ {0}
ASSUME TimeAssumption == DayLength \in Nat \ {0} /\ MaxTime \in Nat

VARIABLES
  now,      (* the wall clock                                               *)
  files,    (* every database file created so far: its day and its rows     *)
  disk,     (* disk[d]: the file the directory has under day d, or 0        *)
  handles,  (* the *sql.DB opened by this process: a file, open or closed   *)
  shards,   (* r.shards[d]: the cached handle of day d, or 0                *)
  writer,   (* the flush worker in SaveAggregates                           *)
  reader,   (* reader[q]: how far query q has got                           *)
  pruner,   (* the retention clean-up                                       *)
  handed,   (* batches handed to SaveAggregates, which gets each once       *)
  acked,    (* batches whose save returned without an error (history)       *)
  pruned    (* clean-ups expired rows before this minute only (history)     *)

fileVars == <<files, disk>>
handleVars == <<handles, shards>>
storeHistory == <<handed, acked, pruned>>
storeVars == <<now, files, disk, handles, shards, writer, reader, pruner, handed,
               acked, pruned>>

NoBatch == "none"
IdleWriter == [at |-> "idle", batch |-> NoBatch, handle |-> 0]
IdlePruner == [at |-> "idle", todo |-> {}, cutoff |-> 0, keep |-> 0]
Unasked == [at |-> "unasked", day |-> 0, found |-> <<>>, got |-> <<>>, sure |-> {},
            partial |-> FALSE, answer |-> <<>>]

Linked(f) == disk[files[f].day] = f
OnDisk == UNION {files[f].rows : f \in {g \in 1..Len(files) : Linked(g)}}

-------------------------------------------------------------------------------
(* Bugs a change could introduce, each replacing the definition it is      *)
(* named after in one mutation run.                                        *)
ExpiredTooEarly(d, cutoff) == d <= cutoff
LastDayExclusive(q) == DateOf(q.to) - 1
StillCached(d) == shards

-------------------------------------------------------------------------------
(* getOrCreateShard, under r.mu: the cached handle, or a new one on the    *)
(* file of that day, which is created when the directory has none.         *)
GetOrCreateShard(d) ==
  IF shards[d] # 0
  THEN UNCHANGED <<fileVars, handleVars>>
  ELSE /\ IF disk[d] # 0
          THEN UNCHANGED fileVars
          ELSE /\ files' = Append(files, [day |-> d, rows |-> {}])
               /\ disk' = [disk EXCEPT ![d] = Len(files) + 1]
       /\ handles' = Append(handles, [file |-> disk'[d], open |-> TRUE])
       /\ shards' = [shards EXCEPT ![d] = Len(handles) + 1]

-------------------------------------------------------------------------------
(* SaveAggregates: the shard is chosen by the bucket, and one transaction  *)
(* writes the batch.                                                       *)
ShardOf(b) == DateOf(Bucket[b])

SaveAggregates(b) ==
  /\ writer.at = "idle"
  /\ b \notin handed
  /\ Bucket[b] <= now
  /\ GetOrCreateShard(ShardOf(b))
  /\ writer' = [at |-> "opened", batch |-> b, handle |-> shards'[ShardOf(b)]]
  /\ handed' = handed \cup {b}
  /\ UNCHANGED <<now, reader, pruner, acked, pruned>>

BeginTx ==
  /\ writer.at = "opened"
  /\ handles[writer.handle].open
  /\ writer' = [writer EXCEPT !.at = "tx"]
  /\ UNCHANGED <<now, fileVars, handleVars, reader, pruner, storeHistory>>

CommitTx ==
  /\ writer.at = "tx"
  /\ files' = [files EXCEPT ![handles[writer.handle].file].rows = @ \cup RowsOf[writer.batch]]
  /\ acked' = acked \cup {writer.batch}
  /\ writer' = IdleWriter
  /\ UNCHANGED <<now, disk, handleVars, reader, pruner, handed, pruned>>

(* A closed handle, a busy database or an error of a statement: nothing of *)
(* the batch is written, and the aggregator gives it up.                   *)
SaveFails ==
  /\ writer.at \in {"opened", "tx"}
  /\ writer' = IdleWriter
  /\ UNCHANGED <<now, fileVars, handleVars, reader, pruner, storeHistory>>

-------------------------------------------------------------------------------
(* GetShardsInRange, one day at a time, and then the query on each of the  *)
(* handles it collected.  Whether a day has a shard is asked under the     *)
(* read lock and of the directory; the shard is opened later.              *)
LastDay(q) == DateOf(q.to)

AskHistory(q) ==
  /\ reader[q].at = "unasked"
  /\ reader' = [reader EXCEPT ![q].at = "look", ![q].day = DateOf(q.from),
                              ![q].sure = Matching(q, OnDisk)]
  /\ UNCHANGED <<now, fileVars, handleVars, writer, pruner, storeHistory>>

LookForShard(q) ==
  /\ reader[q].at = "look"
  /\ LET d == reader[q].day
     IN  \/ /\ d > LastDay(q)
            /\ reader' = [reader EXCEPT ![q].at = "read"]
         \/ /\ d <= LastDay(q)
            /\ shards[d] # 0 \/ disk[d] # 0
            /\ reader' = [reader EXCEPT ![q].at = "open"]
         \/ /\ d <= LastDay(q)
            /\ shards[d] = 0 /\ disk[d] = 0
            /\ reader' = [reader EXCEPT ![q].day = d + 1]
  /\ UNCHANGED <<now, fileVars, handleVars, writer, pruner, storeHistory>>

OpenShard(q) ==
  /\ reader[q].at = "open"
  /\ GetOrCreateShard(reader[q].day)
  /\ reader' = [reader EXCEPT ![q].at = "look", ![q].day = @ + 1,
                              ![q].found = Append(@, shards'[reader[q].day])]
  /\ UNCHANGED <<now, writer, pruner, storeHistory>>

ReadShard(q) ==
  /\ reader[q].at = "read"
  /\ reader[q].found # <<>>
  /\ LET h == handles[Head(reader[q].found)]
     IN  /\ h.open
         /\ \E part \in ShardParts(q, Matching(q, files[h.file].rows)) :
              reader' = [reader EXCEPT ![q].got = Append(@, part), ![q].found = Tail(@)]
  /\ UNCHANGED <<now, fileVars, handleVars, writer, pruner, storeHistory>>

(* The handle was closed after it was collected, or the statement fails.   *)
ReadFails(q) ==
  /\ reader[q].at = "read"
  /\ reader[q].found # <<>>
  /\ reader' = [reader EXCEPT ![q].at = "failed", ![q].found = <<>>, ![q].got = <<>>]
  /\ UNCHANGED <<now, fileVars, handleVars, writer, pruner, storeHistory>>

(* mergeRows does not ask why the rows ended: an error in the middle of a  *)
(* shard leaves its remaining groups out of a sum without a word.          *)
mergeRows(q, S) == {[rows |-> S, keys |-> K] : K \in SUBSET Keys(q, S)}
RowsCutShort(q) ==
  /\ reader[q].at = "read"
  /\ reader[q].found # <<>>
  /\ q.kind \in TopKinds
  /\ LET h == handles[Head(reader[q].found)]
     IN  /\ h.open
         /\ \E part \in mergeRows(q, Matching(q, files[h.file].rows)) :
              reader' = [reader EXCEPT ![q].got = Append(@, part), ![q].found = Tail(@),
                                       ![q].partial = TRUE]
  /\ UNCHANGED <<now, fileVars, handleVars, writer, pruner, storeHistory>>

Answer(q) ==
  /\ reader[q].at = "read"
  /\ reader[q].found = <<>>
  /\ \E answer \in Answers(q, reader[q].got) :
       reader' = [reader EXCEPT ![q].at = "answered", ![q].answer = answer, ![q].got = <<>>]
  /\ UNCHANGED <<now, fileVars, handleVars, writer, pruner, storeHistory>>

-------------------------------------------------------------------------------
(* CleanupRetention: the directory is listed once; then, shard by shard,   *)
(* the cached handle is closed under r.mu and the file removed without it. *)
Expired(d, cutoff) == d < cutoff
Cutoff(retentionDays) == IF retentionDays <= DateOf(now) THEN DateOf(now) - retentionDays ELSE 0

CleanupRetention(retentionDays) ==
  /\ pruner.at = "idle"
  /\ LET cutoff == Cutoff(retentionDays)
     IN  /\ pruner' = [at |-> "sweep", cutoff |-> cutoff, keep |-> retentionDays,
                       todo |-> {d \in Days : disk[d] # 0 /\ Expired(d, cutoff)}]
         /\ pruned' = Max({pruned, cutoff * DayLength})
  /\ UNCHANGED <<now, fileVars, handleVars, writer, reader, handed, acked>>

Evict(d) == [shards EXCEPT ![d] = 0]

CloseExpired ==
  /\ pruner.at = "sweep"
  /\ pruner.todo # {}
  /\ LET h == shards[Min(pruner.todo)]
     IN  IF h = 0 THEN UNCHANGED handleVars
         ELSE /\ handles' = [handles EXCEPT ![h].open = FALSE]
              /\ shards' = Evict(Min(pruner.todo))
  /\ pruner' = [pruner EXCEPT !.at = "remove"]
  /\ UNCHANGED <<now, fileVars, writer, reader, storeHistory>>

RemoveExpired ==
  /\ pruner.at = "remove"
  /\ disk' = [disk EXCEPT ![Min(pruner.todo)] = 0]
  /\ pruner' = [pruner EXCEPT !.at = "sweep", !.todo = @ \ {Min(@)}]
  /\ UNCHANGED <<now, files, handleVars, writer, reader, storeHistory>>

CleanupEnds ==
  /\ pruner.at = "sweep"
  /\ pruner.todo = {}
  /\ pruner' = IdlePruner
  /\ UNCHANGED <<now, fileVars, handleVars, writer, reader, storeHistory>>

-------------------------------------------------------------------------------
StoreTick ==
  /\ now < MaxTime
  /\ now' = now + 1
  /\ UNCHANGED <<fileVars, handleVars, writer, reader, pruner, storeHistory>>

(* The process is gone: its handles, and the files only they knew, with it.*)
ProcessGone ==
  /\ handles' = <<>>
  /\ shards' = [d \in Days |-> 0]
  /\ writer' = IdleWriter
  /\ reader' = [q \in Queries |-> IF reader[q].at \in {"answered", "served", "failed"} THEN reader[q] ELSE Unasked]
  /\ pruner' = IdlePruner
  /\ UNCHANGED <<now, fileVars, storeHistory>>

StoreInit ==
  /\ now = 0
  /\ files = <<>>
  /\ disk = [d \in Days |-> 0]
  /\ handles = <<>>
  /\ shards = [d \in Days |-> 0]
  /\ writer = IdleWriter
  /\ reader = [q \in Queries |-> Unasked]
  /\ pruner = IdlePruner
  /\ handed = {}
  /\ acked = {}
  /\ pruned = 0

Read(q) == \/ LookForShard(q) \/ OpenShard(q) \/ ReadShard(q)
           \/ ReadFails(q) \/ RowsCutShort(q) \/ Answer(q)
Write == BeginTx \/ CommitTx \/ SaveFails
Sweep == CloseExpired \/ RemoveExpired \/ CleanupEnds
-------------------------------------------------------------------------------
(* Types, and what r.mu protects: a cached handle is open, on a file of    *)
(* its day.                                                                *)
StoreTypeOK ==
  /\ now \in 0..MaxTime
  /\ \A f \in 1..Len(files) : files[f].day \in Days /\ files[f].rows \subseteq Rows
  /\ disk \in [Days -> 0..Len(files)]
  /\ \A d \in Days : disk[d] # 0 => files[disk[d]].day = d
  /\ \A h \in 1..Len(handles) : handles[h].file \in 1..Len(files) /\ handles[h].open \in BOOLEAN
  /\ shards \in [Days -> 0..Len(handles)]
  /\ \A d \in Days : shards[d] # 0 => /\ handles[shards[d]].open
                                    /\ files[handles[shards[d]].file].day = d
  /\ writer.at \in {"idle", "lock", "opened", "tx"}
  /\ \A q \in Queries :
       /\ reader[q].at \in {"unasked", "look", "open", "read", "listing", "failed", "answered", "served"}
       /\ reader[q].day \in 0..(DateOf(MaxTime) + 1)
       /\ reader[q].found \in Seq(1..Len(handles))
       /\ reader[q].at \in {"listing", "served"} \/ reader[q].sure \subseteq Rows
  /\ pruner.at \in {"idle", "lock", "delete", "sweep", "remove"}
  /\ acked \subseteq handed /\ handed \subseteq Batches
  /\ pruned \in 0..MaxTime

(* An answer given without an error misses no row that lay in a shard of  *)
(* the queried days when the query began and still does, counts none twice,*)
(* and is made of committed rows of the window only, while batches, clean- *)
(* ups and other queries open, close, remove and create the same shards.   *)
(* Sums cut short by a read error may be too small: mergeRows drops the    *)
(* error (GetShardsInRange and the queries on its result).                 *)
AnswersTrue ==
  \A q \in Queries :
    LET rd == reader[q]
        due == {r \in rd.sure : \E d \in DateOf(q.from)..DateOf(q.to) :
                                 disk[d] # 0 /\ r \in files[disk[d]].rows}
    IN  rd.at = "answered" =>
          /\ InventsNothing(q, Matching(q, UNION {RowsOf[b] : b \in acked}), rd.answer)
          /\ rd.partial \/ MissesNothing(q, due, rd.answer)
===============================================================================

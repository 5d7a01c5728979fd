------------------------------- MODULE DuckStore -------------------------------
(***************************************************************************)
(* internal/storage/duckdb: the flow history in the one file of the DuckDB *)
(* backend, behind one sync.RWMutex.                                       *)
(*                                                                         *)
(* The actors are those of ShardStore.  SaveAggregates and CleanupRetention*)
(* call Lock, every query RLock.  A writer that called Lock keeps later    *)
(* readers out and waits for those inside; the statements it then runs are *)
(* one action, and so is a query that takes the read lock once.            *)
(* GetTopDevicesByVolume takes it again in ListDevices, while it holds it. *)
(*                                                                         *)
(* The rows of a batch carry the minute of its bucket, not their own.      *)
(***************************************************************************)
EXTENDS ShardStore

VARIABLES
  table,  (* flow_aggregates: the rows as they are stored                   *)
  locking (* who called Lock and has it or is next: the writer, the pruner  *)

duckVars == <<table, locking>>
NoOne == "no one"

StoredAs(b, r) == [r EXCEPT !.minute = Bucket[b]]
Stamped(b) == {StoredAs(b, r) : r \in RowsOf[b]}
InTable == {r \in Rows : \E b \in Batches : r \in RowsOf[b] /\ StoredAs(b, r) \in table}

(* A table is a set: the stamp must not make one row of two.               *)
ASSUME StampAssumption ==
  \A b, c \in Batches : \A r \in RowsOf[b], s \in RowsOf[c] :
    r # s => StoredAs(b, r) # StoredAs(c, s)

-------------------------------------------------------------------------------
(* A bug a change could introduce, replacing OlderThan in one run.         *)
OlderOrEqual(r, cutoff) == r.minute <= cutoff

-------------------------------------------------------------------------------
(* sync.RWMutex.                                                           *)
Listing(q) == reader[q].at = "listing"
CanRLock == locking = NoOne
HasLock(w) == locking = w /\ \A q \in Queries : ~Listing(q)

Lock ==
  /\ locking = NoOne
  /\ \/ writer.at = "lock" /\ locking' = "writer"
     \/ pruner.at = "lock" /\ locking' = "pruner"
  /\ UNCHANGED <<storeVars, table>>

-------------------------------------------------------------------------------
DuckSaveAggregates(b) ==
  /\ writer.at = "idle"
  /\ b \notin handed
  /\ Bucket[b] <= now
  /\ writer' = [at |-> "lock", batch |-> b, handle |-> 0]
  /\ handed' = handed \cup {b}
  /\ UNCHANGED <<duckVars, now, fileVars, handleVars, reader, pruner, acked, pruned>>

DuckCommit ==
  /\ HasLock("writer")
  /\ table' = table \cup Stamped(writer.batch)
  /\ acked' = acked \cup {writer.batch}
  /\ writer' = IdleWriter
  /\ locking' = NoOne
  /\ UNCHANGED <<now, fileVars, handleVars, reader, pruner, handed, pruned>>

(* A statement fails, or the ten seconds of the context went by waiting.   *)
DuckSaveFails ==
  /\ HasLock("writer")
  /\ writer' = IdleWriter
  /\ locking' = NoOne
  /\ UNCHANGED <<table, now, fileVars, handleVars, reader, pruner, storeHistory>>

-------------------------------------------------------------------------------
(* The retention was read by the caller, the clock is read under the lock, *)
(* and rows go by the second, not by the day.                              *)
OlderThan(r, cutoff) == r.minute < cutoff

DuckCleanupRetention(retentionDays) ==
  /\ pruner.at = "idle"
  /\ pruner' = [IdlePruner EXCEPT !.at = "lock", !.keep = retentionDays]
  /\ UNCHANGED <<duckVars, now, fileVars, handleVars, writer, reader, storeHistory>>

ReadClock ==
  /\ HasLock("pruner")
  /\ pruner.at = "lock"
  /\ LET cutoff == IF pruner.keep * DayLength <= now THEN now - pruner.keep * DayLength ELSE 0
     IN  /\ pruner' = [pruner EXCEPT !.at = "delete", !.cutoff = cutoff]
         /\ pruned' = Max({pruned, cutoff})
  /\ UNCHANGED <<duckVars, now, fileVars, handleVars, writer, reader, handed, acked>>

DeleteExpired ==
  /\ pruner.at = "delete"
  /\ table' \in {table, {r \in table : ~OlderThan(r, pruner.cutoff)}}
  /\ pruner' = [pruner EXCEPT !.at = "sweep"]
  /\ locking' = NoOne
  /\ UNCHANGED <<now, fileVars, handleVars, writer, reader, storeHistory>>

-------------------------------------------------------------------------------
(* One statement reads what a query counts, under the read lock; the       *)
(* queries that sum do not ask why its rows ended.                         *)
Statement(q, cut) ==
  IF cut THEN mergeRows(q, Matching(q, table)) ELSE ShardParts(q, Matching(q, table))
Reads(q, at, cut) ==
  \E part \in Statement(q, cut) :
    LET asked == [Unasked EXCEPT !.at = at, !.sure = Matching(q, table), !.partial = cut]
    IN  IF at = "listing" THEN reader' = [reader EXCEPT ![q] = [asked EXCEPT !.got = <<part>>]]
        ELSE \E answer \in Answers(q, <<part>>) :
               reader' = [reader EXCEPT ![q] = [asked EXCEPT !.answer = answer]]

DuckQuery(q) ==
  /\ reader[q].at = "unasked"
  /\ CanRLock
  /\ \/ Reads(q, IF q.kind = "devices" THEN "listing" ELSE "served", FALSE)
     \/ q.kind \in TopKinds /\ Reads(q, IF q.kind = "devices" THEN "listing" ELSE "served", TRUE)
     \/ reader' = [reader EXCEPT ![q].at = "failed"]
  /\ UNCHANGED <<duckVars, now, fileVars, handleVars, writer, pruner, storeHistory>>

(* The known devices, or, when they cannot be listed, all of them.         *)
ListDevices(q) ==
  /\ Listing(q)
  /\ CanRLock
  /\ \E answer \in Answers(q, reader[q].got)
                    \cup SortAndLimit(Merge(q, reader[q].got), q.limit) :
       reader' = [reader EXCEPT ![q].at = "served", ![q].answer = answer, ![q].got = <<>>]
  /\ UNCHANGED <<duckVars, now, fileVars, handleVars, writer, pruner, storeHistory>>

-------------------------------------------------------------------------------
DuckInit == table = {} /\ locking = NoOne
LocksGone == locking' = NoOne /\ UNCHANGED table

DuckTypeOK ==
  /\ table \subseteq UNION {Stamped(b) : b \in acked}
  /\ locking = "writer" => writer.at = "lock"
  /\ locking = "pruner" => pruner.at \in {"lock", "delete"}
  /\ locking \in {NoOne, "writer", "pruner"}

(* The answers of this backend, by the minutes of the buckets.             *)
DuckAnswersTrue ==
  \A q \in Queries :
    LET rd == reader[q]
    IN  rd.at = "served" =>
          /\ InventsNothing(q, Matching(q, UNION {Stamped(b) : b \in acked}), rd.answer)
          /\ rd.partial \/ MissesNothing(q, rd.sure, rd.answer)
===============================================================================

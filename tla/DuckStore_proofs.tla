----------------------------- MODULE DuckStore_proofs -----------------------------
(***************************************************************************)
(* Proofs about the flow history, modules ShardStore and DuckStore, for    *)
(* every set of batches, rows and queries, any length of a day and any     *)
(* clock.  They are about the steps of both backends, one at a time;       *)
(* Daemon_proofs puts them into the behaviours of the process, which runs  *)
(* one of the two.                                                         *)
(*                                                                         *)
(* The argument: a handle stays on the file it was opened on, and the file *)
(* under a day's name is replaced only after a clean-up removed it, which  *)
(* a clean-up does only when all of the day is expired.  So a batch that   *)
(* is committed to a file nobody can open any more is older than what the  *)
(* clean-up was told to keep, and every other is found by the next query.  *)
(*                                                                         *)
(* The answers: a batch is committed once, to one file, so the shards a    *)
(* query collects share no row, and what it got of them is apart from what *)
(* it has yet to read.  Files come empty and only go, so a row that was    *)
(* there when the query began, and is there still, is in a shard it found, *)
(* in a part it got, or under a day it has yet to come to.                 *)
(***************************************************************************)
EXTENDS DuckStore, SetTheorems, SequenceTheorems

-------------------------------------------------------------------------------
(* Minutes and days.                                                       *)
EndOf(d) == (d + 1) * DayLength

(* A minute lies in the day it is dated with.                              *)
LEMMA DayBounds ==
  ASSUME NEW m \in Nat
  PROVE  /\ DateOf(m) \in Nat
         /\ DateOf(m) * DayLength <= m
         /\ m < EndOf(DateOf(m))
BY TimeAssumption, SMT DEF DateOf, EndOf

(* A later minute has no earlier date.                                     *)
LEMMA DaysGrow ==
  ASSUME NEW m \in Nat, NEW n \in Nat, m <= n
  PROVE  DateOf(m) <= DateOf(n)
BY TimeAssumption, SMT DEF DateOf

(* Days are laid end to end: their first minutes are in order, and apart   *)
(* by the days between them.                                               *)
LEMMA Lengths ==
  ASSUME NEW d \in Nat, NEW e \in Nat, d <= e
  PROVE  /\ d * DayLength \in Nat /\ d * DayLength <= e * DayLength
         /\ (e - d) * DayLength = e * DayLength - d * DayLength
BY TimeAssumption, SMT

(* A day ends no later than any later day begins.                          *)
LEMMA DaysEnd ==
  ASSUME NEW d \in Nat
  PROVE  /\ EndOf(d) \in Nat
         /\ \A e \in Nat : d < e => EndOf(d) <= e * DayLength
<1>1. d + 1 \in Nat /\ d + 1 <= d + 1
  OBVIOUS
<1>2. EndOf(d) \in Nat
  BY <1>1, Lengths DEF EndOf
<1>3. ASSUME NEW e \in Nat, d < e PROVE EndOf(d) <= e * DayLength
  <2>1. d + 1 <= e
    BY <1>3
  <2> QED BY <1>1, <2>1, Lengths DEF EndOf
<1> QED BY <1>2, <1>3

(* The later of two times.                                                 *)
LEMMA Later ==
  ASSUME NEW a \in Nat, NEW b \in Nat
  PROVE  Max({a, b}) = IF a <= b THEN b ELSE a
BY DEF Max

(* A batch belongs to a day there is, and its rows are of no later one.    *)
LEMMA DayOfBatch ==
  ASSUME NEW b \in Batches
  PROVE  /\ ShardOf(b) \in Days /\ RowsOf[b] \subseteq Rows
         /\ \A r \in RowsOf[b] : r.minute < EndOf(ShardOf(b))
<1>1. Bucket[b] \in Nat /\ Bucket[b] <= MaxTime /\ MaxTime \in Nat
  BY BatchAssumption, TimeAssumption
<1>2. /\ DateOf(Bucket[b]) \in Nat /\ DateOf(MaxTime) \in Nat
      /\ DateOf(Bucket[b]) <= DateOf(MaxTime)
      /\ Bucket[b] < EndOf(DateOf(Bucket[b]))
  BY <1>1, DayBounds, DaysGrow
<1>3. ASSUME NEW r \in RowsOf[b] PROVE r.minute < EndOf(DateOf(Bucket[b]))
  <2>1. r.minute \in Nat /\ r.minute <= Bucket[b]
    BY <1>1, BatchAssumption
  <2>2. EndOf(DateOf(Bucket[b])) \in Nat
    BY <1>2, DaysEnd
  <2> HIDE DEF DateOf
  <2> QED BY <1>1, <1>2, <2>1, <2>2
<1> QED BY <1>2, <1>3 DEF ShardOf, Days, Rows
-------------------------------------------------------------------------------
(* The inductive invariant, of whichever backend runs.                     *)
(*                                                                         *)
(* A file is of one day and holds no row of a later one; the directory     *)
(* knows it by its day, or a clean-up has removed it, and then all of its  *)
(* day is expired.                                                         *)
FilesKept ==
  /\ now \in 0..MaxTime /\ pruned \in 0..MaxTime
  /\ files \in Seq([day : Days, rows : SUBSET Rows])
  /\ disk \in [Days -> 0..Len(files)]
  /\ \A d \in Days : disk[d] # 0 => files[disk[d]].day = d
  /\ \A f \in 1..Len(files) :
       /\ \A r \in files[f].rows : r.minute < EndOf(files[f].day)
       /\ Linked(f) \/ EndOf(files[f].day) <= pruned

(* A cached handle is open, on a file of its day.                          *)
HandlesKept ==
  /\ handles \in Seq([file : 1..Len(files), open : BOOLEAN])
  /\ shards \in [Days -> 0..Len(handles)]
  /\ \A d \in Days : shards[d] # 0 => /\ handles[shards[d]].open
                                    /\ files[handles[shards[d]].file].day = d

(* The writer has a batch nobody saved, and a handle on a file of its day. *)
WriterKept ==
  /\ acked \subseteq handed /\ handed \subseteq Batches
  /\ writer \in [at : {"idle", "lock", "opened", "tx"}, batch : Batches \cup {NoBatch}, handle : Nat]
  /\ writer.at # "idle" => writer.batch \in handed \ acked
  /\ writer.at \in {"opened", "tx"} =>
       /\ writer.handle \in 1..Len(handles)
       /\ files[handles[writer.handle].file].day = ShardOf(writer.batch)

(* A query opens shards of days there are, and keeps its handles until it  *)
(* has read them.                                                          *)
Asking == {"look", "open", "read"}
ReaderKept(rd, n) ==
  /\ DOMAIN rd = DOMAIN Unasked
  /\ rd.at \in {"unasked", "listing", "failed", "answered", "served"} \cup Asking
  /\ rd.day \in 0..(DateOf(MaxTime) + 1)
  /\ rd.at = "open" => rd.day \in Days
  /\ rd.found \in Seq(1..n)
  /\ rd.at \notin Asking => rd.found = <<>>
  /\ rd.at \in {"listing", "served"} \/ rd.sure \subseteq Rows
ReadersKept ==
  /\ DOMAIN reader = Queries
  /\ \A q \in Queries : ReaderKept(reader[q], Len(handles))

(* A clean-up removes nothing but what it, or an earlier one, decided is   *)
(* expired.                                                                *)
PrunerKept ==
  /\ pruner \in [at : {"idle", "lock", "delete", "sweep", "remove"}, todo : SUBSET Days,
                 cutoff : Nat, keep : Nat]
  /\ pruner.cutoff <= now
  /\ \A d \in pruner.todo : EndOf(d) <= pruned
  /\ pruner.at = "remove" => pruner.todo # {}
  /\ pruner.at = "delete" => pruner.cutoff <= pruned

(* The lock is held by one that called it and has not returned.            *)
LockKept ==
  /\ locking \in {NoOne, "writer", "pruner"}
  /\ locking = "writer" => writer.at = "lock"
  /\ locking = "pruner" => pruner.at \in {"lock", "delete"}

(* The table has rows of batches that were saved.                          *)
TableKept == table \subseteq UNION {Stamped(b) : b \in acked}

HistoryInv ==
  /\ FilesKept /\ HandlesKept /\ WriterKept /\ ReadersKept /\ PrunerKept /\ LockKept
  /\ TableKept

-------------------------------------------------------------------------------
(* A handle names a file that is there, and is open or closed.             *)
LEMMA HandleTyped ==
  ASSUME HandlesKept, NEW h \in 1..Len(handles)
  PROVE  handles[h] \in [file : 1..Len(files), open : BOOLEAN]
<1>1. handles \in Seq([file : 1..Len(files), open : BOOLEAN])
  BY DEF HandlesKept
<1> QED BY <1>1, ElementOfSeq

-------------------------------------------------------------------------------
(* Opening a shard adds handles and files, and disturbs none there are.    *)
Growing ==
  /\ Len(files) <= Len(files') /\ Len(handles) <= Len(handles')
  /\ \A f \in 1..Len(files) : files'[f].day = files[f].day
  /\ \A h \in 1..Len(handles) : handles'[h].file = handles[h].file

(* Creating the file of a day that has none on disk changes no file there  *)
(* is, and no row on disk.                                                 *)
LEMMA CreateStep ==
  ASSUME FilesKept, NEW d \in Days, disk[d] = 0,
         files' = Append(files, [day |-> d, rows |-> {}]),
         disk' = [disk EXCEPT ![d] = Len(files) + 1],
         UNCHANGED <<now, pruned>>
  PROVE  /\ FilesKept' /\ OnDisk' = OnDisk
         /\ Len(files') = Len(files) + 1
         /\ \A f \in 1..Len(files) : files'[f] = files[f]
         /\ disk'[d] = Len(files')
<1> DEFINE new == [day |-> d, rows |-> {}]
<1>1. /\ files \in Seq([day : Days, rows : SUBSET Rows])
      /\ disk \in [Days -> 0..Len(files)] /\ Len(files) \in Nat
  BY DEF FilesKept
<1>2. new \in [day : Days, rows : SUBSET Rows]
  OBVIOUS
<1>3. /\ files' \in Seq([day : Days, rows : SUBSET Rows])
      /\ Len(files') = Len(files) + 1
      /\ \A f \in 1..Len(files) : files'[f] = files[f]
      /\ files'[Len(files) + 1] = new
  BY <1>1, <1>2, AppendProperties
<1>4. /\ disk' \in [Days -> 0..Len(files')]
      /\ disk'[d] = Len(files')
      /\ \A e \in Days \ {d} : disk'[e] = disk[e]
  BY <1>1, <1>3
<1>5. \A f \in 1..Len(files) : files[f].day \in Days
  <2>1. \A f \in 1..Len(files) : files[f] \in [day : Days, rows : SUBSET Rows]
    BY <1>1, ElementOfSeq
  <2> QED BY <2>1
<1>6. \A f \in 1..Len(files) : Linked(f)' <=> Linked(f)
  <2> TAKE f \in 1..Len(files)
  <2>1. files'[f] = files[f] /\ files[f].day \in Days /\ f \in Nat /\ f # 0 /\ f # Len(files')
    BY <1>1, <1>3, <1>5
  <2>2. CASE files[f].day = d
    BY <2>1, <2>2, <1>4 DEF Linked
  <2>3. CASE files[f].day # d
    BY <2>1, <2>3, <1>4 DEF Linked
  <2> QED BY <2>2, <2>3
<1> PICK n \in Nat : n = Len(files')
  BY <1>1, <1>3
<1>7. Linked(n)' /\ files'[n].rows = {}
  BY <1>1, <1>3, <1>4 DEF Linked
<1>8. FilesKept'
  <2>1. now' \in 0..MaxTime /\ pruned' \in 0..MaxTime
    BY DEF FilesKept
  <2>2. \A e \in Days : disk'[e] # 0 => files'[disk'[e]].day = e
    <3> TAKE e \in Days
    <3>1. CASE e = d
      BY <3>1, <1>3, <1>4
    <3>2. CASE e # d /\ disk[e] # 0
      <4>1. disk[e] \in 1..Len(files) /\ files[disk[e]].day = e
        BY <1>1, <3>2 DEF FilesKept
      <4> QED BY <4>1, <3>2, <1>3, <1>4
    <3>3. CASE e # d /\ disk[e] = 0
      BY <3>3, <1>4
    <3> QED BY <3>1, <3>2, <3>3
  <2>3. ASSUME NEW f \in 1..Len(files')
        PROVE  /\ \A r \in files'[f].rows : r.minute < EndOf(files'[f].day)
               /\ Linked(f)' \/ EndOf(files'[f].day) <= pruned'
    <3>1. CASE f = n
      BY <3>1, <1>7
    <3>2. CASE f # n
      <4>1. f \in 1..Len(files)
        BY <3>2, <1>1, <1>3
      <4> QED BY <4>1, <1>3, <1>6 DEF FilesKept
    <3> QED BY <3>1, <3>2
  <2> QED BY <2>1, <2>2, <2>3, <1>3, <1>4 DEF FilesKept
<1>9. OnDisk' = OnDisk
  <2>1. ASSUME NEW r PROVE r \in OnDisk' <=> r \in OnDisk
    <3>1. r \in OnDisk <=> \E f \in 1..Len(files) : Linked(f) /\ r \in files[f].rows
      BY DEF OnDisk
    <3>2. r \in OnDisk' <=> \E f \in 1..Len(files') : Linked(f)' /\ r \in files'[f].rows
      BY DEF OnDisk
    <3>3. \A f \in 1..Len(files') : f \in 1..Len(files) \/ f = n
      BY <1>1, <1>3
    <3>4. \A f \in 1..Len(files) : f \in 1..Len(files')
      BY <1>1, <1>3
    <3> QED BY <3>1, <3>2, <3>3, <3>4, <1>3, <1>6, <1>7
  <2> QED BY <2>1
<1> QED BY <1>3, <1>4, <1>8, <1>9

(* A sequence is one of whatever all its elements are of.                  *)
LEMMA AlsoOf ==
  ASSUME NEW S, NEW T, NEW s \in Seq(S), \A i \in 1..Len(s) : s[i] \in T
  PROVE  s \in Seq(T)
OBVIOUS

(* Opening the file of a day gives it a handle, and leaves the handles     *)
(* there were on their files.                                              *)
LEMMA OpenFile ==
  ASSUME FilesKept, FilesKept', HandlesKept, NEW d \in Days, shards[d] = 0, disk'[d] # 0,
         Len(files) <= Len(files'), \A f \in 1..Len(files) : files'[f] = files[f],
         handles' = Append(handles, [file |-> disk'[d], open |-> TRUE]),
         shards' = [shards EXCEPT ![d] = Len(handles) + 1]
  PROVE  /\ HandlesKept' /\ Growing
         /\ shards'[d] \in 1..Len(handles')
         /\ files'[handles'[shards'[d]].file].day = d
<1> DEFINE new == [file |-> disk'[d], open |-> TRUE]
<1>1. /\ handles \in Seq([file : 1..Len(files), open : BOOLEAN])
      /\ shards \in [Days -> 0..Len(handles)] /\ Len(handles) \in Nat
  BY DEF HandlesKept
<1>2. /\ disk'[d] \in 1..Len(files') /\ files'[disk'[d]].day = d
      /\ Len(files') \in Nat /\ Len(files) \in Nat
  BY DEF FilesKept
<1>3. /\ handles \in Seq([file : 1..Len(files'), open : BOOLEAN])
      /\ new \in [file : 1..Len(files'), open : BOOLEAN]
  <2>1. \A h \in 1..Len(handles) : handles[h] \in [file : 1..Len(files'), open : BOOLEAN]
    <3> TAKE h \in 1..Len(handles)
    <3>1. handles[h] \in [file : 1..Len(files), open : BOOLEAN]
      BY <1>1, ElementOfSeq
    <3>2. 1..Len(files) \subseteq 1..Len(files')
      BY <1>2
    <3> QED BY <3>1, <3>2
  <2>2. handles \in Seq([file : 1..Len(files'), open : BOOLEAN])
    <3> DEFINE old == [file : 1..Len(files), open : BOOLEAN]
               wide == [file : 1..Len(files'), open : BOOLEAN]
    <3>1. handles \in Seq(old) /\ \A h \in 1..Len(handles) : handles[h] \in wide
      BY <1>1, <2>1
    <3> HIDE DEF old, wide
    <3>2. handles \in Seq(wide)
      BY <3>1, AlsoOf
    <3> QED BY <3>2 DEF wide
  <2>3. new \in [file : 1..Len(files'), open : BOOLEAN]
    BY <1>2
  <2> QED BY <2>2, <2>3
<1>4. /\ handles' \in Seq([file : 1..Len(files'), open : BOOLEAN])
      /\ Len(handles') = Len(handles) + 1
      /\ \A h \in 1..Len(handles) : handles'[h] = handles[h]
      /\ handles'[Len(handles) + 1] = new
  BY <1>3, AppendProperties
<1>5. /\ shards' \in [Days -> 0..Len(handles')]
      /\ shards'[d] = Len(handles')
      /\ \A e \in Days \ {d} : shards'[e] = shards[e]
  BY <1>1, <1>4
<1>6. \A h \in 1..Len(handles) : handles[h].file \in 1..Len(files)
  <2> TAKE h \in 1..Len(handles)
  <2>1. handles[h] \in [file : 1..Len(files), open : BOOLEAN]
    BY <1>1, ElementOfSeq
  <2> QED BY <2>1
<1>7. ASSUME NEW e \in Days, shards'[e] # 0
      PROVE  /\ handles'[shards'[e]].open
             /\ files'[handles'[shards'[e]].file].day = e
  <2>1. CASE e = d
    BY <2>1, <1>2, <1>4, <1>5
  <2>2. CASE e # d
    <3>1. /\ shards[e] \in 1..Len(handles) /\ handles[shards[e]].open
          /\ files[handles[shards[e]].file].day = e
      BY <1>1, <1>5, <1>7, <2>2 DEF HandlesKept
    <3>2. handles[shards[e]].file \in 1..Len(files)
      BY <3>1, <1>6
    <3> QED BY <3>1, <3>2, <1>4, <1>5, <2>2
  <2> QED BY <2>1, <2>2
<1>8. Growing
  BY <1>1, <1>4 DEF Growing
<1> QED BY <1>2, <1>4, <1>5, <1>7, <1>8 DEF HandlesKept

(* getOrCreateShard gives a handle on the file of that day, and changes    *)
(* nothing that is stored.                                                 *)
LEMMA ShardOpened ==
  ASSUME FilesKept, HandlesKept, NEW d \in Days, GetOrCreateShard(d), UNCHANGED <<now, pruned>>
  PROVE  /\ FilesKept' /\ HandlesKept' /\ Growing /\ OnDisk' = OnDisk
         /\ shards'[d] \in 1..Len(handles')
         /\ files'[handles'[shards'[d]].file].day = d
<1>1. CASE shards[d] # 0
  <2>1. UNCHANGED <<now, pruned, files, disk, handles, shards>>
    BY <1>1 DEF GetOrCreateShard, fileVars, handleVars
  <2>2. FilesKept'
    BY <2>1 DEF FilesKept, Linked
  <2>3. HandlesKept'
    BY <2>1 DEF HandlesKept
  <2>4. Growing /\ OnDisk' = OnDisk
    BY <2>1 DEF Growing, OnDisk, Linked, FilesKept, HandlesKept
  <2> QED BY <1>1, <2>1, <2>2, <2>3, <2>4 DEF HandlesKept
<1>2. CASE shards[d] = 0
  <2>1. /\ handles' = Append(handles, [file |-> disk'[d], open |-> TRUE])
        /\ shards' = [shards EXCEPT ![d] = Len(handles) + 1]
    BY <1>2 DEF GetOrCreateShard
  <2>2. Len(files) \in Nat
    BY DEF FilesKept
  <2>3. CASE disk[d] # 0
    <3>1. UNCHANGED <<now, pruned, files, disk>>
      BY <1>2, <2>3 DEF GetOrCreateShard, fileVars
    <3>2. FilesKept' /\ OnDisk' = OnDisk
      BY <3>1 DEF FilesKept, Linked, OnDisk
    <3>3. disk'[d] # 0 /\ Len(files) <= Len(files') /\ \A f \in 1..Len(files) : files'[f] = files[f]
      BY <2>2, <2>3, <3>1
    <3>4. /\ HandlesKept' /\ Growing /\ shards'[d] \in 1..Len(handles')
          /\ files'[handles'[shards'[d]].file].day = d
      BY <1>2, <2>1, <3>2, <3>3, OpenFile
    <3> QED BY <3>2, <3>4
  <2>4. CASE disk[d] = 0
    <3>1. /\ files' = Append(files, [day |-> d, rows |-> {}])
          /\ disk' = [disk EXCEPT ![d] = Len(files) + 1]
      BY <1>2, <2>4 DEF GetOrCreateShard
    <3>2. /\ FilesKept' /\ OnDisk' = OnDisk
          /\ Len(files') = Len(files) + 1
          /\ \A f \in 1..Len(files) : files'[f] = files[f]
          /\ disk'[d] = Len(files')
      BY <2>4, <3>1, CreateStep
    <3>3. disk'[d] # 0 /\ Len(files) <= Len(files')
      BY <2>2, <3>2
    <3>4. /\ HandlesKept' /\ Growing /\ shards'[d] \in 1..Len(handles')
          /\ files'[handles'[shards'[d]].file].day = d
      BY <1>2, <2>1, <3>2, <3>3, OpenFile
    <3> QED BY <3>2, <3>4
  <2> QED BY <2>3, <2>4
<1> QED BY <1>1, <1>2

(* What writer and readers hold stays good when shards are opened.         *)
LEMMA WriterCarried ==
  ASSUME HandlesKept, WriterKept, Growing, UNCHANGED <<writer, handed, acked>>
  PROVE  WriterKept'
<1>1. CASE writer.at \in {"opened", "tx"}
  <2>1. /\ writer.handle \in 1..Len(handles)
        /\ files[handles[writer.handle].file].day = ShardOf(writer.batch)
    BY <1>1 DEF WriterKept
  <2>2. handles[writer.handle] \in [file : 1..Len(files), open : BOOLEAN]
    BY <2>1, ElementOfSeq DEF HandlesKept
  <2>3. writer.handle \in 1..Len(handles')
    BY <2>1 DEF Growing, HandlesKept
  <2>4. files'[handles'[writer.handle].file].day = ShardOf(writer.batch)
    BY <2>1, <2>2 DEF Growing
  <2> QED BY <2>3, <2>4 DEF WriterKept
<1>2. CASE writer.at \notin {"opened", "tx"}
  BY <1>2 DEF WriterKept
<1> QED BY <1>1, <1>2

(* A reader's handles are still handles when there are more of them.       *)
LEMMA ReaderCarried ==
  ASSUME NEW rd, NEW m \in Nat, NEW n \in Nat, m <= n, ReaderKept(rd, m)
  PROVE  ReaderKept(rd, n)
<1>1. rd.found \in Seq(1..m) /\ 1..m \subseteq 1..n
  BY DEF ReaderKept
<1>2. \A i \in 1..Len(rd.found) : rd.found[i] \in 1..n
  BY <1>1, ElementOfSeq
<1>3. rd.found \in Seq(1..n)
  BY <1>1, <1>2
<1> QED BY <1>3 DEF ReaderKept

(* Readers stay sound when files and handles are added or closed.          *)
LEMMA ReadersCarried ==
  ASSUME HandlesKept, ReadersKept, Growing, UNCHANGED reader, Len(handles') \in Nat
  PROVE  ReadersKept'
<1>1. Len(handles) \in Nat /\ Len(handles) <= Len(handles')
  BY DEF HandlesKept, Growing
<1>2. \A q \in Queries : ReaderKept(reader[q], Len(handles'))
  BY <1>1, ReaderCarried DEF ReadersKept
<1> QED BY <1>2 DEF ReadersKept

-------------------------------------------------------------------------------
(* What a step leaves alone.                                               *)
LEMMA FilesAlone ==
  ASSUME FilesKept, UNCHANGED <<files, disk, now, pruned>>
  PROVE  FilesKept' /\ OnDisk' = OnDisk
BY DEF FilesKept, OnDisk, Linked

(* What is known of the handles stays true while nobody opens, closes or   *)
(* writes.                                                                 *)
LEMMA HandlesAlone ==
  ASSUME HandlesKept, UNCHANGED <<files, handles, shards>>
  PROVE  HandlesKept' /\ Growing
<1>1. Len(files) \in Int /\ Len(handles) \in Int
  BY DEF HandlesKept
<1> QED BY <1>1 DEF HandlesKept, Growing

(* What is known of the readers stays true while they and the handles do   *)
(* not move.                                                               *)
LEMMA ReadersAlone ==
  ASSUME ReadersKept, UNCHANGED <<reader, handles>>
  PROVE  ReadersKept'
BY DEF ReadersKept

(* What is known of the writer stays true while it and its file do not     *)
(* change.                                                                 *)
LEMMA WriterAlone ==
  ASSUME WriterKept, UNCHANGED <<writer, handed, acked, files, handles>>
  PROVE  WriterKept'
BY DEF WriterKept

(* What is known of the clean-up stays true while it and the clock do not  *)
(* move.                                                                   *)
LEMMA PrunerAlone ==
  ASSUME PrunerKept, UNCHANGED <<pruner, now, pruned>>
  PROVE  PrunerKept'
BY DEF PrunerKept

(* What is known of the lock stays true while nobody takes it or lets it   *)
(* go.                                                                     *)
LEMMA LockAlone ==
  ASSUME LockKept, UNCHANGED <<locking, pruner>>, locking = "writer" => writer'.at = "lock"
  PROVE  LockKept'
BY DEF LockKept

(* The table keeps rows of saved batches only, while it is not changed.    *)
LEMMA TableAlone ==
  ASSUME TableKept, UNCHANGED table, acked \subseteq acked'
  PROVE  TableKept'
BY DEF TableKept

-------------------------------------------------------------------------------
(* The writer.                                                             *)
LEMMA ShardSaveBegins ==
  ASSUME HistoryInv, NEW b \in Batches, SaveAggregates(b), UNCHANGED duckVars
  PROVE  HistoryInv' /\ OnDisk' = OnDisk
<1>1. /\ writer.at = "idle" /\ b \notin handed
      /\ GetOrCreateShard(ShardOf(b))
      /\ writer' = [at |-> "opened", batch |-> b, handle |-> shards'[ShardOf(b)]]
      /\ handed' = handed \cup {b}
      /\ UNCHANGED <<now, reader, pruner, acked, pruned>>
      /\ UNCHANGED <<table, locking>>
  BY DEF SaveAggregates, duckVars
<1>2. ShardOf(b) \in Days
  BY DayOfBatch
<1>3. /\ FilesKept' /\ HandlesKept' /\ Growing /\ OnDisk' = OnDisk
      /\ shards'[ShardOf(b)] \in 1..Len(handles')
      /\ files'[handles'[shards'[ShardOf(b)]].file].day = ShardOf(b)
  BY <1>1, <1>2, ShardOpened DEF HistoryInv
<1>4. WriterKept'
  <2>1. acked' \subseteq handed' /\ handed' \subseteq Batches /\ b \in handed' \ acked'
    BY <1>1 DEF HistoryInv, WriterKept
  <2>2. shards'[ShardOf(b)] \in Nat
    BY <1>3 DEF HandlesKept
  <2> QED BY <1>1, <1>3, <2>1, <2>2 DEF WriterKept
<1>5. ReadersKept'
  <2>1. Len(handles') \in Nat
    BY <1>3 DEF HandlesKept
  <2> QED BY <1>1, <1>3, <2>1, ReadersCarried DEF HistoryInv
<1>6. LockKept'
  BY <1>1, LockAlone DEF HistoryInv, LockKept
<1>7. PrunerKept' /\ TableKept'
  BY <1>1, PrunerAlone, TableAlone DEF HistoryInv
<1> QED BY <1>3, <1>4, <1>5, <1>6, <1>7 DEF HistoryInv

(* Beginning a transaction on an open shard keeps the invariant            *)
(* (SaveAggregates).                                                       *)
LEMMA ShardTxBegins ==
  ASSUME HistoryInv, BeginTx, UNCHANGED duckVars
  PROVE  HistoryInv' /\ OnDisk' = OnDisk
<1>1. /\ writer.at = "opened" /\ writer' = [writer EXCEPT !.at = "tx"]
      /\ UNCHANGED <<now, files, disk, handles, shards, reader, pruner, handed, acked, pruned>>
      /\ UNCHANGED <<table, locking>>
  BY DEF BeginTx, fileVars, handleVars, storeHistory, duckVars
<1>2. WriterKept'
  BY <1>1 DEF HistoryInv, WriterKept
<1>3. LockKept'
  BY <1>1, LockAlone DEF HistoryInv, LockKept
<1> QED BY <1>1, <1>2, <1>3, FilesAlone, HandlesAlone, ReadersAlone, PrunerAlone, TableAlone
        DEF HistoryInv

(* The rows of a committed batch are found from now on, or the file they   *)
(* are in was removed and they are expired.                                *)
LEMMA ShardCommits ==
  ASSUME HistoryInv, CommitTx, UNCHANGED duckVars
  PROVE  /\ HistoryInv'
         /\ \E b \in Batches \ acked :
              /\ acked' = acked \cup {b}
              /\ \/ OnDisk' = OnDisk \cup RowsOf[b]
                 \/ OnDisk' = OnDisk /\ \A r \in RowsOf[b] : r.minute < pruned
<1>1. /\ writer.at = "tx" /\ writer' = IdleWriter
      /\ files' = [files EXCEPT ![handles[writer.handle].file].rows = @ \cup RowsOf[writer.batch]]
      /\ acked' = acked \cup {writer.batch}
      /\ UNCHANGED <<now, disk, handles, shards, reader, pruner, handed, pruned>>
      /\ UNCHANGED <<table, locking>>
  BY DEF CommitTx, handleVars, duckVars
<1> PICK b \in Batches : b = writer.batch /\ b \in handed \ acked
  BY <1>1 DEF HistoryInv, WriterKept
<1> PICK g \in 1..Len(files) : g = handles[writer.handle].file /\ files[g].day = ShardOf(b)
  <2>1. /\ writer.handle \in 1..Len(handles)
        /\ files[handles[writer.handle].file].day = ShardOf(b)
    BY <1>1 DEF HistoryInv, WriterKept
  <2>2. handles[writer.handle] \in [file : 1..Len(files), open : BOOLEAN]
    BY <2>1, HandleTyped DEF HistoryInv
  <2> QED BY <2>1, <2>2
<1> DEFINE File == [day : Days, rows : SUBSET Rows]
<1>2. files \in Seq(File) /\ \A f \in 1..Len(files) : files[f] \in File
  BY ElementOfSeq DEF HistoryInv, FilesKept
<1>3. /\ files' \in Seq(File) /\ Len(files') = Len(files)
      /\ files'[g].rows = files[g].rows \cup RowsOf[b]
      /\ files'[g].day = files[g].day
      /\ \A f \in 1..Len(files) \ {g} : files'[f] = files[f]
  <2> DEFINE new == [files[g] EXCEPT !.rows = @ \cup RowsOf[b]]
  <2>1. files' = [files EXCEPT ![g] = new]
    BY <1>1
  <2>2. new \in File /\ new.rows = files[g].rows \cup RowsOf[b] /\ new.day = files[g].day
    <3>1. files[g] \in File /\ RowsOf[b] \subseteq Rows
      BY <1>2, DayOfBatch
    <3> QED BY <3>1
  <2> HIDE DEF new, File
  <2>3. /\ files' \in Seq(File) /\ Len(files') = Len(files)
        /\ files'[g] = new
        /\ \A f \in 1..Len(files) \ {g} : files'[f] = files[f]
    BY <1>2, <2>1, <2>2, ExceptSeq
  <2> QED BY <2>2, <2>3
<1>4. \A f \in 1..Len(files) : files'[f].day = files[f].day /\ (Linked(f)' <=> Linked(f))
  BY <1>1, <1>3 DEF Linked
<1>5. \A r \in RowsOf[b] : r.minute < EndOf(files[g].day)
  BY DayOfBatch
<1>6. FilesKept'
  <2>1. ASSUME NEW f \in 1..Len(files')
        PROVE  /\ \A r \in files'[f].rows : r.minute < EndOf(files'[f].day)
               /\ Linked(f)' \/ EndOf(files'[f].day) <= pruned'
    <3>1. f \in 1..Len(files)
      BY <1>3
    <3>2. /\ \A r \in files[f].rows : r.minute < EndOf(files[f].day)
          /\ Linked(f) \/ EndOf(files[f].day) <= pruned
      BY <3>1 DEF HistoryInv, FilesKept
    <3> QED BY <3>1, <3>2, <1>1, <1>3, <1>4, <1>5
  <2>2. \A d \in Days : disk'[d] # 0 => files'[disk'[d]].day = d
    BY <1>1, <1>4 DEF HistoryInv, FilesKept
  <2> QED BY <2>1, <2>2, <1>1, <1>3 DEF HistoryInv, FilesKept
<1>7. HandlesKept' /\ Growing
  <2>1. Growing
    <3>1. Len(files) \in Int /\ Len(handles) \in Int
      BY <1>2 DEF HistoryInv, HandlesKept
    <3>2. Len(files) <= Len(files') /\ Len(handles) <= Len(handles')
      <4>1. Len(files') = Len(files) /\ handles' = handles
        BY <1>1, <1>3
      <4> QED BY <3>1, <4>1
    <3>3. \A h \in 1..Len(handles) : handles'[h].file = handles[h].file
      BY <1>1
    <3> QED BY <3>2, <3>3, <1>4 DEF Growing
  <2>2. \A d \in Days : shards[d] # 0 => /\ shards[d] \in 1..Len(handles)
                                        /\ handles[shards[d]].file \in 1..Len(files)
    <3> TAKE d \in Days
    <3>1. ASSUME shards[d] # 0 PROVE shards[d] \in 1..Len(handles)
      BY <3>1 DEF HistoryInv, HandlesKept
    <3>2. ASSUME shards[d] \in 1..Len(handles)
          PROVE  handles[shards[d]] \in [file : 1..Len(files), open : BOOLEAN]
      BY <3>2, HandleTyped DEF HistoryInv
    <3> QED BY <3>1, <3>2
  <2> QED BY <2>1, <2>2, <1>1, <1>3, <1>4 DEF HistoryInv, HandlesKept
<1>8. WriterKept'
  BY <1>1 DEF HistoryInv, WriterKept, IdleWriter
<1>9. LockKept'
  BY <1>1, LockAlone DEF HistoryInv, LockKept
<1>10. ReadersKept' /\ PrunerKept' /\ TableKept'
  BY <1>1, ReadersAlone, PrunerAlone, TableAlone DEF HistoryInv
<1>11. \/ OnDisk' = OnDisk \cup RowsOf[b]
       \/ OnDisk' = OnDisk /\ \A r \in RowsOf[b] : r.minute < pruned
  <2>1. \A r : r \in OnDisk <=> \E f \in 1..Len(files) : Linked(f) /\ r \in files[f].rows
    BY DEF OnDisk
  <2>2. \A r : r \in OnDisk' <=> \E f \in 1..Len(files) : Linked(f) /\ r \in files'[f].rows
    BY <1>3, <1>4 DEF OnDisk
  <2>3. CASE Linked(g)
    <3>1. \A r : r \in OnDisk' <=> r \in OnDisk \/ r \in RowsOf[b]
      BY <2>1, <2>2, <2>3, <1>3
    <3> QED BY <3>1
  <2>4. CASE ~Linked(g)
    <3>1. \A r : r \in OnDisk' <=> r \in OnDisk
      BY <2>1, <2>2, <2>4, <1>3
    <3>2. EndOf(files[g].day) <= pruned
      BY <2>4 DEF HistoryInv, FilesKept
    <3>3. ASSUME NEW r \in RowsOf[b] PROVE r.minute < pruned
      <4>1. /\ r.minute < EndOf(files[g].day)
            /\ r.minute \in Nat /\ pruned \in Nat
        BY <1>5, BatchAssumption, TimeAssumption DEF HistoryInv, FilesKept
      <4>2. files[g].day \in Nat
        BY <1>2 DEF Days
      <4>3. EndOf(files[g].day) \in Nat
        BY <4>2, DaysEnd
      <4> QED BY <3>2, <4>1, <4>3
    <3> QED BY <3>1, <3>3
  <2> QED BY <2>3, <2>4
<1> QED BY <1>1, <1>6, <1>7, <1>8, <1>9, <1>10, <1>11 DEF HistoryInv

(* A save that fails changes nothing on disk.                              *)
LEMMA ShardSaveFails ==
  ASSUME HistoryInv, SaveFails, UNCHANGED duckVars
  PROVE  HistoryInv' /\ OnDisk' = OnDisk
<1>1. /\ writer.at \in {"opened", "tx"} /\ writer' = IdleWriter
      /\ UNCHANGED <<now, files, disk, handles, shards, reader, pruner, handed, acked, pruned>>
      /\ UNCHANGED <<table, locking>>
  BY DEF SaveFails, fileVars, handleVars, storeHistory, duckVars
<1>2. WriterKept'
  BY <1>1 DEF HistoryInv, WriterKept, IdleWriter
<1>3. LockKept'
  BY <1>1, LockAlone DEF HistoryInv, LockKept
<1> QED BY <1>1, <1>2, <1>3, FilesAlone, HandlesAlone, ReadersAlone, PrunerAlone, TableAlone
        DEF HistoryInv

-------------------------------------------------------------------------------
(* The readers.  They change no row, and no file but by opening a shard.   *)
LEMMA ReaderMoves ==
  ASSUME HandlesKept, ReadersKept, Growing, NEW q \in Queries, Len(handles') \in Nat,
         DOMAIN reader' = DOMAIN reader, \A p \in Queries \ {q} : reader'[p] = reader[p],
         ReaderKept(reader'[q], Len(handles'))
  PROVE  ReadersKept'
<1>1. Len(handles) \in Nat /\ Len(handles) <= Len(handles')
  BY DEF HandlesKept, Growing
<1>2. \A p \in Queries : ReaderKept(reader'[p], Len(handles'))
  BY <1>1, ReaderCarried DEF ReadersKept
<1> QED BY <1>2 DEF ReadersKept

(* A step of one query that changes nothing else.                          *)
LEMMA QueryMoves ==
  ASSUME HistoryInv, NEW q \in Queries,
         UNCHANGED <<now, files, disk, handles, shards, writer, pruner, handed, acked, pruned>>,
         UNCHANGED <<table, locking>>,
         DOMAIN reader' = DOMAIN reader, \A p \in Queries \ {q} : reader'[p] = reader[p],
         ReaderKept(reader'[q], Len(handles))
  PROVE  HistoryInv' /\ OnDisk' = OnDisk
<1>1. /\ FilesKept' /\ OnDisk' = OnDisk /\ HandlesKept' /\ Growing /\ WriterKept'
      /\ PrunerKept' /\ TableKept'
  BY FilesAlone, HandlesAlone, WriterAlone, PrunerAlone, TableAlone DEF HistoryInv
<1>2. LockKept'
  BY DEF HistoryInv, LockKept
<1>3. Len(handles') \in Nat /\ ReaderKept(reader'[q], Len(handles'))
  BY DEF HistoryInv, HandlesKept
<1>4. ReadersKept'
  BY <1>1, <1>3, ReaderMoves DEF HistoryInv
<1> QED BY <1>1, <1>2, <1>4 DEF HistoryInv

(* What a query may hold, after a change of what it is about.              *)
LEMMA QueryDays ==
  ASSUME NEW q \in Queries
  PROVE  /\ DateOf(q.from) \in Days /\ LastDay(q) \in Days
         /\ DateOf(MaxTime) \in Nat
<1>1. /\ q.from \in Nat /\ q.to \in Nat /\ q.from <= MaxTime /\ q.to <= MaxTime
      /\ MaxTime \in Nat
  BY QueryAssumption, TimeAssumption
<1>2. /\ DateOf(q.from) \in Nat /\ DateOf(q.to) \in Nat /\ DateOf(MaxTime) \in Nat
      /\ DateOf(q.from) <= DateOf(MaxTime) /\ DateOf(q.to) <= DateOf(MaxTime)
  BY <1>1, DayBounds, DaysGrow
<1> HIDE DEF DateOf
<1> QED BY <1>2 DEF Days, LastDay

(* A request for the history keeps the invariant.                          *)
LEMMA HistoryAsked ==
  ASSUME HistoryInv, NEW q \in Queries, AskHistory(q), UNCHANGED duckVars
  PROVE  HistoryInv' /\ OnDisk' = OnDisk
<1>1. /\ reader[q].at = "unasked"
      /\ reader' = [reader EXCEPT ![q].at = "look", ![q].day = DateOf(q.from),
                                  ![q].sure = Matching(q, OnDisk)]
      /\ UNCHANGED <<now, files, disk, handles, shards, writer, pruner, handed, acked, pruned>>
      /\ UNCHANGED <<table, locking>>
  BY DEF AskHistory, fileVars, handleVars, storeHistory, duckVars
<1>2. DOMAIN reader = Queries /\ ReaderKept(reader[q], Len(handles))
  BY DEF HistoryInv, ReadersKept
<1>3. /\ DOMAIN reader' = DOMAIN reader /\ \A p \in Queries \ {q} : reader'[p] = reader[p]
      /\ DOMAIN reader'[q] = DOMAIN reader[q]
      /\ reader'[q].at = "look" /\ reader'[q].day = DateOf(q.from)
      /\ reader'[q].found = reader[q].found /\ reader'[q].sure = Matching(q, OnDisk)
  BY <1>1, <1>2 DEF ReaderKept, Unasked
<1>4. Matching(q, OnDisk) \subseteq Rows
  <2>1. \A f \in 1..Len(files) : files[f].rows \subseteq Rows
    <3> TAKE f \in 1..Len(files)
    <3>1. files[f] \in [day : Days, rows : SUBSET Rows]
      BY ElementOfSeq DEF HistoryInv, FilesKept
    <3> QED BY <3>1
  <2> QED BY <2>1 DEF Matching, OnDisk
<1>5. DateOf(q.from) \in 0..(DateOf(MaxTime) + 1)
  BY QueryDays DEF Days
<1>6. ReaderKept(reader'[q], Len(handles))
  BY <1>2, <1>3, <1>4, <1>5 DEF ReaderKept, Asking
<1> QED BY <1>1, <1>3, <1>6, QueryMoves

(* Asking whether a day has a shard, without opening it, keeps the         *)
(* invariant (GetShardsInRange).                                           *)
LEMMA ShardLookedFor ==
  ASSUME HistoryInv, NEW q \in Queries, LookForShard(q), UNCHANGED duckVars
  PROVE  HistoryInv' /\ OnDisk' = OnDisk
<1>1. /\ reader[q].at = "look"
      /\ \/ reader' = [reader EXCEPT ![q].at = "read"]
         \/ /\ reader[q].day <= LastDay(q)
            /\ reader' = [reader EXCEPT ![q].at = "open"]
         \/ /\ reader[q].day <= LastDay(q)
            /\ reader' = [reader EXCEPT ![q].day = reader[q].day + 1]
      /\ UNCHANGED <<now, files, disk, handles, shards, writer, pruner, handed, acked, pruned>>
      /\ UNCHANGED <<table, locking>>
  BY DEF LookForShard, fileVars, handleVars, storeHistory, duckVars
<1>2. DOMAIN reader = Queries /\ ReaderKept(reader[q], Len(handles))
  BY DEF HistoryInv, ReadersKept
<1>3. /\ DOMAIN reader' = DOMAIN reader /\ \A p \in Queries \ {q} : reader'[p] = reader[p]
      /\ DOMAIN reader'[q] = DOMAIN reader[q]
      /\ reader'[q].found = reader[q].found /\ reader'[q].sure = reader[q].sure
      /\ \/ reader'[q].at = "read" /\ reader'[q].day = reader[q].day
         \/ /\ reader[q].day <= LastDay(q)
            /\ reader'[q].at = "open" /\ reader'[q].day = reader[q].day
         \/ /\ reader[q].day <= LastDay(q)
            /\ reader'[q].at = "look" /\ reader'[q].day = reader[q].day + 1
  BY <1>1, <1>2 DEF ReaderKept, Unasked
<1>4. /\ reader'[q].day \in 0..(DateOf(MaxTime) + 1)
      /\ reader'[q].at = "open" => reader'[q].day \in Days
  <2>1. reader[q].day \in 0..(DateOf(MaxTime) + 1)
    BY <1>2 DEF ReaderKept
  <2>2. LastDay(q) \in 0..DateOf(MaxTime) /\ DateOf(MaxTime) \in Nat
    BY QueryDays DEF Days
  <2> HIDE DEF DateOf, LastDay
  <2> QED BY <1>3, <2>1, <2>2 DEF Days
<1>5. ReaderKept(reader'[q], Len(handles))
  BY <1>1, <1>2, <1>3, <1>4 DEF ReaderKept, Asking
<1> QED BY <1>1, <1>3, <1>5, QueryMoves

(* A reader that opens the shard it lacks keeps the invariant.             *)
LEMMA ShardAdded ==
  ASSUME HistoryInv, NEW q \in Queries, OpenShard(q), UNCHANGED duckVars
  PROVE  HistoryInv' /\ OnDisk' = OnDisk
<1> DEFINE d == reader[q].day
<1>1. /\ reader[q].at = "open" /\ GetOrCreateShard(d)
      /\ reader' = [reader EXCEPT ![q].at = "look", ![q].day = @ + 1,
                                  ![q].found = Append(@, shards'[d])]
      /\ UNCHANGED <<now, writer, pruner, handed, acked, pruned, table, locking>>
  BY DEF OpenShard, storeHistory, duckVars
<1>2. DOMAIN reader = Queries /\ ReaderKept(reader[q], Len(handles)) /\ d \in Days
  BY <1>1 DEF HistoryInv, ReadersKept, ReaderKept
<1>3. /\ FilesKept' /\ HandlesKept' /\ Growing /\ OnDisk' = OnDisk
      /\ shards'[d] \in 1..Len(handles')
  BY <1>1, <1>2, ShardOpened DEF HistoryInv
<1>4. /\ DOMAIN reader' = DOMAIN reader /\ \A p \in Queries \ {q} : reader'[p] = reader[p]
      /\ DOMAIN reader'[q] = DOMAIN reader[q]
      /\ reader'[q].at = "look" /\ reader'[q].day = d + 1
      /\ reader'[q].found = Append(reader[q].found, shards'[d])
      /\ reader'[q].sure = reader[q].sure
  BY <1>1, <1>2 DEF ReaderKept, Unasked
<1>5. d + 1 \in 0..(DateOf(MaxTime) + 1)
  BY <1>2, QueryDays DEF Days
<1>6. Len(handles') \in Nat
  BY <1>3 DEF HandlesKept
<1>7. ReaderKept(reader[q], Len(handles'))
  <2>1. Len(handles) \in Nat /\ Len(handles) <= Len(handles')
    BY <1>3 DEF HistoryInv, HandlesKept, Growing
  <2> QED BY <1>2, <1>6, <2>1, ReaderCarried
<1>8. Append(reader[q].found, shards'[d]) \in Seq(1..Len(handles'))
  BY <1>3, <1>7, AppendProperties DEF ReaderKept
<1>9. ReaderKept(reader'[q], Len(handles'))
  BY <1>1, <1>4, <1>5, <1>7, <1>8 DEF ReaderKept, Asking
<1>10. ReadersKept'
  BY <1>3, <1>4, <1>6, <1>9, ReaderMoves DEF HistoryInv
<1>11. WriterKept' /\ PrunerKept' /\ TableKept' /\ LockKept'
  <2>1. WriterKept'
    BY <1>1, <1>3, WriterCarried DEF HistoryInv
  <2>2. PrunerKept' /\ TableKept'
    BY <1>1, PrunerAlone, TableAlone DEF HistoryInv
  <2>3. LockKept'
    BY <1>1 DEF HistoryInv, LockKept
  <2> QED BY <2>1, <2>2, <2>3
<1> QED BY <1>3, <1>10, <1>11 DEF HistoryInv

(* A query reads the shards it collected, fails, or answers.               *)
LEMMA ShardsRead ==
  ASSUME HistoryInv, NEW q \in Queries, ReadShard(q) \/ ReadFails(q) \/ RowsCutShort(q) \/ Answer(q),
         UNCHANGED duckVars
  PROVE  HistoryInv' /\ OnDisk' = OnDisk
<1>1. /\ reader[q].at = "read"
      /\ UNCHANGED <<now, files, disk, handles, shards, writer, pruner, handed, acked, pruned>>
      /\ UNCHANGED <<table, locking>>
  BY DEF ReadShard, ReadFails, RowsCutShort, Answer, fileVars, handleVars, storeHistory, duckVars
<1>2. /\ DOMAIN reader = Queries /\ ReaderKept(reader[q], Len(handles))
      /\ DOMAIN reader[q] = DOMAIN Unasked
  BY DEF HistoryInv, ReadersKept, ReaderKept
<1>3. /\ DOMAIN reader' = DOMAIN reader /\ \A p \in Queries \ {q} : reader'[p] = reader[p]
      /\ DOMAIN reader'[q] = DOMAIN reader[q]
      /\ reader'[q].day = reader[q].day /\ reader'[q].sure = reader[q].sure
      /\ \/ /\ reader'[q].at = "read" /\ reader[q].found # <<>>
            /\ reader'[q].found = Tail(reader[q].found)
         \/ reader'[q].at \in {"failed", "answered"} /\ reader'[q].found = <<>>
  <2>1. CASE ReadShard(q)
    <3>1. /\ reader[q].found # <<>>
          /\ \E part : reader' = [reader EXCEPT ![q].got = Append(@, part), ![q].found = Tail(@)]
      BY <2>1 DEF ReadShard
    <3> QED BY <1>1, <1>2, <3>1 DEF Unasked
  <2>2. CASE ReadFails(q)
    <3>1. reader' = [reader EXCEPT ![q].at = "failed", ![q].found = <<>>, ![q].got = <<>>]
      BY <2>2 DEF ReadFails
    <3> QED BY <1>1, <1>2, <3>1 DEF Unasked
  <2>3. CASE RowsCutShort(q)
    <3>1. /\ reader[q].found # <<>>
          /\ \E part : reader' = [reader EXCEPT ![q].got = Append(@, part), ![q].found = Tail(@),
                                                ![q].partial = TRUE]
      BY <2>3 DEF RowsCutShort
    <3> QED BY <1>1, <1>2, <3>1 DEF Unasked
  <2>4. CASE Answer(q)
    <3>1. /\ reader[q].found = <<>>
          /\ \E answer : reader' = [reader EXCEPT ![q].at = "answered", ![q].answer = answer,
                                                  ![q].got = <<>>]
      BY <2>4 DEF Answer
    <3> QED BY <1>1, <1>2, <3>1 DEF Unasked
  <2> QED BY <2>1, <2>2, <2>3, <2>4
<1>4. /\ reader'[q].found \in Seq(1..Len(handles))
      /\ reader'[q].at \in {"read", "failed", "answered"}
      /\ reader'[q].at # "read" => reader'[q].found = <<>>
  <2>1. reader[q].found \in Seq(1..Len(handles))
    BY <1>2 DEF ReaderKept
  <2>2. reader[q].found # <<>> => Tail(reader[q].found) \in Seq(1..Len(handles))
    BY <2>1, HeadTailProperties
  <2>3. <<>> \in Seq(1..Len(handles))
    BY EmptySeq
  <2>4. reader'[q].found \in Seq(1..Len(handles))
    BY <1>3, <2>2, <2>3
  <2> QED BY <1>3, <2>4
<1>5. ReaderKept(reader'[q], Len(handles))
  BY <1>1, <1>2, <1>3, <1>4 DEF ReaderKept, Asking
<1> QED BY <1>1, <1>3, <1>5, QueryMoves

-------------------------------------------------------------------------------
(* The clean-up of the shards.  What it may have removed only grows, and   *)
(* stays behind the clock by the days it was told to keep.                 *)
Decided(keep) ==
  \/ pruned' = pruned
  \/ keep * DayLength <= now /\ pruned' \in (pruned + 1)..(now - keep * DayLength)

(* The end of what is decided as expired only moves forward, and never     *)
(* past what the retention allows.                                         *)
LEMMA DecidedLater ==
  ASSUME now \in 0..MaxTime, pruned \in 0..MaxTime, NEW c \in Nat, NEW keep \in Nat,
         c = 0 \/ (keep * DayLength <= now /\ c <= now - keep * DayLength),
         pruned' = Max({pruned, c})
  PROVE  /\ Decided(keep) /\ pruned' \in 0..MaxTime
         /\ pruned <= pruned' /\ c <= pruned' /\ c <= now
<1>1. now \in Nat /\ pruned \in Nat /\ MaxTime \in Nat /\ now <= MaxTime /\ pruned <= MaxTime
  BY TimeAssumption
<1>2. keep * DayLength \in Nat
  BY Lengths
<1>3. pruned' = IF pruned <= c THEN c ELSE pruned
  BY <1>1, Later
<1> DEFINE k == keep * DayLength
<1> HIDE DEF k
<1>4. /\ k \in Nat /\ (c = 0 \/ (k <= now /\ c <= now - k))
      /\ Decided(keep) <=> pruned' = pruned \/ (k <= now /\ pruned' \in (pruned + 1)..(now - k))
  BY <1>2 DEF k, Decided
<1> QED BY <1>1, <1>3, <1>4

(* Deciding what is expired removes nothing yet.                           *)
LEMMA FilesPruned ==
  ASSUME FilesKept, UNCHANGED <<files, disk, now>>, pruned' \in 0..MaxTime, pruned <= pruned'
  PROVE  FilesKept' /\ OnDisk' = OnDisk
<1>1. OnDisk' = OnDisk
  BY DEF OnDisk, Linked
<1>2. ASSUME NEW f \in 1..Len(files), ~Linked(f) PROVE EndOf(files[f].day) <= pruned'
  <2>1. EndOf(files[f].day) <= pruned
    BY <1>2 DEF FilesKept
  <2>2. files[f] \in [day : Days, rows : SUBSET Rows]
    BY ElementOfSeq DEF FilesKept
  <2>3. files[f].day \in Nat
    BY <2>2 DEF Days
  <2>4. EndOf(files[f].day) \in Nat
    BY <2>3, DaysEnd
  <2>5. pruned \in Nat /\ pruned' \in Nat
    BY DEF FilesKept
  <2> QED BY <2>1, <2>4, <2>5
<1>3. \A f \in 1..Len(files) : Linked(f)' <=> Linked(f)
  BY DEF Linked
<1> QED BY <1>1, <1>2, <1>3 DEF FilesKept

(* The clean-up decides, from the clock and the retention it is given,     *)
(* what is expired, and keeps the invariant (CleanupRetention).            *)
LEMMA ShardCleanupBegins ==
  ASSUME HistoryInv, NEW k \in Nat, CleanupRetention(k), UNCHANGED duckVars
  PROVE  /\ HistoryInv' /\ OnDisk' = OnDisk /\ Decided(k)
         /\ pruner.at = "idle" /\ pruner'.at # "idle" /\ pruner'.keep = k
<1> DEFINE c == Cutoff(k)
<1>1. /\ pruner.at = "idle"
      /\ pruner' = [at |-> "sweep", cutoff |-> c, keep |-> k,
                    todo |-> {d \in Days : disk[d] # 0 /\ Expired(d, c)}]
      /\ pruned' = Max({pruned, c * DayLength})
      /\ UNCHANGED <<now, files, disk, handles, shards, writer, reader, handed, acked>>
      /\ UNCHANGED <<table, locking>>
  BY DEF CleanupRetention, fileVars, handleVars, duckVars
<1>2. now \in 0..MaxTime /\ pruned \in 0..MaxTime /\ now \in Nat /\ MaxTime \in Nat
  BY TimeAssumption DEF HistoryInv, FilesKept
<1>3. /\ c \in Nat /\ c * DayLength \in Nat
      /\ c * DayLength = 0 \/ (k * DayLength <= now /\ c * DayLength <= now - k * DayLength)
  <2>1. DateOf(now) \in Nat /\ DateOf(now) * DayLength <= now
    BY <1>2, DayBounds
  <2>2. DateOf(now) * DayLength \in Nat /\ k * DayLength \in Nat
    BY <2>1, Lengths
  <2>3. CASE k <= DateOf(now)
    <3>1. c = DateOf(now) - k
      BY <2>3 DEF Cutoff
    <3>2. c * DayLength = DateOf(now) * DayLength - k * DayLength /\ k * DayLength <= DateOf(now) * DayLength
      BY <2>1, <2>3, <3>1, Lengths
    <3>3. c \in Nat
      BY <2>1, <2>3, <3>1
    <3> HIDE DEF c, DateOf
    <3> QED BY <1>2, <2>1, <2>2, <3>2, <3>3
  <2>4. CASE ~(k <= DateOf(now))
    <3>1. c = 0
      BY <2>4 DEF Cutoff
    <3> QED BY <3>1, TimeAssumption
  <2> QED BY <2>3, <2>4
<1>4. /\ Decided(k) /\ pruned' \in 0..MaxTime /\ pruned <= pruned'
      /\ c * DayLength <= pruned' /\ c * DayLength <= now
  BY <1>1, <1>2, <1>3, DecidedLater
<1>5. FilesKept' /\ OnDisk' = OnDisk
  BY <1>1, <1>4, FilesPruned DEF HistoryInv
<1>6. PrunerKept'
  <2>1. c <= c * DayLength
    BY <1>3, TimeAssumption, SMT
  <2>2. c <= now
    BY <1>2, <1>3, <1>4, <2>1
  <2>3. ASSUME NEW d \in Days, d < c PROVE EndOf(d) <= pruned'
    <3>1. d \in Nat /\ c \in Nat
      BY <1>3 DEF Days
    <3>2. EndOf(d) \in Nat /\ EndOf(d) <= c * DayLength
      BY <2>3, <3>1, DaysEnd
    <3>3. pruned' \in Nat
      BY <1>4
    <3> QED BY <1>3, <1>4, <3>2, <3>3
  <2>4. {d \in Days : disk[d] # 0 /\ Expired(d, c)} \in SUBSET {d \in Days : d < c}
    BY DEF Expired
  <2> HIDE DEF c
  <2> QED BY <1>1, <1>3, <2>2, <2>3, <2>4 DEF PrunerKept
<1>7. HandlesKept' /\ WriterKept' /\ ReadersKept' /\ TableKept'
  BY <1>1, HandlesAlone, WriterAlone, ReadersAlone, TableAlone DEF HistoryInv
<1>8. LockKept'
  BY <1>1 DEF HistoryInv, LockKept
<1> QED BY <1>1, <1>4, <1>5, <1>6, <1>7, <1>8 DEF HistoryInv

(* Closing the handle of an expired day, or finding none, keeps the        *)
(* invariant.                                                              *)
LEMMA ShardClosed ==
  ASSUME HistoryInv, CloseExpired, UNCHANGED duckVars
  PROVE  /\ HistoryInv' /\ OnDisk' = OnDisk
         /\ pruner.at # "idle" /\ pruner'.at # "idle" /\ pruner'.keep = pruner.keep
<1> DEFINE h == shards[Min(pruner.todo)]
<1>1. /\ pruner.at = "sweep" /\ pruner.todo # {} /\ pruner' = [pruner EXCEPT !.at = "remove"]
      /\ UNCHANGED <<now, files, disk, writer, reader, handed, acked, pruned, table, locking>>
      /\ \/ UNCHANGED <<handles, shards>>
         \/ /\ h # 0 /\ handles' = [handles EXCEPT ![h].open = FALSE]
            /\ shards' = [shards EXCEPT ![Min(pruner.todo)] = 0]
  BY DEF CloseExpired, fileVars, handleVars, storeHistory, duckVars, Evict
<1> PICK d \in Days : d = Min(pruner.todo)
  <2>1. pruner.todo \subseteq Days /\ pruner.todo \subseteq Nat
    BY DEF HistoryInv, PrunerKept, Days
  <2> QED BY <1>1, <2>1, Least
<1>2. PrunerKept' /\ pruner'.keep = pruner.keep /\ pruner'.at # "idle"
  BY <1>1 DEF HistoryInv, PrunerKept
<1>3. FilesKept' /\ OnDisk' = OnDisk
  BY <1>1, FilesAlone DEF HistoryInv
<1>4. /\ HandlesKept' /\ Len(handles') = Len(handles)
      /\ \A i \in 1..Len(handles) : handles'[i].file = handles[i].file
  <2>1. CASE UNCHANGED <<handles, shards>>
    BY <1>1, <2>1, HandlesAlone DEF HistoryInv
  <2>2. CASE ~UNCHANGED <<handles, shards>>
    <3> DEFINE Handle == [file : 1..Len(files), open : BOOLEAN]
    <3> PICK g \in 1..Len(handles) : g = shards[d]
      BY <1>1, <2>2 DEF HistoryInv, HandlesKept
    <3>1. /\ handles \in Seq(Handle) /\ handles[g] \in Handle
          /\ \A i \in 1..Len(handles) : handles[i] \in Handle
      <4>1. handles \in Seq(Handle)
        BY DEF HistoryInv, HandlesKept
      <4>2. \A i \in 1..Len(handles) : handles[i] \in Handle
        BY HandleTyped DEF HistoryInv
      <4> QED BY <4>1, <4>2
    <3> DEFINE new == [handles[g] EXCEPT !.open = FALSE]
    <3>2. handles' = [handles EXCEPT ![g] = new] /\ shards' = [shards EXCEPT ![d] = 0]
      BY <1>1, <2>2
    <3>3. new \in Handle /\ new.file = handles[g].file
      BY <3>1
    <3>4. /\ handles' \in Seq(Handle) /\ Len(handles') = Len(handles)
          /\ handles'[g] = new /\ \A i \in 1..Len(handles) \ {g} : handles'[i] = handles[i]
      <4> HIDE DEF Handle, new
      <4> QED BY <3>1, <3>2, <3>3, ExceptSeq
    <3>5. \A i \in 1..Len(handles) : handles'[i].file = handles[i].file
      BY <3>3, <3>4
    <3>6. /\ shards \in [Days -> 0..Len(handles)]
          /\ \A e \in Days : shards[e] # 0 => /\ handles[shards[e]].open
                                            /\ files[handles[shards[e]].file].day = e
      BY DEF HistoryInv, HandlesKept
    <3>7. \A e \in Days : shards'[e] # 0 =>
            e # d /\ shards[e] \in 1..Len(handles) \ {g} /\ shards'[e] = shards[e]
      <4> SUFFICES ASSUME NEW e \in Days, shards'[e] # 0
                   PROVE  e # d /\ shards[e] \in 1..Len(handles) \ {g} /\ shards'[e] = shards[e]
        OBVIOUS
      <4>1. e # d /\ shards'[e] = shards[e]
        BY <3>2, <3>6
      <4>2. shards[e] \in 1..Len(handles)
        BY <3>6, <4>1
      <4>3. shards[e] # g
        BY <3>6, <4>1, <4>2
      <4> QED BY <4>1, <4>2, <4>3
    <3>8. shards' \in [Days -> 0..Len(handles')]
      BY <3>2, <3>4, <3>6
    <3>9. handles' \in Seq([file : 1..Len(files'), open : BOOLEAN])
      BY <1>1, <3>4
    <3>10. \A e \in Days : shards'[e] # 0 => /\ handles'[shards'[e]].open
                                            /\ files'[handles'[shards'[e]].file].day = e
      BY <1>1, <3>4, <3>6, <3>7
    <3> QED BY <3>4, <3>5, <3>8, <3>9, <3>10 DEF HandlesKept
  <2> QED BY <2>1, <2>2
<1>5. Growing
  <2>1. Len(files) \in Int /\ Len(handles) \in Int
    BY DEF HistoryInv, HandlesKept
  <2> QED BY <1>1, <1>4, <2>1 DEF Growing
<1>6. WriterKept'
  BY <1>1, <1>5, WriterCarried DEF HistoryInv
<1>7. ReadersKept'
  <2>1. Len(handles') \in Nat
    BY <1>4 DEF HandlesKept
  <2> QED BY <1>1, <1>5, <2>1, ReadersCarried DEF HistoryInv
<1>8. LockKept' /\ TableKept'
  BY <1>1, TableAlone DEF HistoryInv, LockKept
<1> QED BY <1>1, <1>2, <1>3, <1>4, <1>6, <1>7, <1>8 DEF HistoryInv

(* What a clean-up removes was expired when it was decided.                *)
LEMMA ShardRemoved ==
  ASSUME HistoryInv, RemoveExpired, UNCHANGED duckVars
  PROVE  /\ HistoryInv'
         /\ OnDisk' \subseteq OnDisk /\ \A r \in OnDisk \ OnDisk' : r.minute < pruned
         /\ pruner.at # "idle" /\ pruner'.at # "idle" /\ pruner'.keep = pruner.keep
<1> PICK d \in Days : d = Min(pruner.todo) /\ d \in pruner.todo
  <2>1. pruner.todo \subseteq Days /\ pruner.todo \subseteq Nat /\ pruner.todo # {}
    BY DEF HistoryInv, PrunerKept, Days, RemoveExpired
  <2> QED BY <2>1, Least
<1>1. /\ pruner.at = "remove"
      /\ disk' = [disk EXCEPT ![d] = 0]
      /\ pruner' = [pruner EXCEPT !.at = "sweep", !.todo = pruner.todo \ {d}]
      /\ UNCHANGED <<now, files, handles, shards, writer, reader, handed, acked, pruned>>
      /\ UNCHANGED <<table, locking>>
  BY DEF RemoveExpired, handleVars, storeHistory, duckVars
<1>2. EndOf(d) <= pruned
  BY DEF HistoryInv, PrunerKept
<1>3. PrunerKept' /\ pruner'.keep = pruner.keep /\ pruner'.at = "sweep"
  BY <1>1 DEF HistoryInv, PrunerKept
<1>4. \A f \in 1..Len(files) : files[f].day \in Days
  <2> TAKE f \in 1..Len(files)
  <2>1. files[f] \in [day : Days, rows : SUBSET Rows]
    BY ElementOfSeq DEF HistoryInv, FilesKept
  <2> QED BY <2>1
<1>5. \A f \in 1..Len(files) : IF files[f].day = d THEN ~Linked(f)' ELSE Linked(f)' <=> Linked(f)
  BY <1>1, <1>4 DEF HistoryInv, FilesKept, Linked
<1>6. FilesKept'
  <2>1. \A f \in 1..Len(files) : Linked(f)' \/ EndOf(files[f].day) <= pruned
    BY <1>2, <1>5 DEF HistoryInv, FilesKept
  <2>2. disk' \in [Days -> 0..Len(files)] /\ \A e \in Days : disk'[e] # 0 => files[disk'[e]].day = e
    BY <1>1 DEF HistoryInv, FilesKept
  <2> QED BY <1>1, <2>1, <2>2 DEF HistoryInv, FilesKept
<1>7. \A r : r \in OnDisk <=> \E f \in 1..Len(files) : Linked(f) /\ r \in files[f].rows
  BY DEF OnDisk
<1>8. \A r : r \in OnDisk' <=> \E f \in 1..Len(files) : Linked(f)' /\ r \in files[f].rows
  BY <1>1 DEF OnDisk
<1>9. OnDisk' \subseteq OnDisk
  <2>1. ASSUME NEW r, r \in OnDisk' PROVE r \in OnDisk
    BY <1>5, <1>7, <1>8, <2>1
  <2> QED BY <2>1
<1>10. ASSUME NEW r \in OnDisk \ OnDisk' PROVE r.minute < pruned
  <2>1. PICK f \in 1..Len(files) : files[f].day = d /\ r \in files[f].rows
    BY <1>5, <1>7, <1>8
  <2>2. r.minute < EndOf(d)
    BY <2>1 DEF HistoryInv, FilesKept
  <2>3. r.minute \in Nat
    <3>1. files[f] \in [day : Days, rows : SUBSET Rows]
      BY ElementOfSeq DEF HistoryInv, FilesKept
    <3>2. PICK b \in Batches : r \in RowsOf[b]
      BY <2>1, <3>1 DEF Rows
    <3> QED BY <3>2, BatchAssumption
  <2>4. EndOf(d) \in Nat /\ pruned \in Nat
    <3>1. d \in Nat
      BY DEF Days
    <3> QED BY <3>1, DaysEnd DEF HistoryInv, FilesKept
  <2> QED BY <1>2, <2>2, <2>3, <2>4
<1>11. HandlesKept' /\ WriterKept' /\ ReadersKept' /\ TableKept'
  BY <1>1, HandlesAlone, WriterAlone, ReadersAlone, TableAlone DEF HistoryInv
<1>12. LockKept'
  BY <1>1 DEF HistoryInv, LockKept
<1> QED BY <1>1, <1>3, <1>6, <1>9, <1>10, <1>11, <1>12 DEF HistoryInv

(* A clean-up that is over leaves nothing of itself.                       *)
LEMMA CleanupReturns ==
  ASSUME HistoryInv, CleanupEnds, UNCHANGED duckVars
  PROVE  HistoryInv' /\ OnDisk' = OnDisk /\ pruner' = IdlePruner
<1>1. /\ pruner.at = "sweep" /\ pruner' = IdlePruner
      /\ UNCHANGED <<now, files, disk, handles, shards, writer, reader, handed, acked, pruned>>
      /\ UNCHANGED <<table, locking>>
  BY DEF CleanupEnds, fileVars, handleVars, storeHistory, duckVars
<1>2. PrunerKept'
  BY <1>1 DEF HistoryInv, PrunerKept, IdlePruner, FilesKept
<1>3. LockKept'
  BY <1>1 DEF HistoryInv, LockKept
<1> QED BY <1>1, <1>2, <1>3, FilesAlone, HandlesAlone, WriterAlone, ReadersAlone, TableAlone
        DEF HistoryInv

-------------------------------------------------------------------------------
(* The clock, and the end of the process.                                  *)
LEMMA ClockMoves ==
  ASSUME HistoryInv, StoreTick, UNCHANGED duckVars
  PROVE  HistoryInv' /\ OnDisk' = OnDisk
<1>1. /\ now < MaxTime /\ now' = now + 1
      /\ UNCHANGED <<files, disk, handles, shards, writer, reader, pruner, handed, acked, pruned>>
      /\ UNCHANGED <<table, locking>>
  BY DEF StoreTick, fileVars, handleVars, storeHistory, duckVars
<1>2. now \in Nat /\ now' \in 0..MaxTime
  BY <1>1, TimeAssumption DEF HistoryInv, FilesKept
<1>3. FilesKept' /\ OnDisk' = OnDisk
  BY <1>1, <1>2 DEF HistoryInv, FilesKept, OnDisk, Linked
<1>4. PrunerKept'
  BY <1>1, <1>2 DEF HistoryInv, PrunerKept
<1>5. LockKept'
  BY <1>1 DEF HistoryInv, LockKept
<1> QED BY <1>1, <1>3, <1>4, <1>5, HandlesAlone, WriterAlone, ReadersAlone, TableAlone
        DEF HistoryInv

(* The end of the process closes everything, and the files stay as they    *)
(* are.                                                                    *)
LEMMA HistoryLeft ==
  ASSUME HistoryInv, ProcessGone, LocksGone
  PROVE  HistoryInv' /\ OnDisk' = OnDisk /\ pruner' = IdlePruner
<1>1. /\ handles' = <<>> /\ shards' = [d \in Days |-> 0]
      /\ writer' = IdleWriter /\ pruner' = IdlePruner
      /\ reader' = [q \in Queries |-> IF reader[q].at \in {"answered", "served", "failed"}
                                      THEN reader[q] ELSE Unasked]
      /\ UNCHANGED <<now, files, disk, handed, acked, pruned, table>>
      /\ locking' = NoOne
  BY DEF ProcessGone, LocksGone, fileVars, storeHistory
<1>2. FilesKept' /\ OnDisk' = OnDisk
  BY <1>1, FilesAlone DEF HistoryInv
<1>3. HandlesKept'
  <2>1. handles' \in Seq([file : 1..Len(files'), open : BOOLEAN]) /\ Len(handles') = 0
    BY <1>1, EmptySeq
  <2> QED BY <1>1, <2>1 DEF HandlesKept
<1>4. WriterKept'
  BY <1>1 DEF HistoryInv, WriterKept, IdleWriter
<1>5. ReadersKept'
  <2>1. <<>> \in Seq(1..0) /\ Len(handles') = 0
    BY <1>1, EmptySeq
  <2>2. 0 \in 0..(DateOf(MaxTime) + 1)
    <3>1. DateOf(MaxTime) \in Nat
      BY TimeAssumption, DayBounds
    <3> QED BY <3>1
  <2>3. ReaderKept(Unasked, 0)
    BY <2>1, <2>2 DEF ReaderKept, Unasked, Asking
  <2>4. ASSUME NEW q \in Queries, reader[q].at \in {"answered", "served", "failed"}
        PROVE  ReaderKept(reader[q], 0)
    <3>1. ReaderKept(reader[q], Len(handles))
      BY DEF HistoryInv, ReadersKept
    <3>2. reader[q].found = <<>>
      BY <2>4, <3>1 DEF ReaderKept, Asking
    <3> QED BY <2>1, <2>4, <3>1, <3>2 DEF ReaderKept
  <2>5. \A q \in Queries : ReaderKept(reader'[q], 0)
    BY <1>1, <2>3, <2>4
  <2> QED BY <1>1, <2>1, <2>5 DEF ReadersKept
<1>6. PrunerKept'
  BY <1>1 DEF HistoryInv, PrunerKept, IdlePruner, FilesKept
<1>7. LockKept' /\ TableKept'
  BY <1>1 DEF HistoryInv, LockKept, TableKept, NoOne
<1> QED BY <1>1, <1>2, <1>3, <1>4, <1>5, <1>6, <1>7 DEF HistoryInv

-------------------------------------------------------------------------------
(* The DuckDB backend.                                                     *)
LEMMA LockTaken ==
  ASSUME HistoryInv, Lock
  PROVE  HistoryInv'
<1>1. /\ \/ writer.at = "lock" /\ locking' = "writer"
         \/ pruner.at = "lock" /\ locking' = "pruner"
      /\ UNCHANGED <<now, files, disk, handles, shards, writer, reader, pruner, handed, acked,
                     pruned, table>>
  BY DEF Lock, storeVars
<1>2. LockKept'
  BY <1>1 DEF LockKept, NoOne
<1> QED BY <1>1, <1>2, FilesAlone, HandlesAlone, WriterAlone, ReadersAlone, PrunerAlone, TableAlone
        DEF HistoryInv

(* A save that waits for the lock keeps the invariant.                     *)
LEMMA DuckSaveBegins ==
  ASSUME HistoryInv, NEW b \in Batches, DuckSaveAggregates(b)
  PROVE  HistoryInv'
<1>1. /\ writer.at = "idle" /\ b \notin handed
      /\ writer' = [at |-> "lock", batch |-> b, handle |-> 0]
      /\ handed' = handed \cup {b}
      /\ UNCHANGED <<now, files, disk, handles, shards, reader, pruner, acked, pruned>>
      /\ UNCHANGED <<table, locking>>
  BY DEF DuckSaveAggregates, fileVars, handleVars, duckVars
<1>2. WriterKept'
  BY <1>1 DEF HistoryInv, WriterKept
<1>3. LockKept'
  BY <1>1 DEF HistoryInv, LockKept
<1> QED BY <1>1, <1>2, <1>3, FilesAlone, HandlesAlone, ReadersAlone, PrunerAlone, TableAlone
        DEF HistoryInv

(* A stored row is known by its stamp.                                     *)
LEMMA StampsDiffer ==
  ASSUME NEW b \in Batches, NEW c \in Batches, NEW r \in RowsOf[b], NEW s \in RowsOf[c],
         StoredAs(b, r) = StoredAs(c, s)
  PROVE  r = s
BY StampAssumption

(* A commit puts the whole batch into the table, and nothing else.         *)
LEMMA DuckCommits ==
  ASSUME HistoryInv, DuckCommit
  PROVE  /\ HistoryInv'
         /\ \E b \in Batches \ acked : /\ acked' = acked \cup {b}
                                       /\ InTable' = InTable \cup RowsOf[b]
<1>1. /\ locking = "writer" /\ locking' = NoOne
      /\ table' = table \cup Stamped(writer.batch)
      /\ acked' = acked \cup {writer.batch}
      /\ writer' = IdleWriter
      /\ UNCHANGED <<now, files, disk, handles, shards, reader, pruner, handed, pruned>>
  BY DEF DuckCommit, HasLock, fileVars, handleVars
<1> PICK b \in Batches : b = writer.batch /\ b \in handed \ acked
  BY <1>1 DEF HistoryInv, LockKept, WriterKept
<1>2. WriterKept'
  BY <1>1 DEF HistoryInv, WriterKept, IdleWriter
<1>3. LockKept'
  BY <1>1 DEF LockKept, NoOne
<1>4. TableKept'
  BY <1>1 DEF HistoryInv, TableKept
<1>5. ASSUME NEW r PROVE r \in InTable' <=> r \in InTable \cup RowsOf[b]
  <2>1. r \in InTable <=> \E c \in Batches : r \in RowsOf[c] /\ StoredAs(c, r) \in table
    BY DEF InTable, Rows
  <2>2. r \in InTable' <=> \E c \in Batches : r \in RowsOf[c] /\ StoredAs(c, r) \in table'
    BY DEF InTable, Rows
  <2>3. ASSUME NEW c \in Batches, r \in RowsOf[c], StoredAs(c, r) \in Stamped(b)
        PROVE  r \in RowsOf[b]
    <3>1. PICK s \in RowsOf[b] : StoredAs(c, r) = StoredAs(b, s)
      BY <2>3 DEF Stamped
    <3> QED BY <2>3, <3>1, StampsDiffer
  <2>4. r \in RowsOf[b] => StoredAs(b, r) \in Stamped(b)
    BY DEF Stamped
  <2> QED BY <1>1, <2>1, <2>2, <2>3, <2>4
<1> QED BY <1>1, <1>2, <1>3, <1>4, <1>5, FilesAlone, HandlesAlone, ReadersAlone, PrunerAlone
        DEF HistoryInv

(* A save that fails changes nothing in the table.                         *)
LEMMA DuckFails ==
  ASSUME HistoryInv, DuckSaveFails
  PROVE  HistoryInv'
<1>1. /\ locking = "writer" /\ locking' = NoOne /\ writer' = IdleWriter
      /\ UNCHANGED <<table, now, files, disk, handles, shards, reader, pruner, handed, acked, pruned>>
  BY DEF DuckSaveFails, HasLock, fileVars, handleVars, storeHistory
<1>2. WriterKept'
  BY <1>1 DEF HistoryInv, WriterKept, IdleWriter
<1>3. LockKept'
  BY <1>1 DEF LockKept, NoOne
<1> QED BY <1>1, <1>2, <1>3, FilesAlone, HandlesAlone, ReadersAlone, PrunerAlone, TableAlone
        DEF HistoryInv

(* A clean-up that waits for the lock keeps the invariant.                 *)
LEMMA DuckCleanupBegins ==
  ASSUME HistoryInv, NEW k \in Nat, DuckCleanupRetention(k)
  PROVE  HistoryInv' /\ pruner.at = "idle" /\ pruner'.at # "idle" /\ pruner'.keep = k
<1>1. /\ pruner.at = "idle"
      /\ pruner' = [at |-> "lock", todo |-> {}, cutoff |-> 0, keep |-> k]
      /\ UNCHANGED <<now, files, disk, handles, shards, writer, reader, handed, acked, pruned>>
      /\ UNCHANGED <<table, locking>>
  BY DEF DuckCleanupRetention, IdlePruner, fileVars, handleVars, storeHistory, duckVars
<1>2. PrunerKept'
  BY <1>1 DEF HistoryInv, PrunerKept, FilesKept
<1>3. LockKept'
  BY <1>1 DEF HistoryInv, LockKept
<1> QED BY <1>1, <1>2, <1>3, FilesAlone, HandlesAlone, WriterAlone, ReadersAlone, TableAlone
        DEF HistoryInv

(* The clean-up decides from the clock it reads under the lock, with the   *)
(* retention it was called with.                                           *)
LEMMA DuckDecides ==
  ASSUME HistoryInv, ReadClock
  PROVE  /\ HistoryInv' /\ Decided(pruner.keep)
         /\ pruner.at # "idle" /\ pruner'.at # "idle" /\ pruner'.keep = pruner.keep
<1> DEFINE k == pruner.keep * DayLength
           c == IF k <= now THEN now - k ELSE 0
<1>1. /\ pruner.at = "lock" /\ pruner' = [pruner EXCEPT !.at = "delete", !.cutoff = c]
      /\ pruned' = Max({pruned, c})
      /\ UNCHANGED <<now, files, disk, handles, shards, writer, reader, handed, acked, table, locking>>
  BY DEF ReadClock, fileVars, handleVars, duckVars
<1>2. now \in 0..MaxTime /\ pruned \in 0..MaxTime /\ now \in Nat /\ pruner.keep \in Nat
  BY TimeAssumption DEF HistoryInv, FilesKept, PrunerKept
<1>3. k \in Nat
  BY <1>2, Lengths
<1>4. c \in Nat /\ (c = 0 \/ (k <= now /\ c <= now - k))
  <2> HIDE DEF k
  <2> QED BY <1>2, <1>3
<1>5. /\ Decided(pruner.keep) /\ pruned' \in 0..MaxTime /\ pruned <= pruned'
      /\ c <= pruned' /\ c <= now
  <2> HIDE DEF c
  <2> QED BY <1>1, <1>2, <1>4, DecidedLater
<1>6. FilesKept'
  BY <1>1, <1>5, FilesPruned DEF HistoryInv
<1>7. PrunerKept' /\ pruner'.at = "delete" /\ pruner'.keep = pruner.keep
  <2>1. pruner' = [at |-> "delete", todo |-> pruner.todo, cutoff |-> c, keep |-> pruner.keep]
    BY <1>1 DEF HistoryInv, PrunerKept
  <2>2. ASSUME NEW d \in pruner.todo PROVE EndOf(d) <= pruned'
    <3>1. EndOf(d) <= pruned /\ d \in Nat
      BY DEF HistoryInv, PrunerKept, Days
    <3>2. EndOf(d) \in Nat /\ pruned \in Nat /\ pruned' \in Nat
      BY <1>2, <1>5, <3>1, DaysEnd
    <3> QED BY <1>5, <3>1, <3>2
  <2>3. pruner.todo \subseteq Days /\ pruner.keep \in Nat
    BY DEF HistoryInv, PrunerKept
  <2> HIDE DEF c
  <2> QED BY <1>1, <1>4, <1>5, <2>1, <2>2, <2>3 DEF PrunerKept
<1>8. LockKept'
  BY <1>1, <1>7 DEF HistoryInv, LockKept
<1> QED BY <1>1, <1>5, <1>6, <1>7, <1>8, HandlesAlone, WriterAlone, ReadersAlone, TableAlone
        DEF HistoryInv

(* Rows go by the minute of their bucket, which is no earlier than theirs. *)
LEMMA DuckDeletes ==
  ASSUME HistoryInv, DeleteExpired
  PROVE  /\ HistoryInv'
         /\ InTable' \subseteq InTable /\ \A r \in InTable \ InTable' : r.minute < pruned
         /\ pruner.at # "idle" /\ pruner'.at # "idle" /\ pruner'.keep = pruner.keep
<1>1. /\ pruner.at = "delete" /\ pruner' = [pruner EXCEPT !.at = "sweep"]
      /\ locking' = NoOne
      /\ table' \subseteq table
      /\ \A r \in table \ table' : r.minute < pruner.cutoff
      /\ UNCHANGED <<now, files, disk, handles, shards, writer, reader, handed, acked, pruned>>
  BY DEF DeleteExpired, OlderThan, fileVars, handleVars, storeHistory
<1>2. PrunerKept' /\ pruner'.at = "sweep" /\ pruner'.keep = pruner.keep
  BY <1>1 DEF HistoryInv, PrunerKept
<1>3. LockKept'
  BY <1>1 DEF LockKept, NoOne
<1>4. TableKept'
  BY <1>1 DEF HistoryInv, TableKept
<1>5. InTable' \subseteq InTable
  BY <1>1 DEF InTable
<1>6. ASSUME NEW r \in InTable \ InTable' PROVE r.minute < pruned
  <2>1. PICK b \in Batches : r \in RowsOf[b] /\ StoredAs(b, r) \in table
    BY DEF InTable
  <2>2. StoredAs(b, r) \notin table'
    BY <2>1 DEF InTable, Rows
  <2>3. "minute" \in DOMAIN r /\ r.minute \in 0..Bucket[b] /\ Bucket[b] \in 0..MaxTime
    BY <2>1, BatchAssumption
  <2>4. StoredAs(b, r).minute = Bucket[b]
    BY <2>3 DEF StoredAs
  <2>5. Bucket[b] < pruner.cutoff
    BY <1>1, <2>1, <2>2, <2>4
  <2>6. pruner.cutoff \in Nat /\ pruned \in Nat /\ pruner.cutoff <= pruned
    BY <1>1 DEF HistoryInv, PrunerKept, FilesKept
  <2> QED BY <2>3, <2>5, <2>6
<1> QED BY <1>1, <1>2, <1>3, <1>4, <1>5, <1>6, FilesAlone, HandlesAlone, WriterAlone, ReadersAlone
        DEF HistoryInv

(* A query of this backend opens no shard and keeps no handle.             *)
LEMMA DuckReads ==
  ASSUME HistoryInv, NEW q \in Queries, DuckQuery(q) \/ ListDevices(q)
  PROVE  HistoryInv' /\ UNCHANGED <<table, acked, pruned, now, pruner>>
<1>1. UNCHANGED <<now, files, disk, handles, shards, writer, pruner, handed, acked, pruned,
                  table, locking>>
  BY DEF DuckQuery, ListDevices, fileVars, handleVars, storeHistory, duckVars
<1>2. /\ DOMAIN reader = Queries /\ ReaderKept(reader[q], Len(handles))
      /\ DOMAIN reader[q] = DOMAIN Unasked
  BY DEF HistoryInv, ReadersKept, ReaderKept
<1>3. \E rd :
        /\ reader' = [reader EXCEPT ![q] = rd]
        /\ DOMAIN rd = DOMAIN Unasked
        /\ \/ rd.at \in {"listing", "served"} /\ rd.day \in {0, reader[q].day} /\ rd.found = <<>>
           \/ /\ rd.at = "failed" /\ rd.day = reader[q].day /\ rd.found = reader[q].found
              /\ rd.sure = reader[q].sure /\ reader[q].at = "unasked"
  <2>1. ASSUME NEW at \in {"listing", "served"}, NEW cut \in BOOLEAN, Reads(q, at, cut)
        PROVE  \E rd : /\ reader' = [reader EXCEPT ![q] = rd]
                       /\ DOMAIN rd = DOMAIN Unasked
                       /\ rd.at \in {"listing", "served"} /\ rd.day = 0 /\ rd.found = <<>>
    <3>1. PICK part \in Statement(q, cut) :
            LET asked == [Unasked EXCEPT !.at = at, !.sure = Matching(q, table), !.partial = cut]
            IN  IF at = "listing" THEN reader' = [reader EXCEPT ![q] = [asked EXCEPT !.got = <<part>>]]
                ELSE \E answer \in Answers(q, <<part>>) :
                       reader' = [reader EXCEPT ![q] = [asked EXCEPT !.answer = answer]]
      BY <2>1 DEF Reads
    <3> DEFINE asked == [Unasked EXCEPT !.at = at, !.sure = Matching(q, table), !.partial = cut]
    <3>2. /\ DOMAIN asked = DOMAIN Unasked
          /\ asked.at = at /\ asked.day = 0 /\ asked.found = <<>>
      BY DEF Unasked
    <3>3. CASE at = "listing"
      <4> DEFINE rd == [asked EXCEPT !.got = <<part>>]
      <4>1. reader' = [reader EXCEPT ![q] = rd]
        BY <3>1, <3>3
      <4>2. DOMAIN rd = DOMAIN Unasked /\ rd.at = at /\ rd.day = 0 /\ rd.found = <<>>
        BY <3>2
      <4> QED BY <4>1, <4>2
    <3>4. CASE at # "listing"
      <4> PICK answer \in Answers(q, <<part>>) :
                 reader' = [reader EXCEPT ![q] = [asked EXCEPT !.answer = answer]]
        BY <3>1, <3>4
      <4> DEFINE rd == [asked EXCEPT !.answer = answer]
      <4>1. reader' = [reader EXCEPT ![q] = rd]
        OBVIOUS
      <4>2. DOMAIN rd = DOMAIN Unasked /\ rd.at = at /\ rd.day = 0 /\ rd.found = <<>>
        BY <3>2
      <4> QED BY <4>1, <4>2
    <3> QED BY <3>3, <3>4
  <2>2. CASE DuckQuery(q)
    <3>1. reader[q].at = "unasked"
      BY <2>2 DEF DuckQuery
    <3>2. CASE \E at \in {"listing", "served"}, cut \in BOOLEAN : Reads(q, at, cut)
      BY <2>1, <3>2
    <3>3. CASE reader' = [reader EXCEPT ![q].at = "failed"]
      <4> DEFINE rd == [reader[q] EXCEPT !.at = "failed"]
      <4>1. reader' = [reader EXCEPT ![q] = rd]
        BY <3>3
      <4>2. /\ DOMAIN rd = DOMAIN Unasked /\ rd.at = "failed" /\ rd.day = reader[q].day
            /\ rd.found = reader[q].found /\ rd.sure = reader[q].sure
        BY <1>2 DEF Unasked
      <4> QED BY <3>1, <4>1, <4>2
    <3>4. \/ \E at \in {"listing", "served"}, cut \in BOOLEAN : Reads(q, at, cut)
          \/ reader' = [reader EXCEPT ![q].at = "failed"]
      BY <2>2 DEF DuckQuery
    <3> QED BY <3>2, <3>3, <3>4
  <2>3. CASE ListDevices(q)
    <3>1. PICK answer : reader' = [reader EXCEPT ![q].at = "served", ![q].answer = answer,
                                                 ![q].got = <<>>]
      BY <2>3 DEF ListDevices
    <3>2. reader[q].found = <<>>
      BY <1>2, <2>3 DEF ListDevices, Listing, ReaderKept, Asking
    <3> DEFINE rd == [reader[q] EXCEPT !.at = "served", !.answer = answer, !.got = <<>>]
    <3>3. reader' = [reader EXCEPT ![q] = rd]
      BY <3>1, <1>2
    <3>4. /\ DOMAIN rd = DOMAIN Unasked /\ rd.at = "served" /\ rd.day = reader[q].day
          /\ rd.found = <<>>
      BY <1>2, <3>2 DEF Unasked
    <3> QED BY <3>3, <3>4
  <2> QED BY <2>2, <2>3
<1>4. PICK rd :
        /\ reader' = [reader EXCEPT ![q] = rd]
        /\ DOMAIN rd = DOMAIN Unasked
        /\ \/ rd.at \in {"listing", "served"} /\ rd.day \in {0, reader[q].day} /\ rd.found = <<>>
           \/ /\ rd.at = "failed" /\ rd.day = reader[q].day /\ rd.found = reader[q].found
              /\ rd.sure = reader[q].sure /\ reader[q].at = "unasked"
  BY <1>3
<1>5. /\ DOMAIN reader' = DOMAIN reader /\ \A p \in Queries \ {q} : reader'[p] = reader[p]
      /\ reader'[q] = rd
  BY <1>2, <1>4
<1>6. ReaderKept(rd, Len(handles))
  <2>1. DateOf(MaxTime) \in Nat
    BY TimeAssumption, DayBounds
  <2>2. 0 \in 0..(DateOf(MaxTime) + 1)
    BY <2>1
  <2>3. <<>> \in Seq(1..Len(handles))
    BY EmptySeq
  <2> QED BY <1>2, <1>4, <2>2, <2>3 DEF ReaderKept, Asking
<1>7. HistoryInv'
  BY <1>1, <1>5, <1>6, QueryMoves
<1> QED BY <1>1, <1>7

-------------------------------------------------------------------------------
(* The start, and what the invariant says.                                 *)
LEMMA HistoryStarts ==
  ASSUME StoreInit, DuckInit
  PROVE  HistoryInv /\ OnDisk = {} /\ InTable = {}
<1>1. /\ now = 0 /\ files = <<>> /\ disk = [d \in Days |-> 0]
      /\ handles = <<>> /\ shards = [d \in Days |-> 0]
      /\ writer = IdleWriter /\ reader = [q \in Queries |-> Unasked] /\ pruner = IdlePruner
      /\ handed = {} /\ acked = {} /\ pruned = 0
      /\ table = {} /\ locking = NoOne
  BY DEF StoreInit, DuckInit
<1>2. Len(files) = 0 /\ Len(handles) = 0
  BY <1>1, EmptySeq
<1>3. FilesKept
  <2>1. files \in Seq([day : Days, rows : SUBSET Rows])
    BY <1>1, EmptySeq
  <2>2. 0 \in 0..MaxTime
    BY TimeAssumption
  <2> QED BY <1>1, <1>2, <2>1, <2>2 DEF FilesKept
<1>4. HandlesKept
  <2>1. handles \in Seq([file : 1..Len(files), open : BOOLEAN])
    BY <1>1, EmptySeq
  <2> QED BY <1>1, <1>2, <2>1 DEF HandlesKept
<1>5. WriterKept
  BY <1>1 DEF WriterKept, IdleWriter
<1>6. ReadersKept
  <2>1. DateOf(MaxTime) \in Nat
    BY TimeAssumption, DayBounds
  <2>2. 0 \in 0..(DateOf(MaxTime) + 1) /\ <<>> \in Seq(1..0)
    BY <2>1, EmptySeq
  <2>3. ReaderKept(Unasked, 0)
    BY <2>2 DEF ReaderKept, Unasked, Asking
  <2> QED BY <1>1, <1>2, <2>3 DEF ReadersKept
<1>7. PrunerKept /\ LockKept /\ TableKept
  <2>1. PrunerKept
    BY <1>1 DEF PrunerKept, IdlePruner
  <2>2. LockKept
    BY <1>1 DEF LockKept, NoOne
  <2>3. TableKept
    BY <1>1 DEF TableKept
  <2> QED BY <2>1, <2>2, <2>3
<1>8. OnDisk = {} /\ InTable = {}
  BY <1>1, <1>2 DEF OnDisk, InTable
<1> QED BY <1>3, <1>4, <1>5, <1>6, <1>7, <1>8 DEF HistoryInv

(* The invariant stays true while others move.                             *)
LEMMA HistoryUntouched ==
  ASSUME HistoryInv, UNCHANGED <<storeVars, duckVars>>
  PROVE  HistoryInv' /\ OnDisk' = OnDisk
<1>1. UNCHANGED <<now, files, disk, handles, shards, writer, reader, pruner, handed, acked,
                  pruned, table, locking>>
  BY DEF storeVars, duckVars
<1>2. LockKept'
  BY <1>1 DEF HistoryInv, LockKept
<1> QED BY <1>1, <1>2, FilesAlone, HandlesAlone, WriterAlone, ReadersAlone, PrunerAlone, TableAlone
        DEF HistoryInv

(* Types, and what r.mu and the lock protect.                              *)
LEMMA HistoryTyped ==
  ASSUME HistoryInv
  PROVE  StoreTypeOK /\ DuckTypeOK
<1>1. /\ now \in 0..MaxTime /\ pruned \in 0..MaxTime
      /\ disk \in [Days -> 0..Len(files)]
      /\ \A d \in Days : disk[d] # 0 => files[disk[d]].day = d
  BY DEF HistoryInv, FilesKept
<1>2. \A f \in 1..Len(files) : files[f].day \in Days /\ files[f].rows \subseteq Rows
  <2> TAKE f \in 1..Len(files)
  <2>1. files[f] \in [day : Days, rows : SUBSET Rows]
    BY ElementOfSeq DEF HistoryInv, FilesKept
  <2> QED BY <2>1
<1>3. \A h \in 1..Len(handles) : handles[h].file \in 1..Len(files) /\ handles[h].open \in BOOLEAN
  <2> TAKE h \in 1..Len(handles)
  <2>1. handles[h] \in [file : 1..Len(files), open : BOOLEAN]
    BY ElementOfSeq DEF HistoryInv, HandlesKept
  <2> QED BY <2>1
<1>4. /\ shards \in [Days -> 0..Len(handles)]
      /\ \A d \in Days : shards[d] # 0 => /\ handles[shards[d]].open
                                        /\ files[handles[shards[d]].file].day = d
  BY DEF HistoryInv, HandlesKept
<1>5. /\ writer.at \in {"idle", "lock", "opened", "tx"}
      /\ acked \subseteq handed /\ handed \subseteq Batches
  BY DEF HistoryInv, WriterKept
<1>6. \A q \in Queries :
        /\ reader[q].at \in {"unasked", "look", "open", "read", "listing", "failed", "answered", "served"}
        /\ reader[q].day \in 0..(DateOf(MaxTime) + 1)
        /\ reader[q].found \in Seq(1..Len(handles))
        /\ reader[q].at \in {"listing", "served"} \/ reader[q].sure \subseteq Rows
  BY DEF HistoryInv, ReadersKept, ReaderKept, Asking
<1>7. pruner.at \in {"idle", "lock", "delete", "sweep", "remove"}
  BY DEF HistoryInv, PrunerKept
<1>8. StoreTypeOK
  BY <1>1, <1>2, <1>3, <1>4, <1>5, <1>6, <1>7 DEF StoreTypeOK
<1>9. DuckTypeOK
  BY DEF HistoryInv, LockKept, TableKept, DuckTypeOK
<1> QED BY <1>8, <1>9

-------------------------------------------------------------------------------
(* What the queries compute.                                               *)

(* What shards gave is part of S: no row in two parts, no group without a  *)
(* row.                                                                    *)
PiecesOf(q, parts, S) ==
  /\ IsFiniteSet(DOMAIN parts)
  /\ \A i \in DOMAIN parts : parts[i].rows \subseteq S /\ parts[i].keys \subseteq Keys(q, parts[i].rows)
  /\ \A i, j \in DOMAIN parts : i # j => parts[i].rows \cap parts[j].rows = {}

(* They are all of D: a row of D is in a part, or it gave way to so many   *)
(* newer ones as are asked for; and no group was cut off.                  *)
GaveWay(q, T, r) ==
  q.kind = "records" /\ Cardinality(T) = q.limit /\ \A g \in T : g.minute >= r.minute
Uncut(q, parts) ==
  q.kind # "records" => \A i \in DOMAIN parts : parts[i].keys = Keys(q, parts[i].rows)
InParts(q, parts, r) == \E i \in DOMAIN parts : r \in parts[i].rows \/ GaveWay(q, parts[i].rows, r)

(* What an answer counts are numbers.                                      *)
Numbers(q, answer) ==
  CASE q.kind \in TopKinds \cup SeriesKinds -> \A k \in DOMAIN answer : answer[k] \in Nat
    [] q.kind = "records" -> TRUE
    [] q.kind = "samples" -> \A s \in answer : s.bytes \in Nat /\ s.peers \in Nat
    [] OTHER -> answer.buckets \in Nat

(* What a row adds to a group: its bytes, once or twice.                   *)
SharesIn(q, r, k) == {i \in DOMAIN GroupsOf(q, r) : GroupsOf(q, r)[i] = k}
Share(q, r, k) == r.bytes * Cardinality(SharesIn(q, r, k))
GroupsIn(q, r) == {GroupsOf(q, r)[i] : i \in DOMAIN GroupsOf(q, r)}
SoundRows(S) == IsFiniteSet(S) /\ \A r \in S : r.minute \in Nat /\ r.bytes \in Nat

(* A row is counted for two groups at most.                                *)
LEMMA GroupsAreFew ==
  ASSUME NEW q, q.kind \in Kinds, NEW r
  PROVE  DOMAIN GroupsOf(q, r) \subseteq 1..2
<1>1. \A a, b : /\ DOMAIN <<>> \subseteq 1..2 /\ DOMAIN <<a>> \subseteq 1..2
                /\ DOMAIN <<a, b>> \subseteq 1..2
  OBVIOUS
<1>2. \A a, b : DOMAIN (<<a>> \o <<b>>) \subseteq 1..2
  <2>1. SUFFICES ASSUME NEW a, NEW b PROVE DOMAIN (<<a>> \o <<b>>) \subseteq 1..2
    OBVIOUS
  <2>2. <<a>> \in Seq({a, b}) /\ <<b>> \in Seq({a, b}) /\ Len(<<a>>) = 1 /\ Len(<<b>>) = 1
    OBVIOUS
  <2>3. PICK s : s = <<a>> \o <<b>>
    OBVIOUS
  <2>4. s \in Seq({a, b}) /\ Len(s) = 2
    BY <2>2, <2>3, ConcatProperties
  <2> QED BY <2>3, <2>4
<1>3. \A a : /\ DOMAIN (<<a>> \o <<>>) \subseteq 1..2 /\ DOMAIN (<<>> \o <<a>>) \subseteq 1..2
             /\ DOMAIN (<<>> \o <<>>) \subseteq 1..2
  <2>1. SUFFICES ASSUME NEW a PROVE /\ DOMAIN (<<a>> \o <<>>) \subseteq 1..2
                                    /\ DOMAIN (<<>> \o <<a>>) \subseteq 1..2
                                    /\ DOMAIN (<<>> \o <<>>) \subseteq 1..2
    OBVIOUS
  <2>2. <<a>> \in Seq({a}) /\ <<>> \in Seq({a})
    OBVIOUS
  <2>3. <<a>> \o <<>> = <<a>> /\ <<>> \o <<a>> = <<a>> /\ <<>> \o <<>> = <<>>
    BY <2>2, ConcatEmptySeq
  <2> QED BY <1>1, <2>3
<1>4. DOMAIN GetDeviceTopPeers(r, q.ip) \subseteq 1..2
  BY <1>2, <1>3 DEF GetDeviceTopPeers
<1> QED BY <1>1, <1>4
        DEF GroupsOf, Kinds, TopKinds, SeriesKinds, SourceKinds, GetTopSources, GetTopDestinations,
            GetTopPorts, GetTopDevicesByVolume, GetTrafficTimeSeries, GetDeviceTopPorts,
            GetDeviceTrafficTimeSeries

(* So its share is a number, and nothing in a group it does not count for. *)
LEMMA SharesAreNumbers ==
  ASSUME NEW q, q.kind \in Kinds, NEW r, r.bytes \in Nat, NEW k
  PROVE  /\ Share(q, r, k) \in Nat /\ (k \notin GroupsIn(q, r) => Share(q, r, k) = 0)
         /\ IsFiniteSet(GroupsIn(q, r))
<1>1. PICK D : D = DOMAIN GroupsOf(q, r)
  OBVIOUS
<1>2. IsFiniteSet(D)
  <2>1. D \in SUBSET (1..2)
    BY <1>1, GroupsAreFew
  <2>2. PICK a \in Int, b \in Int : a = 1 /\ b = 2
    OBVIOUS
  <2>3. IsFiniteSet(a..b)
    BY FS_Interval
  <2> QED BY <2>1, <2>2, <2>3, FS_Subset
<1>3. SharesIn(q, r, k) \in SUBSET D
  BY <1>1 DEF SharesIn
<1>4. Cardinality(SharesIn(q, r, k)) \in Nat
  BY <1>2, <1>3, FS_Subset, FS_CardinalityType
<1>5. Share(q, r, k) \in Nat
  BY <1>4 DEF Share
<1>6. ASSUME k \notin GroupsIn(q, r) PROVE Share(q, r, k) = 0
  <2>1. SharesIn(q, r, k) = {}
    BY <1>6 DEF SharesIn, GroupsIn
  <2> QED BY <2>1, FS_EmptySet DEF Share
<1>7. IsFiniteSet(GroupsIn(q, r))
  <2>1. PICK T : T = GroupsIn(q, r)
    OBVIOUS
  <2>2. PICK f : f = [i \in D |-> GroupsOf(q, r)[i]]
    OBVIOUS
  <2>3. f \in [D -> T] /\ \A y \in T : \E i \in D : f[i] = y
    BY <1>1, <2>1, <2>2 DEF GroupsIn
  <2> QED BY <1>2, <2>1, <2>3, ImageIsFinite
<1> QED BY <1>5, <1>6, <1>7

(* The bytes of a group are the sum of the shares.                         *)
LEMMA BytesAreWeighed ==
  ASSUME NEW q, NEW k, NEW S, IsFiniteSet(S), NEW w, \A r \in S : w[r] = Share(q, r, k)
  PROVE  Bytes(q, S, k) = Weighed(w, S)
<1>1. Bytes(q, S, k) =
        (CHOOSE f : f = [s \in SUBSET S |->
                           IF s = {} THEN 0 ELSE Share(q, Pick(s), k) + f[s \ {Pick(s)}]])[S]
  BY Zenon DEF Bytes, MapThenSumSet, MapThenFoldSet, Pick, Share, SharesIn
<1>2. ASSUME NEW f
      PROVE  Adds(f, w, S) <=>
               f = [s \in SUBSET S |-> IF s = {} THEN 0 ELSE Share(q, Pick(s), k) + f[s \ {Pick(s)}]]
  <2>1. \A s \in SUBSET S : s # {} => w[Pick(s)] = Share(q, Pick(s), k)
    BY Picked
  <2>2. \A s \in SUBSET S :
          (IF s = {} THEN 0 ELSE w[Pick(s)] + f[s \ {Pick(s)}])
            = (IF s = {} THEN 0 ELSE Share(q, Pick(s), k) + f[s \ {Pick(s)}])
    BY <2>1
  <2>3. [s \in SUBSET S |-> IF s = {} THEN 0 ELSE w[Pick(s)] + f[s \ {Pick(s)}]]
          = [s \in SUBSET S |-> IF s = {} THEN 0 ELSE Share(q, Pick(s), k) + f[s \ {Pick(s)}]]
    BY <2>2
  <2> QED BY <2>3 DEF Adds
<1>3. PICK g : g = CHOOSE f : f = [s \in SUBSET S |->
                           IF s = {} THEN 0 ELSE Share(q, Pick(s), k) + f[s \ {Pick(s)}]]
  OBVIOUS
<1>4. PICK it : Adds(it, w, S)
  BY AddsExists
<1>5. it = [s \in SUBSET S |-> IF s = {} THEN 0 ELSE Share(q, Pick(s), k) + it[s \ {Pick(s)}]]
  BY <1>2, <1>4
<1>6. g = [s \in SUBSET S |-> IF s = {} THEN 0 ELSE Share(q, Pick(s), k) + g[s \ {Pick(s)}]]
  BY <1>3, <1>5
<1>7. Adds(g, w, S)
  BY <1>2, <1>6
<1>8. Weighed(w, S) = g[S]
  BY <1>7, WeighedAdds
<1> QED BY <1>1, <1>3, <1>8

(* The bytes of a group are a number, more with more rows, and none if no  *)
(* row counts for it.                                                      *)
LEMMA BytesGrow ==
  ASSUME NEW q, q.kind \in Kinds, NEW k, NEW S, SoundRows(S), NEW T \in SUBSET S
  PROVE  /\ Bytes(q, T, k) \in Nat /\ Bytes(q, S, k) \in Nat
         /\ Bytes(q, T, k) <= Bytes(q, S, k)
         /\ k \notin Keys(q, S) => Bytes(q, S, k) = 0
<1>1. PICK w : w = [r \in S |-> Share(q, r, k)]
  OBVIOUS
<1>2. \A r \in S : w[r] = Share(q, r, k) /\ w[r] \in Nat /\ r.bytes \in Nat
  BY <1>1, SharesAreNumbers DEF SoundRows
<1>3. IsFiniteSet(S) /\ IsFiniteSet(T)
  BY FS_Subset DEF SoundRows
<1>4. Bytes(q, S, k) = Weighed(w, S) /\ Bytes(q, T, k) = Weighed(w, T)
  BY <1>2, <1>3, BytesAreWeighed
<1>5. Weighed(w, S) \in Nat /\ Weighed(w, T) \in Nat /\ Weighed(w, T) <= Weighed(w, S)
  BY <1>2, <1>3, SumIsNumber, SumOfPart
<1>6. ASSUME k \notin Keys(q, S) PROVE Weighed(w, S) = 0
  <2>1. \A r \in S : k \notin GroupsIn(q, r)
    BY <1>6 DEF Keys, GroupsIn
  <2>2. \A r \in S : w[r] = 0
    BY <1>2, <2>1, SharesAreNumbers
  <2> QED BY <1>3, <2>2, SumOfZeros
<1> QED BY <1>4, <1>5, <1>6

(* The groups of rows are finitely many, and more with more rows.          *)
LEMMA KeysAreFinite ==
  ASSUME NEW q, q.kind \in Kinds, NEW S, SoundRows(S)
  PROVE  IsFiniteSet(Keys(q, S)) /\ \A T \in SUBSET S : Keys(q, T) \subseteq Keys(q, S)
<1>1. PICK A : A = [r \in S |-> GroupsIn(q, r)]
  OBVIOUS
<1>2. PICK v : v = [r \in S |-> Cardinality(A[r])]
  OBVIOUS
<1>3. \A r \in S : IsFiniteSet(A[r])
  BY <1>1, SharesAreNumbers DEF SoundRows
<1>4. \A r \in S : v[r] = Cardinality(A[r])
  BY <1>2
<1>5. IsFiniteSet(UnionOf(A, S))
  BY <1>3, <1>4, CountOfUnion DEF SoundRows
<1>6. Keys(q, S) = UnionOf(A, S)
  <2>1. \A r \in S : A[r] = {GroupsOf(q, r)[i] : i \in DOMAIN GroupsOf(q, r)}
    BY <1>1 DEF GroupsIn
  <2> QED BY <2>1 DEF Keys, UnionOf
<1>7. \A T \in SUBSET S : Keys(q, T) \subseteq Keys(q, S)
  BY DEF Keys
<1> QED BY <1>5, <1>6, <1>7

(* A part is part of what it is of: its rows are sound.                    *)
LEMMA PartsAreSound ==
  ASSUME NEW S, SoundRows(S), NEW T \in SUBSET S
  PROVE  SoundRows(T)
BY FS_Subset DEF SoundRows

(* What was merged is the sum of what the parts gave.                      *)
LEMMA MergedIsWeighed ==
  ASSUME NEW q, NEW parts, NEW k, NEW I, I = Contributing(parts, k), IsFiniteSet(I),
         k \in DOMAIN Merge(q, parts),
         NEW v, \A i \in I : v[i] = Bytes(q, parts[i].rows, k)
  PROVE  Merge(q, parts)[k] = Weighed(v, I)
<1>1. Merge(q, parts)[k] = MapThenSumSet(LAMBDA i : Bytes(q, parts[i].rows, k), I)
  BY Zenon DEF Merge
<1>2. Merge(q, parts)[k] =
        (CHOOSE f : f = [s \in SUBSET I |->
                           IF s = {} THEN 0 ELSE Bytes(q, parts[Pick(s)].rows, k) + f[s \ {Pick(s)}]])[I]
  BY <1>1, Zenon DEF MapThenSumSet, MapThenFoldSet, Pick
<1>3. ASSUME NEW f
      PROVE  Adds(f, v, I) <=>
               f = [s \in SUBSET I |->
                      IF s = {} THEN 0 ELSE Bytes(q, parts[Pick(s)].rows, k) + f[s \ {Pick(s)}]]
  <2>1. \A s \in SUBSET I : s # {} => v[Pick(s)] = Bytes(q, parts[Pick(s)].rows, k)
    BY Picked
  <2>2. \A s \in SUBSET I :
          (IF s = {} THEN 0 ELSE v[Pick(s)] + f[s \ {Pick(s)}])
            = (IF s = {} THEN 0 ELSE Bytes(q, parts[Pick(s)].rows, k) + f[s \ {Pick(s)}])
    BY <2>1
  <2>3. [s \in SUBSET I |-> IF s = {} THEN 0 ELSE v[Pick(s)] + f[s \ {Pick(s)}]]
          = [s \in SUBSET I |-> IF s = {} THEN 0 ELSE Bytes(q, parts[Pick(s)].rows, k) + f[s \ {Pick(s)}]]
    BY <2>2
  <2> QED BY <2>3 DEF Adds
<1>4. PICK g : g = CHOOSE f : f = [s \in SUBSET I |->
                      IF s = {} THEN 0 ELSE Bytes(q, parts[Pick(s)].rows, k) + f[s \ {Pick(s)}]]
  OBVIOUS
<1>5. PICK it : Adds(it, v, I)
  BY AddsExists
<1>6. it = [s \in SUBSET I |->
                      IF s = {} THEN 0 ELSE Bytes(q, parts[Pick(s)].rows, k) + it[s \ {Pick(s)}]]
  BY <1>3, <1>5
<1>7. g = [s \in SUBSET I |->
                      IF s = {} THEN 0 ELSE Bytes(q, parts[Pick(s)].rows, k) + g[s \ {Pick(s)}]]
  BY <1>4, <1>6
<1>8. Adds(g, v, I)
  BY <1>3, <1>7
<1>9. Weighed(v, I) = g[I]
  BY <1>8, WeighedAdds
<1> QED BY <1>2, <1>4, <1>9

(* So the merged bytes of a group are those of the rows of all parts that  *)
(* gave the group, for a row is in one of them only: no more than there    *)
(* are, and all that the rows of complete parts add up to.                 *)
LEMMA MergedIsTrue ==
  ASSUME NEW q, q.kind \in Kinds, NEW S, SoundRows(S), NEW parts, PiecesOf(q, parts, S),
         NEW k \in DOMAIN Merge(q, parts)
  PROVE  /\ Merge(q, parts)[k] \in Nat /\ Merge(q, parts)[k] <= Bytes(q, S, k)
         /\ \A D \in SUBSET S :
              /\ \A i \in DOMAIN parts : parts[i].keys = Keys(q, parts[i].rows)
              /\ \A r \in D : \E i \in DOMAIN parts : r \in parts[i].rows
              => Merge(q, parts)[k] >= Bytes(q, D, k)
<1>1. PICK I : I = Contributing(parts, k)
  OBVIOUS
<1>2. /\ IsFiniteSet(DOMAIN parts) /\ I \in SUBSET DOMAIN parts /\ IsFiniteSet(I)
  BY <1>1, FS_Subset DEF PiecesOf, Contributing
<1>3. PICK A : A = [i \in DOMAIN parts |-> parts[i].rows]
  OBVIOUS
<1>4. /\ \A i \in DOMAIN parts : A[i] = parts[i].rows /\ A[i] \in SUBSET S /\ SoundRows(A[i]) /\ IsFiniteSet(A[i])
      /\ \A i, j \in DOMAIN parts : i # j => A[i] \cap A[j] = {}
  <2>1. \A i \in DOMAIN parts : A[i] = parts[i].rows /\ A[i] \in SUBSET S
    BY <1>3 DEF PiecesOf
  <2>2. \A i \in DOMAIN parts : SoundRows(A[i]) /\ IsFiniteSet(A[i])
    BY <2>1, PartsAreSound DEF SoundRows
  <2> QED BY <2>1, <2>2 DEF PiecesOf
<1>5. PICK v : v = [i \in I |-> Bytes(q, A[i], k)]
  OBVIOUS
<1>6. PICK w : w = [r \in S |-> Share(q, r, k)]
  OBVIOUS
<1>7. \A r \in S : w[r] = Share(q, r, k) /\ w[r] \in Nat
  BY <1>6, SharesAreNumbers DEF SoundRows
<1>8. \A i \in I : v[i] = Weighed(w, A[i]) /\ v[i] = Bytes(q, parts[i].rows, k)
  <2>1. SUFFICES ASSUME NEW i \in I PROVE v[i] = Weighed(w, A[i]) /\ v[i] = Bytes(q, parts[i].rows, k)
    OBVIOUS
  <2>2. IsFiniteSet(A[i]) /\ \A r \in A[i] : w[r] = Share(q, r, k)
    BY <1>2, <1>4, <1>7
  <2>3. Bytes(q, A[i], k) = Weighed(w, A[i])
    BY <2>2, BytesAreWeighed
  <2> QED BY <1>2, <1>4, <1>5, <2>3
<1>9. PICK U : U = UnionOf(A, I)
  OBVIOUS
<1>10. Weighed(v, I) = Weighed(w, U)
  BY <1>2, <1>4, <1>7, <1>8, <1>9, SumOfUnion
<1>11. U \in SUBSET S
  BY <1>2, <1>4, <1>9 DEF UnionOf
<1>12. Weighed(w, U) = Bytes(q, U, k)
  BY <1>7, <1>11, BytesAreWeighed, PartsAreSound DEF SoundRows
<1>13. Merge(q, parts)[k] = Bytes(q, U, k)
  BY <1>1, <1>2, <1>8, <1>10, <1>12, MergedIsWeighed
<1>14. Bytes(q, U, k) \in Nat /\ Bytes(q, U, k) <= Bytes(q, S, k)
  BY <1>11, BytesGrow
<1>15. ASSUME NEW D \in SUBSET S,
              \A i \in DOMAIN parts : parts[i].keys = Keys(q, parts[i].rows),
              \A r \in D : \E i \in DOMAIN parts : r \in parts[i].rows
       PROVE  Bytes(q, U, k) >= Bytes(q, D, k)
  <2>1. PICK E : E = D \cap U
    OBVIOUS
  <2>2. PICK F : F = D \ U
    OBVIOUS
  <2>3. E \in SUBSET U /\ E \in SUBSET S /\ F \in SUBSET S /\ SoundRows(U) /\ SoundRows(E) /\ SoundRows(F)
    BY <1>11, <2>1, <2>2, PartsAreSound
  <2>4. Bytes(q, E, k) \in Nat /\ Bytes(q, U, k) \in Nat /\ Bytes(q, E, k) <= Bytes(q, U, k)
    BY <2>3, BytesGrow
  <2>5. Bytes(q, F, k) = 0
    <3>1. ASSUME NEW r \in F, k \in GroupsIn(q, r) PROVE FALSE
      <4>1. PICK i \in DOMAIN parts : r \in parts[i].rows
        BY <1>15, <2>2
      <4>2. k \in parts[i].keys
        BY <1>15, <3>1, <4>1 DEF Keys, GroupsIn
      <4>3. i \in I
        BY <1>1, <4>2 DEF Contributing
      <4>4. r \in A[i]
        BY <1>4, <4>1
      <4>5. r \in U
        BY <1>9, <4>3, <4>4 DEF UnionOf
      <4> QED BY <2>2, <4>5
    <3>2. k \notin Keys(q, F)
      BY <3>1 DEF Keys, GroupsIn
    <3> QED BY <2>3, <3>2, BytesGrow
  <2>6. Bytes(q, D, k) = Bytes(q, E, k) + Bytes(q, F, k)
    <3>1. E \cup F = D /\ E \cap F = {} /\ IsFiniteSet(E) /\ IsFiniteSet(F) /\ IsFiniteSet(D)
      BY <2>1, <2>2, FS_Subset DEF SoundRows
    <3>2. /\ \A r \in E \cup F : w[r] \in Nat
          /\ \A r \in D : w[r] = Share(q, r, k)
      BY <1>7, <2>3
    <3>3. Weighed(w, E \cup F) = Weighed(w, E) + Weighed(w, F)
      BY <3>1, <3>2, SumOfBoth
    <3>4. Bytes(q, D, k) = Weighed(w, D)
      BY <3>1, <3>2, BytesAreWeighed
    <3>5. Bytes(q, E, k) = Weighed(w, E) /\ Bytes(q, F, k) = Weighed(w, F)
      BY <3>1, <3>2, BytesAreWeighed
    <3> QED BY <3>1, <3>3, <3>4, <3>5
  <2> QED BY <2>4, <2>5, <2>6
<1> QED BY <1>13, <1>14, <1>15

Reported(q, K) == IF q.kind # "devices" \/ KnownDevices = {} THEN K ELSE K \cap KnownDevices
(* The devices that are reported: all, or the known ones.                  *)
LEMMA KnownAreReported ==
  ASSUME NEW q, NEW K, NEW sums, DOMAIN sums = K
  PROVE  /\ DOMAIN FilterToKnown(q, sums) = Reported(q, K)
         /\ \A k \in Reported(q, K) : FilterToKnown(q, sums)[k] = sums[k]
BY DEF FilterToKnown, Reported

(* The smaller of two numbers.                                             *)
LEMMA SmallerOf ==
  ASSUME NEW a \in Nat, NEW b \in Nat
  PROVE  Min({a, b}) = IF a <= b THEN a ELSE b
<1>1. Min({a, b}) \in {a, b} /\ \A y \in {a, b} : Min({a, b}) <= y
  BY Least
<1> QED BY <1>1

(* The largest of sums that are true of the rows say what is true of them, *)
(* and those that were cut off are smaller than all that are left.         *)
LEMMA LimitedIsTrue ==
  ASSUME NEW q, q.kind \in TopKinds, q.limit \in Nat, NEW S, SoundRows(S),
         NEW sums, IsFiniteSet(DOMAIN sums),
         \A k \in DOMAIN sums : sums[k] \in Nat /\ sums[k] <= Bytes(q, S, k),
         NEW answer \in SortAndLimit(sums, q.limit)
  PROVE  /\ Numbers(q, answer) /\ InventsNothing(q, S, answer)
         /\ \A D \in SUBSET S :
              (\A k \in Reported(q, Keys(q, D)) : k \in DOMAIN sums /\ sums[k] >= Bytes(q, D, k))
              => MissesNothing(q, D, answer)
<1>1. PICK K \in SUBSET DOMAIN sums :
        /\ answer = [k \in K |-> sums[k]]
        /\ Cardinality(K) = Min({q.limit, Cardinality(DOMAIN sums)})
        /\ \A k \in K, l \in DOMAIN sums \ K : sums[k] >= sums[l]
  BY DEF SortAndLimit
<1>2. DOMAIN answer = K /\ \A k \in K : answer[k] = sums[k]
  BY <1>1
<1>3. Numbers(q, answer) /\ InventsNothing(q, S, answer)
  <2>1. q.kind \in TopKinds \cup SeriesKinds
    OBVIOUS
  <2>2. \A k \in DOMAIN answer : answer[k] \in Nat /\ answer[k] <= Bytes(q, S, k)
    BY <1>2
  <2> QED BY <2>1, <2>2 DEF Numbers, InventsNothing, TopKinds, SeriesKinds
<1>4. ASSUME NEW D \in SUBSET S,
             \A k \in Reported(q, Keys(q, D)) : k \in DOMAIN sums /\ sums[k] >= Bytes(q, D, k)
      PROVE  MissesNothing(q, D, answer)
  <2>1. PICK zeros : zeros = [l \in Keys(q, D) |-> 0]
    OBVIOUS
  <2>2. DOMAIN FilterToKnown(q, zeros) = Reported(q, Keys(q, D))
    <3>1. DOMAIN zeros = Keys(q, D)
      BY <2>1
    <3> QED BY <3>1, KnownAreReported
  <2>3. ASSUME NEW k \in DOMAIN FilterToKnown(q, zeros)
        PROVE  IF k \in DOMAIN answer THEN answer[k] >= Bytes(q, D, k)
               ELSE /\ q.kind \in TopKinds /\ Cardinality(DOMAIN answer) = q.limit
                    /\ \A l \in DOMAIN answer : answer[l] >= Bytes(q, D, k)
    <3>1. k \in DOMAIN sums /\ sums[k] >= Bytes(q, D, k) /\ sums[k] \in Nat
      BY <1>4, <2>2
    <3>2. CASE k \in K
      BY <1>2, <3>1, <3>2
    <3>3. CASE k \notin K
      <4>1. Cardinality(K) # Cardinality(DOMAIN sums)
        BY <3>1, <3>3, PartCounts
      <4>2. Cardinality(K) = q.limit
        <5>1. PICK n \in Nat : n = Cardinality(DOMAIN sums)
          BY FS_CardinalityType
        <5>2. Min({q.limit, n}) = IF q.limit <= n THEN q.limit ELSE n
          BY SmallerOf
        <5> QED BY <1>1, <4>1, <5>1, <5>2
      <4>3. Bytes(q, D, k) \in Nat
        <5>1. q.kind \in Kinds
          BY DEF Kinds
        <5> QED BY <5>1, BytesGrow
      <4>4. ASSUME NEW l \in K PROVE sums[l] >= Bytes(q, D, k)
        <5>1. sums[l] >= sums[k] /\ sums[l] \in Nat
          BY <1>1, <3>1, <3>3
        <5> QED BY <3>1, <4>3, <5>1
      <4> QED BY <1>2, <3>3, <4>2, <4>4
    <3> QED BY <3>2, <3>3
  <2> QED BY <2>1, <2>3 DEF MissesNothing, TopKinds, SeriesKinds
<1> QED BY <1>3, <1>4

(* Sums over parts, before they are limited.                               *)
LEMMA SumsAreTrue ==
  ASSUME NEW q, q.kind \in TopKinds \cup SeriesKinds, NEW S, SoundRows(S),
         NEW parts, PiecesOf(q, parts, S), NEW sums, sums = Merge(q, parts)
  PROVE  /\ IsFiniteSet(DOMAIN sums)
         /\ \A k \in DOMAIN sums : sums[k] \in Nat /\ sums[k] <= Bytes(q, S, k)
         /\ \A D \in SUBSET S :
              Uncut(q, parts) /\ (\A r \in D : InParts(q, parts, r))
              => \A k \in Keys(q, D) : k \in DOMAIN sums /\ sums[k] >= Bytes(q, D, k)
<1>1. q.kind \in Kinds /\ q.kind # "records"
  BY DEF Kinds, TopKinds, SeriesKinds
<1>2. DOMAIN sums = UNION {parts[i].keys : i \in DOMAIN parts}
  BY Zenon DEF Merge
<1>3. IsFiniteSet(DOMAIN sums)
  <2>1. DOMAIN sums \in SUBSET Keys(q, S)
    BY <1>2 DEF PiecesOf, Keys
  <2> QED BY <1>1, <2>1, KeysAreFinite, FS_Subset
<1>4. \A k \in DOMAIN sums : sums[k] \in Nat /\ sums[k] <= Bytes(q, S, k)
  BY <1>1, MergedIsTrue
<1>5. ASSUME NEW D \in SUBSET S, Uncut(q, parts), \A r \in D : InParts(q, parts, r), NEW k \in Keys(q, D)
      PROVE  k \in DOMAIN sums /\ sums[k] >= Bytes(q, D, k)
  <2>1. /\ \A i \in DOMAIN parts : parts[i].keys = Keys(q, parts[i].rows)
        /\ \A r \in D : \E i \in DOMAIN parts : r \in parts[i].rows
    BY <1>1, <1>5 DEF Uncut, InParts, GaveWay
  <2>2. k \in DOMAIN sums
    <3>1. PICK r \in D : k \in GroupsIn(q, r)
      BY <1>5 DEF Keys, GroupsIn
    <3>2. PICK i \in DOMAIN parts : r \in parts[i].rows
      BY <2>1
    <3>3. k \in Keys(q, parts[i].rows)
      BY <3>1, <3>2 DEF Keys, GroupsIn
    <3> QED BY <1>2, <2>1, <3>3
  <2> QED BY <1>1, <2>1, <2>2, MergedIsTrue
<1> QED BY <1>3, <1>4, <1>5

(* Tops, of all groups or, of devices, of the known ones.                  *)
LEMMA TopsAreTrue ==
  ASSUME NEW q, q.kind \in TopKinds, q.limit \in Nat, NEW S, SoundRows(S),
         NEW parts, PiecesOf(q, parts, S),
         NEW answer \in SortAndLimit(FilterToKnown(q, Merge(q, parts)), q.limit)
                        \cup SortAndLimit(Merge(q, parts), q.limit)
  PROVE  /\ Numbers(q, answer) /\ InventsNothing(q, S, answer)
         /\ \A D \in SUBSET S :
              Uncut(q, parts) /\ (\A r \in D : InParts(q, parts, r)) => MissesNothing(q, D, answer)
<1>1. PICK merged : merged = Merge(q, parts)
  OBVIOUS
<1>2. /\ IsFiniteSet(DOMAIN merged)
      /\ \A k \in DOMAIN merged : merged[k] \in Nat /\ merged[k] <= Bytes(q, S, k)
      /\ \A D \in SUBSET S :
              Uncut(q, parts) /\ (\A r \in D : InParts(q, parts, r))
              => \A k \in Keys(q, D) : k \in DOMAIN merged /\ merged[k] >= Bytes(q, D, k)
  BY <1>1, SumsAreTrue
<1>3. PICK sums : answer \in SortAndLimit(sums, q.limit) /\ sums \in {merged, FilterToKnown(q, merged)}
  BY <1>1
<1>4. /\ DOMAIN sums \in {DOMAIN merged, Reported(q, DOMAIN merged)}
      /\ \A k \in DOMAIN sums : sums[k] = merged[k]
  BY <1>3, KnownAreReported
<1>5. \A k \in DOMAIN merged : k \in Reported(q, DOMAIN merged) => k \in DOMAIN sums
  BY <1>4
<1>6. /\ IsFiniteSet(DOMAIN sums)
      /\ \A k \in DOMAIN sums : sums[k] \in Nat /\ sums[k] <= Bytes(q, S, k)
  <2>1. DOMAIN sums \in SUBSET DOMAIN merged
    BY <1>4 DEF Reported
  <2> QED BY <1>2, <1>4, <2>1, FS_Subset
<1>7. ASSUME NEW D \in SUBSET S, Uncut(q, parts), \A r \in D : InParts(q, parts, r)
      PROVE  \A k \in Reported(q, Keys(q, D)) : k \in DOMAIN sums /\ sums[k] >= Bytes(q, D, k)
  <2>1. SUFFICES ASSUME NEW k \in Reported(q, Keys(q, D))
                 PROVE  k \in DOMAIN sums /\ sums[k] >= Bytes(q, D, k)
    OBVIOUS
  <2>2. k \in Keys(q, D)
    BY DEF Reported
  <2>3. k \in DOMAIN merged /\ merged[k] >= Bytes(q, D, k)
    BY <1>2, <1>7, <2>2
  <2>4. k \in Reported(q, DOMAIN merged)
    BY <2>3 DEF Reported
  <2> QED BY <1>4, <1>5, <2>3, <2>4
<1> QED BY <1>3, <1>6, <1>7, LimitedIsTrue

(* Time series, which are not limited.                                     *)
LEMMA SeriesAreTrue ==
  ASSUME NEW q, q.kind \in SeriesKinds, NEW S, SoundRows(S),
         NEW parts, PiecesOf(q, parts, S), NEW answer, answer = Merge(q, parts)
  PROVE  /\ Numbers(q, answer) /\ InventsNothing(q, S, answer)
         /\ \A D \in SUBSET S :
              Uncut(q, parts) /\ (\A r \in D : InParts(q, parts, r)) => MissesNothing(q, D, answer)
<1>1. q.kind \in TopKinds \cup SeriesKinds
  OBVIOUS
<1>2. /\ \A k \in DOMAIN answer : answer[k] \in Nat /\ answer[k] <= Bytes(q, S, k)
      /\ \A D \in SUBSET S :
              Uncut(q, parts) /\ (\A r \in D : InParts(q, parts, r))
              => \A k \in Keys(q, D) : k \in DOMAIN answer /\ answer[k] >= Bytes(q, D, k)
  BY <1>1, SumsAreTrue
<1>3. Numbers(q, answer) /\ InventsNothing(q, S, answer)
  BY <1>1, <1>2 DEF Numbers, InventsNothing, TopKinds, SeriesKinds
<1>4. ASSUME NEW D \in SUBSET S, Uncut(q, parts), \A r \in D : InParts(q, parts, r)
      PROVE  MissesNothing(q, D, answer)
  <2>1. PICK zeros : zeros = [l \in Keys(q, D) |-> 0]
    OBVIOUS
  <2>2. DOMAIN FilterToKnown(q, zeros) \subseteq Keys(q, D)
    <3>1. DOMAIN zeros = Keys(q, D)
      BY <2>1
    <3>2. DOMAIN FilterToKnown(q, zeros) = Reported(q, Keys(q, D))
      BY <3>1, KnownAreReported
    <3> QED BY <3>2 DEF Reported
  <2>3. \A k \in DOMAIN FilterToKnown(q, zeros) : k \in DOMAIN answer /\ answer[k] >= Bytes(q, D, k)
    BY <1>2, <1>4, <2>2
  <2> QED BY <1>1, <2>1, <2>3 DEF MissesNothing, TopKinds, SeriesKinds
<1> QED BY <1>3, <1>4

(* What is left out of the newest rows gave way to as many newer ones as   *)
(* are asked for.                                                          *)
LEMMA NewestAreNewest ==
  ASSUME NEW limit \in Nat, NEW S, IsFiniteSet(S), NEW T \in Newest(limit, S)
  PROVE  /\ T \in SUBSET S
         /\ \A r \in S \ T : Cardinality(T) = limit /\ \A g \in T : g.minute >= r.minute
<1>1. /\ T \in SUBSET S /\ Cardinality(T) = Min({limit, Cardinality(S)})
      /\ \A g \in T, r \in S \ T : g.minute >= r.minute
  BY DEF Newest
<1>2. PICK n \in Nat : n = Cardinality(S)
  BY FS_CardinalityType
<1>3. Min({limit, n}) = IF limit <= n THEN limit ELSE n
  BY SmallerOf
<1>4. ASSUME NEW r \in S \ T PROVE Cardinality(T) = limit
  <2>1. Cardinality(T) # n
    BY <1>1, <1>2, PartCounts
  <2> QED BY <1>1, <1>2, <1>3, <2>1
<1> QED BY <1>1, <1>4

(* The newest records of what the shards gave.                             *)
LEMMA RecordsAreTrue ==
  ASSUME NEW q, q.kind = "records", q.limit \in Nat, NEW S, SoundRows(S),
         NEW parts, PiecesOf(q, parts, S),
         NEW answer \in Newest(q.limit, UNION {parts[i].rows : i \in DOMAIN parts})
  PROVE  /\ Numbers(q, answer) /\ InventsNothing(q, S, answer)
         /\ \A D \in SUBSET S :
              Uncut(q, parts) /\ (\A r \in D : InParts(q, parts, r)) => MissesNothing(q, D, answer)
<1>1. PICK U : U = UNION {parts[i].rows : i \in DOMAIN parts}
  OBVIOUS
<1>2. U \in SUBSET S /\ IsFiniteSet(U) /\ SoundRows(U)
  BY <1>1, PartsAreSound DEF PiecesOf, SoundRows
<1>3. /\ answer \in SUBSET U /\ IsFiniteSet(answer)
      /\ \A r \in U \ answer : Cardinality(answer) = q.limit /\ \A g \in answer : g.minute >= r.minute
  BY <1>1, <1>2, NewestAreNewest, FS_Subset
<1>4. InventsNothing(q, S, answer)
  BY <1>2, <1>3 DEF InventsNothing, TopKinds, SeriesKinds
<1>5. Numbers(q, answer)
  BY DEF Numbers, TopKinds, SeriesKinds
<1>6. ASSUME NEW D \in SUBSET S, \A r \in D : InParts(q, parts, r), ~(D \subseteq answer)
      PROVE  Cardinality(answer) = q.limit /\ \A g \in answer, r \in D \ answer : g.minute >= r.minute
  <2>1. ASSUME NEW r \in D \ answer
        PROVE  Cardinality(answer) = q.limit /\ \A g \in answer : g.minute >= r.minute
    <3>1. CASE r \in U
      BY <1>3, <3>1
    <3>2. CASE r \notin U
      <4>1. PICK i \in DOMAIN parts : GaveWay(q, parts[i].rows, r)
        BY <1>1, <1>6, <2>1, <3>2 DEF InParts
      <4>2. PICK T \in SUBSET U : T = parts[i].rows
        BY <1>1
      <4>3. Cardinality(T) = q.limit /\ \A g \in T : g.minute >= r.minute
        BY <4>1, <4>2 DEF GaveWay
      <4>4. Cardinality(answer) = q.limit
        <5>1. CASE T \subseteq answer
          <6>1. T \in SUBSET answer
            BY <5>1
          <6>2. Cardinality(T) <= Cardinality(answer) /\ Cardinality(answer) \in Nat
            BY <1>3, <6>1, PartCounts
          <6>3. CASE answer = U
            <7>1. Cardinality(answer) <= q.limit
              <8>1. Cardinality(answer) = Min({q.limit, Cardinality(U)})
                BY <1>1 DEF Newest
              <8>2. PICK n \in Nat : n = Cardinality(U)
                BY <1>2, FS_CardinalityType
              <8>3. Min({q.limit, n}) = IF q.limit <= n THEN q.limit ELSE n
                BY SmallerOf
              <8> QED BY <8>1, <8>2, <8>3
            <7> QED BY <4>3, <6>2, <7>1
          <6>4. CASE answer # U
            BY <1>3, <6>4
          <6> QED BY <6>3, <6>4
        <5>2. CASE ~(T \subseteq answer)
          BY <1>3, <5>2
        <5> QED BY <5>1, <5>2
      <4>5. ASSUME NEW g \in answer PROVE g.minute >= r.minute
        <5>1. CASE g \in T
          BY <4>3, <5>1
        <5>2. CASE g \notin T
          <6>1. PICK h \in T : h \notin answer
            <7>1. CASE T \subseteq answer
              <8>1. T \in SUBSET answer
                BY <7>1
              <8> QED BY <1>3, <4>3, <4>4, <5>2, <8>1, PartCounts
            <7> QED BY <7>1
          <6>2. g.minute >= h.minute /\ h.minute >= r.minute
            BY <1>3, <4>3, <6>1
          <6>3. g.minute \in Nat /\ h.minute \in Nat /\ r.minute \in Nat
            BY <1>2, <1>3, <2>1 DEF SoundRows
          <6> QED BY <6>2, <6>3
        <5> QED BY <5>1, <5>2
      <4> QED BY <4>4, <4>5
    <3> QED BY <3>1, <3>2
  <2> QED BY <1>6, <2>1
<1>7. ASSUME NEW D \in SUBSET S, \A r \in D : InParts(q, parts, r)
      PROVE  MissesNothing(q, D, answer)
  BY <1>6, <1>7 DEF MissesNothing, TopKinds, SeriesKinds
<1> QED BY <1>4, <1>5, <1>7

Volume(S) == MapThenSumSet(LAMBDA r : r.bytes, S)
(* The volume of rows is a sum.                                            *)
LEMMA VolumeIsWeighed ==
  ASSUME NEW S, IsFiniteSet(S), NEW w, \A r \in S : w[r] = r.bytes
  PROVE  Volume(S) = Weighed(w, S)
<1>1. Volume(S) =
        (CHOOSE f : f = [s \in SUBSET S |->
                           IF s = {} THEN 0 ELSE Pick(s).bytes + f[s \ {Pick(s)}]])[S]
  BY Zenon DEF Volume, MapThenSumSet, MapThenFoldSet, Pick
<1>2. ASSUME NEW f
      PROVE  Adds(f, w, S) <=>
               f = [s \in SUBSET S |-> IF s = {} THEN 0 ELSE Pick(s).bytes + f[s \ {Pick(s)}]]
  <2>1. \A s \in SUBSET S : s # {} => w[Pick(s)] = Pick(s).bytes
    BY Picked
  <2>2. \A s \in SUBSET S :
          (IF s = {} THEN 0 ELSE w[Pick(s)] + f[s \ {Pick(s)}])
            = (IF s = {} THEN 0 ELSE Pick(s).bytes + f[s \ {Pick(s)}])
    BY <2>1
  <2>3. [s \in SUBSET S |-> IF s = {} THEN 0 ELSE w[Pick(s)] + f[s \ {Pick(s)}]]
          = [s \in SUBSET S |-> IF s = {} THEN 0 ELSE Pick(s).bytes + f[s \ {Pick(s)}]]
    BY <2>2
  <2> QED BY <2>3 DEF Adds
<1>3. PICK g : g = CHOOSE f : f = [s \in SUBSET S |->
                           IF s = {} THEN 0 ELSE Pick(s).bytes + f[s \ {Pick(s)}]]
  OBVIOUS
<1>4. PICK it : Adds(it, w, S)
  BY AddsExists
<1>5. it = [s \in SUBSET S |-> IF s = {} THEN 0 ELSE Pick(s).bytes + it[s \ {Pick(s)}]]
  BY <1>2, <1>4
<1>6. g = [s \in SUBSET S |-> IF s = {} THEN 0 ELSE Pick(s).bytes + g[s \ {Pick(s)}]]
  BY <1>3, <1>5
<1>7. Adds(g, w, S)
  BY <1>2, <1>6
<1>8. Weighed(w, S) = g[S]
  BY <1>7, WeighedAdds
<1> QED BY <1>1, <1>3, <1>8

(* More rows have no smaller volume and no fewer peers and minutes.        *)
LEMMA VolumesGrow ==
  ASSUME NEW S, SoundRows(S), NEW T \in SUBSET S
  PROVE  /\ Volume(T) <= Volume(S)
         /\ IsFiniteSet(Peers(S)) /\ Cardinality(Peers(T)) <= Cardinality(Peers(S))
         /\ IsFiniteSet(Minutes(S)) /\ Cardinality(Minutes(T)) <= Cardinality(Minutes(S))
         /\ Cardinality(Minutes(S)) \in Nat /\ Volume(S) \in Nat /\ Volume(T) \in Nat
         /\ Cardinality(Peers(S)) \in Nat /\ Cardinality(Peers(T)) \in Nat
<1>1. PICK w : w = [r \in S |-> r.bytes]
  OBVIOUS
<1>2. IsFiniteSet(S) /\ IsFiniteSet(T) /\ \A r \in S : w[r] = r.bytes /\ w[r] \in Nat
  BY <1>1, FS_Subset DEF SoundRows
<1>3. Volume(S) = Weighed(w, S) /\ Volume(T) = Weighed(w, T)
  BY <1>2, VolumeIsWeighed
<1>4. Volume(T) <= Volume(S) /\ Volume(S) \in Nat /\ Volume(T) \in Nat
  BY <1>2, <1>3, SumOfPart, SumIsNumber
<1>5. IsFiniteSet(Peers(S))
  <2>1. PICK P : P = Peers(S)
    OBVIOUS
  <2>2. PICK f : f = [r \in S |-> r.dst]
    OBVIOUS
  <2>3. f \in [S -> P] /\ \A y \in P : \E r \in S : f[r] = y
    BY <2>1, <2>2 DEF Peers
  <2> QED BY <1>2, <2>1, <2>3, ImageIsFinite
<1>6. IsFiniteSet(Minutes(S))
  <2>1. PICK P : P = Minutes(S)
    OBVIOUS
  <2>2. PICK f : f = [r \in S |-> r.minute]
    OBVIOUS
  <2>3. f \in [S -> P] /\ \A y \in P : \E r \in S : f[r] = y
    BY <2>1, <2>2 DEF Minutes
  <2> QED BY <1>2, <2>1, <2>3, ImageIsFinite
<1>7. Peers(T) \in SUBSET Peers(S) /\ Minutes(T) \in SUBSET Minutes(S)
  BY DEF Peers, Minutes
<1>8. Cardinality(Peers(S)) \in Nat /\ Cardinality(Peers(T)) \in Nat
  BY <1>5, <1>7, FS_Subset, FS_CardinalityType
<1> QED BY <1>4, <1>5, <1>6, <1>7, <1>8, PartCounts

(* The samples of a baseline, a minute and a shard each.                   *)
LEMMA SamplesAreTrue ==
  ASSUME NEW q, q.kind = "samples", NEW S, SoundRows(S),
         NEW parts, PiecesOf(q, parts, S), NEW answer, answer = GetDeviceBaselineSamples(parts)
  PROVE  /\ Numbers(q, answer) /\ InventsNothing(q, S, answer)
         /\ \A D \in SUBSET S :
              Uncut(q, parts) /\ (\A r \in D : InParts(q, parts, r)) => MissesNothing(q, D, answer)
<1>2. ASSUME NEW s \in answer
      PROVE  /\ s.bytes \in Nat /\ s.peers \in Nat
             /\ s.bytes <= Volume({r \in S : r.minute = s.minute})
             /\ s.peers <= Cardinality(Peers({r \in S : r.minute = s.minute}))
  <2>1. PICK i \in DOMAIN parts :
          s \in {[shard |-> i, minute |-> m,
                  bytes |-> MapThenSumSet(LAMBDA r : r.bytes, {r \in parts[i].rows : r.minute = m}),
                  peers |-> Cardinality(Peers({r \in parts[i].rows : r.minute = m}))] :
                    m \in Minutes(parts[i].rows)}
    BY <1>2, Zenon DEF GetDeviceBaselineSamples
  <2>6. PICK m \in Minutes(parts[i].rows) :
          s = [shard |-> i, minute |-> m,
               bytes |-> MapThenSumSet(LAMBDA r : r.bytes, {r \in parts[i].rows : r.minute = m}),
               peers |-> Cardinality(Peers({r \in parts[i].rows : r.minute = m}))]
    BY <2>1, Zenon
  <2>2. PICK T : T = {r \in parts[i].rows : r.minute = m}
    OBVIOUS
  <2>3. s.minute = m /\ s.bytes = Volume(T) /\ s.peers = Cardinality(Peers(T))
    BY <2>6, <2>2 DEF Volume
  <2>4. PICK R : R = {r \in S : r.minute = m}
    OBVIOUS
  <2>5. T \in SUBSET R /\ R \in SUBSET S /\ SoundRows(R)
    BY <2>2, <2>4, PartsAreSound DEF PiecesOf
  <2> QED BY <2>3, <2>4, <2>5, VolumesGrow
<1>1. Numbers(q, answer)
  BY <1>2 DEF Numbers, TopKinds, SeriesKinds
<1>3. InventsNothing(q, S, answer)
  BY <1>2 DEF InventsNothing, Volume, TopKinds, SeriesKinds
<1>4. ASSUME NEW D \in SUBSET S, \A r \in D : InParts(q, parts, r)
      PROVE  MissesNothing(q, D, answer)
  <2>1. ASSUME NEW r \in D PROVE \E s \in answer : s.minute = r.minute
    <3>1. PICK i \in DOMAIN parts : r \in parts[i].rows
      BY <1>4 DEF InParts, GaveWay
    <3>2. PICK m \in Minutes(parts[i].rows) : m = r.minute
      BY <3>1 DEF Minutes
    <3>3. PICK s : s = [shard |-> i, minute |-> m,
               bytes |-> MapThenSumSet(LAMBDA x : x.bytes, {x \in parts[i].rows : x.minute = m}),
               peers |-> Cardinality(Peers({x \in parts[i].rows : x.minute = m}))]
      OBVIOUS
    <3>4. s \in answer
      <4>1. s \in {[shard |-> i, minute |-> l,
                   bytes |-> MapThenSumSet(LAMBDA x : x.bytes, {x \in parts[i].rows : x.minute = l}),
                   peers |-> Cardinality(Peers({x \in parts[i].rows : x.minute = l}))] :
                     l \in Minutes(parts[i].rows)}
        BY <3>3, Zenon
      <4> QED BY <4>1, Zenon DEF GetDeviceBaselineSamples
    <3>5. s.minute = m
      BY <3>3
    <3> QED BY <3>2, <3>4, <3>5
  <2>2. Minutes(D) \subseteq {s.minute : s \in answer}
    BY <2>1 DEF Minutes
  <2> QED BY <2>2 DEF MissesNothing, TopKinds, SeriesKinds
<1> QED BY <1>1, <1>3, <1>4

(* The buckets of a history are counted shard by shard.                    *)
LEMMA BucketsAreWeighed ==
  ASSUME NEW q, NEW parts, NEW I, I = DOMAIN parts, IsFiniteSet(I),
         NEW v, \A i \in I : v[i] = Cardinality(Minutes(parts[i].rows))
  PROVE  hasObservedFlowTuple(q, parts).buckets = Weighed(v, I)
<1>1. hasObservedFlowTuple(q, parts).buckets
        = MapThenSumSet(LAMBDA i : Cardinality(Minutes(parts[i].rows)), I)
  <2>1. PICK x : x = MapThenSumSet(LAMBDA i : Cardinality(Minutes(parts[i].rows)), DOMAIN parts)
    OBVIOUS
  <2>2. \E a, b : hasObservedFlowTuple(q, parts) = [seen |-> a, buckets |-> x, first |-> b]
    BY <2>1, Zenon DEF hasObservedFlowTuple
  <2>3. hasObservedFlowTuple(q, parts).buckets = x
    BY <2>2
  <2> QED BY <2>1, <2>3
<1>2. hasObservedFlowTuple(q, parts).buckets =
        (CHOOSE f : f = [s \in SUBSET I |->
             IF s = {} THEN 0 ELSE Cardinality(Minutes(parts[Pick(s)].rows)) + f[s \ {Pick(s)}]])[I]
  BY <1>1, Zenon DEF MapThenSumSet, MapThenFoldSet, Pick
<1>3. ASSUME NEW f
      PROVE  Adds(f, v, I) <=>
               f = [s \in SUBSET I |->
                      IF s = {} THEN 0 ELSE Cardinality(Minutes(parts[Pick(s)].rows)) + f[s \ {Pick(s)}]]
  <2>1. \A s \in SUBSET I : s # {} => v[Pick(s)] = Cardinality(Minutes(parts[Pick(s)].rows))
    BY Picked
  <2>2. \A s \in SUBSET I :
          (IF s = {} THEN 0 ELSE v[Pick(s)] + f[s \ {Pick(s)}])
            = (IF s = {} THEN 0 ELSE Cardinality(Minutes(parts[Pick(s)].rows)) + f[s \ {Pick(s)}])
    BY <2>1
  <2>3. [s \in SUBSET I |-> IF s = {} THEN 0 ELSE v[Pick(s)] + f[s \ {Pick(s)}]]
          = [s \in SUBSET I |->
               IF s = {} THEN 0 ELSE Cardinality(Minutes(parts[Pick(s)].rows)) + f[s \ {Pick(s)}]]
    BY <2>2
  <2> QED BY <2>3 DEF Adds
<1>4. PICK g : g = CHOOSE f : f = [s \in SUBSET I |->
             IF s = {} THEN 0 ELSE Cardinality(Minutes(parts[Pick(s)].rows)) + f[s \ {Pick(s)}]]
  OBVIOUS
<1>5. PICK it : Adds(it, v, I)
  BY AddsExists
<1>6. it = [s \in SUBSET I |->
             IF s = {} THEN 0 ELSE Cardinality(Minutes(parts[Pick(s)].rows)) + it[s \ {Pick(s)}]]
  BY <1>3, <1>5
<1>7. g = [s \in SUBSET I |->
             IF s = {} THEN 0 ELSE Cardinality(Minutes(parts[Pick(s)].rows)) + g[s \ {Pick(s)}]]
  BY <1>4, <1>6
<1>8. Adds(g, v, I)
  BY <1>3, <1>7
<1>9. Weighed(v, I) = g[I]
  BY <1>8, WeighedAdds
<1> QED BY <1>2, <1>4, <1>9

(* Whether a destination or a port was seen, and for how long there is a   *)
(* history.                                                                *)
LEMMA SeenIsTrue ==
  ASSUME NEW q, q.kind \in {"destinationSeen", "portSeen"}, NEW S, SoundRows(S),
         NEW parts, PiecesOf(q, parts, S), NEW answer, answer = hasObservedFlowTuple(q, parts)
  PROVE  /\ Numbers(q, answer) /\ InventsNothing(q, S, answer)
         /\ \A D \in SUBSET S :
              Uncut(q, parts) /\ (\A r \in D : InParts(q, parts, r)) => MissesNothing(q, D, answer)
<1>1. PICK U : U = UNION {parts[i].rows : i \in DOMAIN parts}
  OBVIOUS
<1>2. U \in SUBSET S /\ SoundRows(U)
  BY <1>1, PartsAreSound DEF PiecesOf
<1>3. PICK first : first = IF U = {} THEN {} ELSE {Min(Minutes(U))}
  OBVIOUS
<1>4. answer.seen = (\E r \in U : SeenIn(q, r)) /\ answer.first = first
  <2>1. PICK seen : seen = (\E r \in U : SeenIn(q, r))
    OBVIOUS
  <2>2. \E b : answer = [seen |-> seen, buckets |-> b, first |-> first]
    BY <1>1, <1>3, <2>1, Zenon DEF hasObservedFlowTuple
  <2>3. answer.seen = seen /\ answer.first = first
    BY <2>2
  <2> QED BY <2>1, <2>3, Zenon
<1>5. first \subseteq Minutes(U) /\ \A r \in U : \E m \in first : m <= r.minute
  <2>1. CASE U = {}
    BY <1>3, <2>1
  <2>2. CASE U # {}
    <3>1. Minutes(U) \in SUBSET Nat /\ Minutes(U) # {} /\ \A r \in U : r.minute \in Minutes(U)
      BY <1>2, <2>2 DEF Minutes, SoundRows
    <3>2. Min(Minutes(U)) \in Minutes(U) /\ \A y \in Minutes(U) : Min(Minutes(U)) <= y
      BY <3>1, Least
    <3> QED BY <1>3, <2>2, <3>1, <3>2
  <2> QED BY <2>1, <2>2
<1>6. PICK A : A = [i \in DOMAIN parts |-> Minutes(parts[i].rows)]
  OBVIOUS
<1>7. PICK v : v = [i \in DOMAIN parts |-> Cardinality(A[i])]
  OBVIOUS
<1>8. \A i \in DOMAIN parts : IsFiniteSet(A[i]) /\ v[i] = Cardinality(A[i]) /\ v[i] \in Nat
  <2>1. SUFFICES ASSUME NEW i \in DOMAIN parts
                 PROVE  IsFiniteSet(A[i]) /\ v[i] = Cardinality(A[i]) /\ v[i] \in Nat
    OBVIOUS
  <2>2. SoundRows(parts[i].rows)
    BY PartsAreSound DEF PiecesOf
  <2> QED BY <1>6, <1>7, <2>2, VolumesGrow
<1>9. answer.buckets = Weighed(v, DOMAIN parts)
  <2>1. IsFiniteSet(DOMAIN parts)
    BY DEF PiecesOf
  <2>2. \A i \in DOMAIN parts : v[i] = Cardinality(Minutes(parts[i].rows))
    BY <1>6, <1>7
  <2>3. PICK I : I = DOMAIN parts
    OBVIOUS
  <2>4. \A i \in I : v[i] = Cardinality(Minutes(parts[i].rows))
    BY <2>2, <2>3
  <2>5. hasObservedFlowTuple(q, parts).buckets = Weighed(v, I)
    BY <2>1, <2>3, <2>4, BucketsAreWeighed
  <2> QED BY <2>3, <2>5
<1>10. Minutes(U) = UnionOf(A, DOMAIN parts)
  <2>1. ASSUME NEW m PROVE m \in Minutes(U) <=> \E i \in DOMAIN parts : m \in Minutes(parts[i].rows)
    BY <1>1 DEF Minutes
  <2>2. \A i \in DOMAIN parts : A[i] = Minutes(parts[i].rows)
    BY <1>6
  <2>3. ASSUME NEW m PROVE m \in UnionOf(A, DOMAIN parts) <=> \E i \in DOMAIN parts : m \in A[i]
    BY DEF UnionOf
  <2> QED BY <2>1, <2>2, <2>3
<1>11. Cardinality(Minutes(U)) <= answer.buckets /\ answer.buckets \in Nat
  <2>1. IsFiniteSet(DOMAIN parts)
    BY DEF PiecesOf
  <2> QED BY <1>8, <1>9, <1>10, <2>1, CountOfUnion, SumIsNumber
<1>12. Numbers(q, answer)
  BY <1>11 DEF Numbers, TopKinds, SeriesKinds
<1>13. InventsNothing(q, S, answer)
  <2>1. answer.seen => \E r \in S : SeenIn(q, r)
    BY <1>2, <1>4
  <2>2. answer.first \subseteq Minutes(S)
    BY <1>2, <1>4, <1>5 DEF Minutes
  <2> QED BY <2>1, <2>2 DEF InventsNothing, TopKinds, SeriesKinds
<1>14. ASSUME NEW D \in SUBSET S, \A r \in D : InParts(q, parts, r)
       PROVE  MissesNothing(q, D, answer)
  <2>1. D \in SUBSET U
    BY <1>1, <1>14 DEF InParts, GaveWay
  <2>2. (\E r \in D : SeenIn(q, r)) => answer.seen
    BY <1>4, <2>1
  <2>3. answer.buckets >= Cardinality(Minutes(D))
    <3>1. Cardinality(Minutes(D)) <= Cardinality(Minutes(U)) /\ Cardinality(Minutes(U)) \in Nat
      BY <1>2, <2>1, VolumesGrow
    <3>2. Cardinality(Minutes(D)) \in Nat
      BY PartsAreSound, VolumesGrow
    <3>3. PICK few, many, all : few = Cardinality(Minutes(D)) /\ many = Cardinality(Minutes(U))
                               /\ all = answer.buckets
      OBVIOUS
    <3>4. few \in Nat /\ many \in Nat /\ all \in Nat /\ few <= many /\ many <= all
      BY <1>11, <3>1, <3>2, <3>3
    <3>5. few <= all
      BY <3>4
    <3> QED BY <3>3, <3>5
  <2>4. \A r \in D : \E m \in answer.first : m <= r.minute
    BY <1>4, <1>5, <2>1
  <2> QED BY <2>2, <2>3, <2>4 DEF MissesNothing, TopKinds, SeriesKinds
<1> QED BY <1>12, <1>13, <1>14
-------------------------------------------------------------------------------
(* Every answer the merge can give of what the shards gave is true of it.  *)
LEMMA AnswersAreTrue ==
  ASSUME NEW q, q.kind \in Kinds, q.limit \in Nat, NEW S, SoundRows(S),
         NEW parts, PiecesOf(q, parts, S), NEW answer,
         \/ answer \in Answers(q, parts)
         \/ q.kind \in TopKinds /\ answer \in SortAndLimit(Merge(q, parts), q.limit)
  PROVE  /\ Numbers(q, answer) /\ InventsNothing(q, S, answer)
         /\ \A D \in SUBSET S :
              Uncut(q, parts) /\ (\A r \in D : InParts(q, parts, r)) => MissesNothing(q, D, answer)
<1>1. CASE q.kind \in TopKinds
  <2>1. Answers(q, parts) = SortAndLimit(FilterToKnown(q, Merge(q, parts)), q.limit)
    <3>1. /\ q.kind \notin SeriesKinds /\ q.kind # "records" /\ q.kind # "samples"
      BY <1>1 DEF TopKinds, SeriesKinds
    <3> QED BY <1>1, <3>1 DEF Answers
  <2> QED BY <1>1, <2>1, TopsAreTrue
<1>2. CASE q.kind \in SeriesKinds
  <2>1. q.kind \notin TopKinds
    BY <1>2 DEF TopKinds, SeriesKinds
  <2>2. Answers(q, parts) = {Merge(q, parts)}
    BY <1>2, <2>1 DEF Answers, TopKinds, SeriesKinds
  <2> QED BY <1>2, <2>1, <2>2, SeriesAreTrue
<1>3. CASE q.kind = "records"
  <2>1. q.kind \notin TopKinds /\ q.kind \notin SeriesKinds
    BY <1>3 DEF TopKinds, SeriesKinds
  <2>2. Answers(q, parts) = Newest(q.limit, UNION {parts[i].rows : i \in DOMAIN parts})
    BY <1>3, <2>1 DEF Answers
  <2> QED BY <1>3, <2>1, <2>2, RecordsAreTrue
<1>4. CASE q.kind = "samples"
  <2>1. q.kind \notin TopKinds /\ q.kind \notin SeriesKinds
    BY <1>4 DEF TopKinds, SeriesKinds
  <2>2. Answers(q, parts) = {GetDeviceBaselineSamples(parts)}
    BY <1>4, <2>1 DEF Answers
  <2> QED BY <1>4, <2>1, <2>2, SamplesAreTrue
<1>5. CASE q.kind \in {"destinationSeen", "portSeen"}
  <2>1. q.kind \notin TopKinds /\ q.kind \notin SeriesKinds
    BY <1>5 DEF TopKinds, SeriesKinds
  <2>2. Answers(q, parts) = {hasObservedFlowTuple(q, parts)}
    BY <1>5, <2>1 DEF Answers
  <2> QED BY <1>5, <2>1, <2>2, SeenIsTrue
<1> QED BY <1>1, <1>2, <1>3, <1>4, <1>5 DEF Kinds, SourceKinds

(* What an answer invents of more rows, it invents of fewer.               *)
LEMMA InventsMore ==
  ASSUME NEW q, q.kind \in Kinds, NEW S, SoundRows(S), NEW T \in SUBSET S, NEW answer,
         Numbers(q, answer), InventsNothing(q, T, answer)
  PROVE  InventsNothing(q, S, answer)
<1>1. CASE q.kind \in TopKinds \cup SeriesKinds
  <2>1. \A k \in DOMAIN answer : answer[k] \in Nat /\ answer[k] <= Bytes(q, T, k)
    BY <1>1 DEF Numbers, InventsNothing, TopKinds, SeriesKinds
  <2>2. \A k \in DOMAIN answer : answer[k] <= Bytes(q, S, k)
    BY <2>1, BytesGrow
  <2> QED BY <1>1, <2>2 DEF InventsNothing, TopKinds, SeriesKinds
<1>2. CASE q.kind = "records"
  BY <1>2 DEF InventsNothing, TopKinds, SeriesKinds
<1>3. CASE q.kind = "samples"
  <2>1. \A s \in answer : /\ s.bytes \in Nat /\ s.peers \in Nat
                          /\ s.bytes <= Volume({r \in T : r.minute = s.minute})
                          /\ s.peers <= Cardinality(Peers({r \in T : r.minute = s.minute}))
    BY <1>3 DEF Numbers, InventsNothing, Volume, TopKinds, SeriesKinds
  <2>2. ASSUME NEW s \in answer
        PROVE  /\ s.bytes <= Volume({r \in S : r.minute = s.minute})
               /\ s.peers <= Cardinality(Peers({r \in S : r.minute = s.minute}))
    <3>1. PICK A : A = {r \in T : r.minute = s.minute}
      OBVIOUS
    <3>2. PICK B : B = {r \in S : r.minute = s.minute}
      OBVIOUS
    <3>3. A \in SUBSET B /\ SoundRows(B)
      BY <3>1, <3>2, PartsAreSound
    <3>4. /\ Volume(A) <= Volume(B) /\ Volume(A) \in Nat /\ Volume(B) \in Nat
          /\ Cardinality(Peers(A)) <= Cardinality(Peers(B))
          /\ Cardinality(Peers(A)) \in Nat /\ Cardinality(Peers(B)) \in Nat
      BY <3>3, VolumesGrow
    <3>5. s.bytes <= Volume(A) /\ s.peers <= Cardinality(Peers(A)) /\ s.bytes \in Nat /\ s.peers \in Nat
      BY <2>1, <3>1
    <3>6. s.bytes <= Volume(B) /\ s.peers <= Cardinality(Peers(B))
      BY <3>4, <3>5
    <3> QED BY <3>2, <3>6
  <2> QED BY <1>3, <2>2 DEF InventsNothing, Volume, TopKinds, SeriesKinds
<1>4. CASE q.kind \in {"destinationSeen", "portSeen"}
  <2>1. /\ answer.seen => \E r \in T : SeenIn(q, r)
        /\ answer.first \subseteq Minutes(T)
    BY <1>4 DEF InventsNothing, TopKinds, SeriesKinds
  <2>2. Minutes(T) \subseteq Minutes(S)
    BY DEF Minutes
  <2> QED BY <1>4, <2>1, <2>2 DEF InventsNothing, TopKinds, SeriesKinds
<1> QED BY <1>1, <1>2, <1>3, <1>4 DEF Kinds, SourceKinds

(* What an answer misses of fewer rows, it misses of more.                 *)
LEMMA MissesLess ==
  ASSUME NEW q, q.kind \in Kinds, NEW S, SoundRows(S), NEW T \in SUBSET S, NEW answer,
         Numbers(q, answer), MissesNothing(q, S, answer)
  PROVE  MissesNothing(q, T, answer)
<1>1. CASE q.kind \in TopKinds \cup SeriesKinds
  <2>5. PICK zeros : zeros = [l \in Keys(q, S) |-> 0]
    OBVIOUS
  <2>6. PICK fewer : fewer = [l \in Keys(q, T) |-> 0]
    OBVIOUS
  <2>1. /\ DOMAIN FilterToKnown(q, zeros) = Reported(q, Keys(q, S))
        /\ DOMAIN FilterToKnown(q, fewer) = Reported(q, Keys(q, T))
    <3>1. DOMAIN zeros = Keys(q, S) /\ DOMAIN fewer = Keys(q, T)
      BY <2>5, <2>6
    <3> QED BY <3>1, KnownAreReported
  <2>7. \A k \in DOMAIN FilterToKnown(q, zeros) :
          IF k \in DOMAIN answer THEN answer[k] >= Bytes(q, S, k)
          ELSE /\ q.kind \in TopKinds /\ Cardinality(DOMAIN answer) = q.limit
               /\ \A l \in DOMAIN answer : answer[l] >= Bytes(q, S, k)
    BY <1>1, <2>5 DEF MissesNothing, TopKinds, SeriesKinds
  <2>2. Reported(q, Keys(q, T)) \subseteq Reported(q, Keys(q, S))
    BY KeysAreFinite DEF Reported
  <2>3. \A k \in DOMAIN answer : answer[k] \in Nat
    BY <1>1 DEF Numbers, TopKinds, SeriesKinds
  <2>4. ASSUME NEW k \in Reported(q, Keys(q, T))
        PROVE  IF k \in DOMAIN answer THEN answer[k] >= Bytes(q, T, k)
               ELSE /\ q.kind \in TopKinds /\ Cardinality(DOMAIN answer) = q.limit
                    /\ \A l \in DOMAIN answer : answer[l] >= Bytes(q, T, k)
    <3>1. k \in Reported(q, Keys(q, S))
      BY <2>2
    <3>2. IF k \in DOMAIN answer THEN answer[k] >= Bytes(q, S, k)
          ELSE /\ q.kind \in TopKinds /\ Cardinality(DOMAIN answer) = q.limit
               /\ \A l \in DOMAIN answer : answer[l] >= Bytes(q, S, k)
      BY <2>1, <2>7, <3>1
    <3>3. Bytes(q, T, k) \in Nat /\ Bytes(q, S, k) \in Nat /\ Bytes(q, T, k) <= Bytes(q, S, k)
      BY BytesGrow
    <3>4. PICK low, high : low = Bytes(q, T, k) /\ high = Bytes(q, S, k)
      OBVIOUS
    <3> QED BY <2>3, <3>2, <3>3, <3>4
  <2>8. \A k \in DOMAIN FilterToKnown(q, fewer) :
          IF k \in DOMAIN answer THEN answer[k] >= Bytes(q, T, k)
          ELSE /\ q.kind \in TopKinds /\ Cardinality(DOMAIN answer) = q.limit
               /\ \A l \in DOMAIN answer : answer[l] >= Bytes(q, T, k)
    BY <2>1, <2>4
  <2> QED BY <1>1, <2>6, <2>8 DEF MissesNothing, TopKinds, SeriesKinds
<1>2. CASE q.kind = "records"
  BY <1>2 DEF MissesNothing, TopKinds, SeriesKinds
<1>3. CASE q.kind = "samples"
  <2>1. Minutes(T) \subseteq Minutes(S)
    BY DEF Minutes
  <2> QED BY <1>3, <2>1 DEF MissesNothing, TopKinds, SeriesKinds
<1>4. CASE q.kind \in {"destinationSeen", "portSeen"}
  <2>1. /\ (\E r \in S : SeenIn(q, r)) => answer.seen
        /\ answer.buckets >= Cardinality(Minutes(S))
        /\ \A r \in S : \E m \in answer.first : m <= r.minute
    BY <1>4 DEF MissesNothing, TopKinds, SeriesKinds
  <2>2. answer.buckets \in Nat
    BY <1>4 DEF Numbers, TopKinds, SeriesKinds
  <2>3. answer.buckets >= Cardinality(Minutes(T))
    <3>1. /\ Cardinality(Minutes(T)) <= Cardinality(Minutes(S))
          /\ Cardinality(Minutes(S)) \in Nat
      BY VolumesGrow
    <3>2. Cardinality(Minutes(T)) \in Nat
      BY PartsAreSound, VolumesGrow
    <3> QED BY <2>1, <2>2, <3>1, <3>2
  <2> QED BY <1>4, <2>1, <2>3 DEF MissesNothing, TopKinds, SeriesKinds
<1> QED BY <1>1, <1>2, <1>3, <1>4 DEF Kinds, SourceKinds

(* What one shard gives is of its rows, and a row of it that is not given  *)
(* gave way; mergeRows may leave groups out.                               *)
LEMMA PartIsTrue ==
  ASSUME NEW q, q.kind \in Kinds, q.limit \in Nat, NEW S, IsFiniteSet(S),
         NEW part, part \in ShardParts(q, S) \/ (q.kind \in TopKinds /\ part \in mergeRows(q, S))
  PROVE  /\ part = [rows |-> part.rows, keys |-> part.keys]
         /\ part.rows \subseteq S /\ part.keys \subseteq Keys(q, part.rows)
         /\ part \in ShardParts(q, S) =>
              /\ q.kind # "records" => part.keys = Keys(q, part.rows)
              /\ \A r \in S : r \in part.rows \/ GaveWay(q, part.rows, r)
<1>1. CASE part \in mergeRows(q, S) /\ part \notin ShardParts(q, S)
  <2>1. PICK K \in SUBSET Keys(q, S) : part = [rows |-> S, keys |-> K]
    BY <1>1 DEF mergeRows
  <2>2. part.rows = S /\ part.keys = K
    BY <2>1
  <2> QED BY <1>1, <2>1, <2>2
<1>2. CASE q.kind = "records" /\ part \in ShardParts(q, S)
  <2>1. PICK T \in Newest(q.limit, S) : part = [rows |-> T, keys |-> {}]
    BY <1>2 DEF ShardParts
  <2>2. part.rows = T /\ part.keys = {}
    BY <2>1
  <2>3. T \in SUBSET S /\ \A r \in S \ T : Cardinality(T) = q.limit /\ \A g \in T : g.minute >= r.minute
    BY <2>1, NewestAreNewest
  <2> QED BY <1>2, <2>1, <2>2, <2>3 DEF GaveWay
<1>3. CASE q.kind # "records" /\ part \in ShardParts(q, S)
  <2>1. part = [rows |-> S, keys |-> Keys(q, S)]
    BY <1>3 DEF ShardParts
  <2>2. part.rows = S /\ part.keys = Keys(q, S)
    BY <2>1
  <2> QED BY <1>3, <2>1, <2>2
<1> QED BY <1>1, <1>2, <1>3

-------------------------------------------------------------------------------
(* The inductive invariant of the answers.                                 *)
(*                                                                         *)
(* What was saved: by the minutes of the rows, and by those of the buckets *)
(* they are stored under in DuckDB.                                        *)
Saved == UNION {RowsOf[b] : b \in acked}
SavedStamped == UNION {Stamped(b) : b \in acked}

(* Every row that was committed is in one file at most, and a cached       *)
(* handle is on the file the directory has under its day.                  *)
SavedOnce ==
  /\ IsFiniteSet(acked)
  /\ \A f \in 1..Len(files) : files[f].rows \subseteq Saved
  /\ \A f, g \in 1..Len(files) : f # g => files[f].rows \cap files[g].rows = {}
  /\ \A d \in Days : shards[d] # 0 /\ disk[d] # 0 => handles[shards[d]].file = disk[d]

(* The rows a query still has to give: those that were there when it began *)
(* and are still.                                                          *)
QueriedDays(q) == DateOf(q.from)..DateOf(q.to)
StillThere(q, r) == \E d \in QueriedDays(q) : disk[d] # 0 /\ r \in files[disk[d]].rows
Due(q) == {r \in reader[q].sure : StillThere(q, r)}

PartOf(q) == [rows : SUBSET Rows, keys : SUBSET Keys(q, Rows)]
FileFound(q, j) == files[handles[reader[q].found[j]].file]
(* How far a query has got: it found shards of earlier days than the next  *)
(* one, in order, and what it got is apart from what it has yet to read.   *)
Collected(q) ==
  LET rd == reader[q]
  IN  /\ rd.day >= DateOf(q.from) /\ (rd.at = "read" => rd.day > LastDay(q))
      /\ rd.at = "open" => rd.day <= LastDay(q)
      /\ \A j \in 1..Len(rd.found) : FileFound(q, j).day < rd.day
      /\ \A i, j \in 1..Len(rd.found) : i < j => FileFound(q, i).day < FileFound(q, j).day
      /\ rd.got \in Seq(PartOf(q)) /\ PiecesOf(q, rd.got, Matching(q, Saved))
      /\ \A i \in DOMAIN rd.got, j \in 1..Len(rd.found) : rd.got[i].rows \cap FileFound(q, j).rows = {}
      /\ rd.at # "read" => rd.got = <<>>
(* Nothing that is due was passed by.                                      *)
Covered(q) ==
  LET rd == reader[q]
  IN  /\ Uncut(q, rd.got)
      /\ \A r \in rd.sure : \A d \in QueriedDays(q) :
           disk[d] # 0 /\ r \in files[disk[d]].rows =>
             \/ rd.at # "read" /\ d >= rd.day
             \/ \E j \in 1..Len(rd.found) : r \in FileFound(q, j).rows
             \/ InParts(q, rd.got, r)
Truthful(q, answer, S, D, partial) ==
  /\ Numbers(q, answer)
  /\ InventsNothing(q, S, answer)
  /\ partial \/ MissesNothing(q, D, answer)

ReaderTrue(q) ==
  LET rd == reader[q]
  IN  /\ rd.at \notin {"listing", "served"} => rd.sure \subseteq Matching(q, Saved)
      /\ rd.at = "unasked" => rd.got = <<>>
      /\ rd.at \in Asking => Collected(q) /\ (rd.partial \/ Covered(q))
      /\ rd.at = "answered" => Truthful(q, rd.answer, Matching(q, Saved), Due(q), rd.partial)
      /\ rd.at \in {"listing", "served"} => rd.sure \subseteq Matching(q, SavedStamped)
      /\ rd.at = "listing" =>
           /\ q.kind \in TopKinds /\ PiecesOf(q, rd.got, Matching(q, SavedStamped))
           /\ rd.partial \/ (Uncut(q, rd.got) /\ \A r \in rd.sure : InParts(q, rd.got, r))
      /\ rd.at = "served" => Truthful(q, rd.answer, Matching(q, SavedStamped), rd.sure, rd.partial)
AnswersInv == SavedOnce /\ \A q \in Queries : ReaderTrue(q)

-------------------------------------------------------------------------------
(* The steps of the history, and what they do to the answers.              *)

(* Batches that were saved are finitely many rows, as they came and as     *)
(* they are stored.                                                        *)
LEMMA BatchesAreSound ==
  ASSUME NEW B \in SUBSET Batches, IsFiniteSet(B)
  PROVE  SoundRows(UNION {RowsOf[b] : b \in B}) /\ SoundRows(UNION {Stamped(b) : b \in B})
<1>1. \A b \in B : IsFiniteSet(RowsOf[b]) /\ \A r \in RowsOf[b] : r.minute \in Nat /\ r.bytes \in Nat
  BY BatchAssumption
<1>2. \A b \in B : IsFiniteSet(Stamped(b)) /\ \A r \in Stamped(b) : r.minute \in Nat /\ r.bytes \in Nat
  <2>1. SUFFICES ASSUME NEW b \in B
                 PROVE  /\ IsFiniteSet(Stamped(b))
                        /\ \A r \in Stamped(b) : r.minute \in Nat /\ r.bytes \in Nat
    OBVIOUS
  <2>2. PICK P : P = Stamped(b)
    OBVIOUS
  <2>3. PICK f : f = [r \in RowsOf[b] |-> StoredAs(b, r)]
    OBVIOUS
  <2>4. f \in [RowsOf[b] -> P] /\ \A y \in P : \E r \in RowsOf[b] : f[r] = y
    BY <2>2, <2>3 DEF Stamped
  <2>5. IsFiniteSet(P)
    BY <1>1, <2>4, ImageIsFinite
  <2>6. ASSUME NEW r \in RowsOf[b]
        PROVE  StoredAs(b, r).minute \in Nat /\ StoredAs(b, r).bytes \in Nat
    <3>1. {"minute", "bytes"} \subseteq DOMAIN r /\ r.bytes \in Nat /\ Bucket[b] \in Nat
      BY BatchAssumption, TimeAssumption
    <3>2. StoredAs(b, r).minute = Bucket[b] /\ StoredAs(b, r).bytes = r.bytes
      BY <3>1 DEF StoredAs
    <3> QED BY <3>1, <3>2
  <2> QED BY <2>2, <2>5, <2>6 DEF Stamped
<1>3. ASSUME NEW A, \A b \in B : IsFiniteSet(A[b]) /\ \A r \in A[b] : r.minute \in Nat /\ r.bytes \in Nat
      PROVE  SoundRows(UnionOf(A, B))
  <2>1. PICK v : v = [b \in B |-> Cardinality(A[b])]
    OBVIOUS
  <2>2. \A b \in B : IsFiniteSet(A[b]) /\ v[b] = Cardinality(A[b])
    BY <1>3, <2>1
  <2>3. IsFiniteSet(UnionOf(A, B))
    BY <2>2, CountOfUnion
  <2>4. \A r \in UnionOf(A, B) : r.minute \in Nat /\ r.bytes \in Nat
    BY <1>3 DEF UnionOf
  <2> QED BY <2>3, <2>4 DEF SoundRows
<1>4. PICK R, T : R = [b \in B |-> RowsOf[b]] /\ T = [b \in B |-> Stamped(b)]
  OBVIOUS
<1>5. SoundRows(UnionOf(R, B)) /\ SoundRows(UnionOf(T, B))
  BY <1>1, <1>2, <1>3, <1>4
<1>6. UnionOf(R, B) = UNION {RowsOf[b] : b \in B} /\ UnionOf(T, B) = UNION {Stamped(b) : b \in B}
  BY <1>4 DEF UnionOf
<1> QED BY <1>5, <1>6

(* What goes on around a query: rows come to files with batches that were  *)
(* not saved before, files come empty, and go.                             *)
WorldGoes ==
  /\ Len(files) <= Len(files')
  /\ \A f \in 1..Len(files) : /\ files'[f].day = files[f].day
                              /\ files[f].rows \subseteq files'[f].rows
                              /\ files'[f].rows \cap Saved \subseteq files[f].rows
  /\ \A d \in Days : disk'[d] = 0 \/ disk'[d] = disk[d] \/ files'[disk'[d]].rows = {}
  /\ acked \subseteq acked' /\ acked' \subseteq Batches /\ IsFiniteSet(acked')
HandlesGo == \A h \in 1..Len(handles) : handles'[h].file = handles[h].file

(* A saved row that is on disk was there before.                           *)
LEMMA NothingComes ==
  ASSUME FilesKept, WorldGoes, NEW d \in Days, disk'[d] # 0, NEW r \in Saved,
         r \in files'[disk'[d]].rows
  PROVE  disk[d] # 0 /\ disk'[d] = disk[d] /\ r \in files[disk[d]].rows
<1>1. disk'[d] = disk[d]
  BY DEF WorldGoes
<1>2. disk[d] \in 1..Len(files)
  BY <1>1 DEF FilesKept
<1> QED BY <1>1, <1>2 DEF WorldGoes

(* A handle stays on its file, and finds there what it would have found    *)
(* before, and rows that were not saved then.                              *)
LEMMA HandleStays ==
  ASSUME HandlesKept, WorldGoes, HandlesGo, NEW h \in 1..Len(handles)
  PROVE  /\ handles[h].file \in 1..Len(files) /\ handles'[h].file = handles[h].file
         /\ files'[handles'[h].file].day = files[handles[h].file].day
         /\ files[handles[h].file].rows \subseteq files'[handles'[h].file].rows
         /\ files'[handles'[h].file].rows \cap Saved \subseteq files[handles[h].file].rows
<1>1. handles[h].file \in 1..Len(files)
  BY HandleTyped
<1> QED BY <1>1 DEF WorldGoes, HandlesGo

(* The days of a query are days there are.                                 *)
LEMMA DaysOfQuery ==
  ASSUME NEW q \in Queries
  PROVE  /\ QueriedDays(q) \subseteq Days
         /\ \A d \in QueriedDays(q) : d \in Nat /\ DateOf(q.from) <= d /\ d <= LastDay(q)
<1>1. DateOf(q.from) \in Days /\ LastDay(q) \in Days /\ DateOf(MaxTime) \in Nat
  BY QueryDays
<1> HIDE DEF DateOf
<1> QED BY <1>1 DEF Days, QueriedDays, LastDay

(* A true answer is true of more saved rows, and of fewer that are due.    *)
LEMMA TruthStays ==
  ASSUME NEW q \in Queries, NEW T, SoundRows(T), NEW S \in SUBSET T,
         NEW D \in SUBSET S, NEW E \in SUBSET D, NEW answer, NEW partial,
         Truthful(q, answer, S, D, partial)
  PROVE  Truthful(q, answer, T, E, partial)
<1>1. q.kind \in Kinds
  BY QueryAssumption
<1>2. SoundRows(S) /\ SoundRows(D)
  BY PartsAreSound
<1>3. InventsNothing(q, T, answer)
  BY <1>1, InventsMore DEF Truthful
<1>4. ASSUME MissesNothing(q, D, answer) PROVE MissesNothing(q, E, answer)
  BY <1>1, <1>2, <1>4, MissesLess DEF Truthful
<1> QED BY <1>3, <1>4 DEF Truthful

(* A query that does not move keeps what it has, while the others go on.   *)
LEMMA ReaderStays ==
  ASSUME HistoryInv, SavedOnce, WorldGoes, NEW q \in Queries, reader'[q] = reader[q],
         reader[q].at \in Asking => HandlesGo, ReaderTrue(q)
  PROVE  ReaderTrue(q)'
<1>1. PICK rd : rd = reader[q] /\ rd = reader'[q]
  OBVIOUS
<1>2. /\ FilesKept /\ HandlesKept /\ rd.found \in Seq(1..Len(handles))
      /\ acked \subseteq acked' /\ acked' \subseteq Batches /\ IsFiniteSet(acked')
  BY <1>1 DEF HistoryInv, ReadersKept, ReaderKept, WorldGoes
<1>3. /\ Saved \subseteq Saved' /\ SavedStamped \subseteq SavedStamped'
      /\ SoundRows(Saved') /\ SoundRows(SavedStamped')
  BY <1>2, BatchesAreSound DEF Saved, SavedStamped
<1>4. /\ Matching(q, Saved) \subseteq Matching(q, Saved')
      /\ Matching(q, SavedStamped) \subseteq Matching(q, SavedStamped')
      /\ Matching(q, Saved) \subseteq Saved
      /\ SoundRows(Matching(q, Saved')) /\ SoundRows(Matching(q, SavedStamped'))
  <2>1. Matching(q, Saved') \in SUBSET Saved' /\ Matching(q, SavedStamped') \in SUBSET SavedStamped'
    BY DEF Matching
  <2>2. SoundRows(Matching(q, Saved')) /\ SoundRows(Matching(q, SavedStamped'))
    BY <1>3, <2>1, PartsAreSound
  <2>3. /\ Matching(q, Saved) \subseteq Matching(q, Saved')
        /\ Matching(q, SavedStamped) \subseteq Matching(q, SavedStamped')
        /\ Matching(q, Saved) \subseteq Saved
    BY <1>3 DEF Matching
  <2> QED BY <2>2, <2>3
<1>5. \A parts, S, T : PiecesOf(q, parts, S) /\ S \subseteq T => PiecesOf(q, parts, T)
  BY DEF PiecesOf
<1>6. ASSUME rd.at \notin {"listing", "served"} PROVE rd.sure \subseteq Matching(q, Saved')
  BY <1>1, <1>4, <1>6 DEF ReaderTrue
<1>7. ASSUME rd.at \in Asking
      PROVE  /\ \A j \in 1..Len(rd.found) :
                  /\ FileFound(q, j)'.day = FileFound(q, j).day
                  /\ FileFound(q, j).rows \subseteq FileFound(q, j)'.rows
                  /\ FileFound(q, j)'.rows \cap Saved \subseteq FileFound(q, j).rows
             /\ rd.sure \subseteq Saved
  <2>1. SUFFICES ASSUME NEW j \in 1..Len(rd.found)
                 PROVE  /\ FileFound(q, j)'.day = FileFound(q, j).day
                        /\ FileFound(q, j).rows \subseteq FileFound(q, j)'.rows
                        /\ FileFound(q, j)'.rows \cap Saved \subseteq FileFound(q, j).rows
    BY <1>1, <1>4, <1>7 DEF ReaderTrue, Asking
  <2>2. rd.found[j] \in 1..Len(handles)
    BY <1>2, <2>1, ElementOfSeq
  <2>3. HandlesGo
    BY <1>1, <1>7
  <2> QED BY <1>1, <1>2, <2>2, <2>3, HandleStays DEF FileFound
<1>8. ASSUME rd.at \in Asking PROVE Collected(q)'
  <2>1. Collected(q)
    BY <1>1, <1>8 DEF ReaderTrue
  <2>2. PiecesOf(q, rd.got, Matching(q, Saved)) /\ PiecesOf(q, rd.got, Matching(q, Saved'))
    BY <1>1, <1>4, <1>5, <2>1 DEF Collected
  <2>3. ASSUME NEW i \in DOMAIN rd.got, NEW j \in 1..Len(rd.found)
        PROVE  rd.got[i].rows \cap FileFound(q, j)'.rows = {}
    <3>1. rd.got[i].rows \subseteq Saved
      BY <1>4, <2>2 DEF PiecesOf
    <3>2. rd.got[i].rows \cap FileFound(q, j).rows = {}
      BY <1>1, <2>1 DEF Collected
    <3> QED BY <1>7, <1>8, <3>1, <3>2
  <2> QED BY <1>1, <1>7, <1>8, <2>1, <2>2, <2>3 DEF Collected
<1>9. ASSUME rd.at \in Asking, Covered(q) PROVE Covered(q)'
  <2>1. ASSUME NEW r \in rd.sure, NEW d \in QueriedDays(q), disk'[d] # 0, r \in files'[disk'[d]].rows
        PROVE  \/ rd.at # "read" /\ d >= rd.day
               \/ \E j \in 1..Len(rd.found) : r \in FileFound(q, j)'.rows
               \/ InParts(q, rd.got, r)
    <3>1. d \in Days /\ r \in Saved
      BY <1>7, <1>9, DaysOfQuery
    <3>2. disk[d] # 0 /\ r \in files[disk[d]].rows
      BY <1>2, <2>1, <3>1, NothingComes
    <3>3. \/ rd.at # "read" /\ d >= rd.day
          \/ \E j \in 1..Len(rd.found) : r \in FileFound(q, j).rows
          \/ InParts(q, rd.got, r)
      BY <1>1, <1>9, <3>2 DEF Covered
    <3> QED BY <1>7, <1>9, <3>3
  <2> QED BY <1>1, <1>9, <2>1 DEF Covered, QueriedDays
<1>10. ASSUME rd.at = "answered" PROVE Truthful(q, rd.answer, Matching(q, Saved'), Due(q)', rd.partial)
  <2>1. Truthful(q, rd.answer, Matching(q, Saved), Due(q), rd.partial)
    BY <1>1, <1>10 DEF ReaderTrue
  <2>2. Due(q) \in SUBSET Matching(q, Saved)
    BY <1>1, <1>10 DEF ReaderTrue, Due
  <2>3. Due(q)' \in SUBSET Due(q)
    <3>1. ASSUME NEW r \in rd.sure, NEW d \in QueriedDays(q), disk'[d] # 0, r \in files'[disk'[d]].rows
          PROVE  disk[d] # 0 /\ r \in files[disk[d]].rows
      <4>1. d \in Days /\ r \in Saved
        BY <1>1, <1>4, <1>10, DaysOfQuery DEF ReaderTrue
      <4> QED BY <1>2, <3>1, <4>1, NothingComes
    <3> QED BY <1>1, <3>1 DEF Due, StillThere, QueriedDays
  <2> QED BY <1>4, <2>1, <2>2, <2>3, TruthStays
<1>11. ASSUME rd.at \in {"listing", "served"} PROVE rd.sure \subseteq Matching(q, SavedStamped')
  BY <1>1, <1>4, <1>11 DEF ReaderTrue
<1>12. ASSUME rd.at = "listing"
       PROVE  /\ q.kind \in TopKinds /\ PiecesOf(q, rd.got, Matching(q, SavedStamped'))
              /\ rd.partial \/ (Uncut(q, rd.got) /\ \A r \in rd.sure : InParts(q, rd.got, r))
  <2>1. /\ q.kind \in TopKinds /\ PiecesOf(q, rd.got, Matching(q, SavedStamped))
        /\ rd.partial \/ (Uncut(q, rd.got) /\ \A r \in rd.sure : InParts(q, rd.got, r))
    BY <1>1, <1>12 DEF ReaderTrue
  <2> QED BY <1>4, <1>5, <2>1
<1>13. ASSUME rd.at = "served"
       PROVE  Truthful(q, rd.answer, Matching(q, SavedStamped'), rd.sure, rd.partial)
  <2>1. /\ Truthful(q, rd.answer, Matching(q, SavedStamped), rd.sure, rd.partial)
        /\ rd.sure \in SUBSET Matching(q, SavedStamped)
    BY <1>1, <1>13 DEF ReaderTrue
  <2> QED BY <1>4, <2>1, TruthStays
<1>14. rd.at = "unasked" => rd.got = <<>>
  BY <1>1 DEF ReaderTrue
<1>15. rd.at \in Asking => rd.partial \/ Covered(q)
  BY <1>1 DEF ReaderTrue
<1> QED BY <1>1, <1>6, <1>8, <1>9, <1>10, <1>11, <1>12, <1>13, <1>14, <1>15 DEF ReaderTrue

(* So one query's step is about that query.                                *)
LEMMA OneReaderMoves ==
  ASSUME HistoryInv, AnswersInv, SavedOnce', WorldGoes, HandlesGo, NEW q \in Queries,
         \A p \in Queries \ {q} : reader'[p] = reader[p], ReaderTrue(q)'
  PROVE  AnswersInv'
<1>1. ASSUME NEW p \in Queries \ {q} PROVE ReaderTrue(p)'
  BY ReaderStays DEF AnswersInv
<1> QED BY <1>1 DEF AnswersInv

(* And a step that is no query's disturbs none of them.                    *)
LEMMA NoReaderMoves ==
  ASSUME HistoryInv, AnswersInv, SavedOnce', WorldGoes, HandlesGo, UNCHANGED reader
  PROVE  AnswersInv'
<1>1. ASSUME NEW p \in Queries PROVE ReaderTrue(p)'
  BY ReaderStays DEF AnswersInv
<1> QED BY <1>1 DEF AnswersInv

(* Nothing happens to what is stored.                                      *)
LEMMA WorldStands ==
  ASSUME HistoryInv, SavedOnce, UNCHANGED <<files, disk, handles, shards, acked>>
  PROVE  SavedOnce' /\ WorldGoes /\ HandlesGo
<1>1. acked \subseteq Batches /\ IsFiniteSet(acked) /\ Len(files) \in Nat
  BY DEF HistoryInv, WriterKept, SavedOnce, FilesKept
<1>2. SavedOnce'
  BY DEF SavedOnce, Saved
<1> QED BY <1>1, <1>2 DEF WorldGoes, HandlesGo

(* Taking the shard of a day gives a handle on the file under that day,    *)
(* and creates no row.                                                     *)
LEMMA ShardTaken ==
  ASSUME HistoryInv, SavedOnce, NEW d \in Days, GetOrCreateShard(d),
         UNCHANGED <<acked, now, pruned>>
  PROVE  /\ SavedOnce' /\ WorldGoes /\ HandlesGo
         /\ shards'[d] \in 1..Len(handles')
         /\ files'[handles'[shards'[d]].file].day = d
         /\ disk'[d] # 0 => handles'[shards'[d]].file = disk'[d]
<1>1. /\ FilesKept /\ HandlesKept /\ acked \subseteq Batches /\ IsFiniteSet(acked)
      /\ Len(files) \in Nat /\ Len(handles) \in Nat
      /\ disk \in [Days -> 0..Len(files)] /\ shards \in [Days -> 0..Len(handles)]
  <2>1. FilesKept /\ HandlesKept /\ acked \subseteq Batches /\ IsFiniteSet(acked)
    BY DEF HistoryInv, WriterKept, SavedOnce
  <2>2. Len(files) \in Nat /\ disk \in [Days -> 0..Len(files)]
    BY <2>1 DEF FilesKept
  <2>3. Len(handles) \in Nat /\ shards \in [Days -> 0..Len(handles)]
    BY <2>1 DEF HandlesKept
  <2> QED BY <2>1, <2>2, <2>3
<1>2. /\ FilesKept' /\ HandlesKept' /\ Growing
      /\ shards'[d] \in 1..Len(handles')
      /\ files'[handles'[shards'[d]].file].day = d
  BY <1>1, ShardOpened
<1>3. HandlesGo
  BY <1>2 DEF Growing, HandlesGo
<1>4. CASE shards[d] # 0
  <2>1. UNCHANGED <<files, disk, handles, shards>>
    BY <1>4 DEF GetOrCreateShard, fileVars, handleVars
  <2>2. SavedOnce' /\ WorldGoes
    BY <2>1, WorldStands
  <2> QED BY <1>2, <1>3, <1>4, <2>1, <2>2 DEF SavedOnce
<1>5. CASE shards[d] = 0
  <2>1. /\ handles' = Append(handles, [file |-> disk'[d], open |-> TRUE])
        /\ shards' = [shards EXCEPT ![d] = Len(handles) + 1]
    BY <1>5 DEF GetOrCreateShard
  <2>2. /\ handles'[Len(handles) + 1] = [file |-> disk'[d], open |-> TRUE]
        /\ \A h \in 1..Len(handles) : handles'[h] = handles[h]
    <3>1. handles \in Seq([file : 1..Len(files), open : BOOLEAN])
      BY <1>1 DEF HandlesKept
    <3>2. PICK h : h = [file |-> disk'[d], open |-> TRUE]
      OBVIOUS
    <3>3. handles \in Seq([file : 1..Len(files), open : BOOLEAN] \cup {h})
      <4>1. PICK H : H = [file : 1..Len(files), open : BOOLEAN]
        OBVIOUS
      <4>2. handles \in Seq(H) /\ \A i \in 1..Len(handles) : handles[i] \in H \cup {h}
        BY <1>1, <3>1, <4>1, HandleTyped
      <4> QED BY <4>1, <4>2, AlsoOf
    <3> QED BY <2>1, <3>2, <3>3, AppendProperties
  <2>3. /\ shards'[d] = Len(handles) + 1 /\ handles'[shards'[d]].file = disk'[d]
        /\ \A e \in Days \ {d} : shards'[e] = shards[e]
    BY <1>1, <2>1, <2>2
  <2>4. CASE disk[d] # 0
    <3>1. UNCHANGED <<files, disk>>
      BY <1>5, <2>4 DEF GetOrCreateShard, fileVars
    <3>2. WorldGoes
      BY <1>1, <3>1 DEF WorldGoes
    <3>3. ASSUME NEW e \in Days, shards'[e] # 0, disk'[e] # 0
          PROVE  handles'[shards'[e]].file = disk'[e]
      <4>1. CASE e = d
        BY <2>3, <4>1
      <4>2. CASE e # d
        <5>1. shards[e] \in 1..Len(handles) /\ handles[shards[e]].file = disk[e]
          BY <1>1, <2>3, <3>1, <3>3, <4>2 DEF SavedOnce
        <5> QED BY <2>2, <2>3, <3>1, <4>2, <5>1
      <4> QED BY <4>1, <4>2
    <3>4. SavedOnce'
      BY <3>1, <3>3 DEF SavedOnce, Saved
    <3> QED BY <1>2, <1>3, <2>3, <3>2, <3>4
  <2>5. CASE disk[d] = 0
    <3>1. /\ files' = Append(files, [day |-> d, rows |-> {}])
          /\ disk' = [disk EXCEPT ![d] = Len(files) + 1]
      BY <1>5, <2>5 DEF GetOrCreateShard
    <3>2. /\ Len(files') = Len(files) + 1
          /\ \A f \in 1..Len(files) : files'[f] = files[f]
          /\ files'[Len(files) + 1].rows = {}
      <4>1. files \in Seq([day : Days, rows : SUBSET Rows])
        BY <1>1 DEF FilesKept
      <4>2. [day |-> d, rows |-> {}] \in [day : Days, rows : SUBSET Rows]
        OBVIOUS
      <4> QED BY <3>1, <4>1, <4>2, AppendProperties
    <3>3. disk'[d] = Len(files) + 1 /\ \A e \in Days \ {d} : disk'[e] = disk[e]
      BY <1>1, <3>1
    <3>4. WorldGoes
      <4>1. \A e \in Days : disk'[e] = disk[e] \/ files'[disk'[e]].rows = {}
        BY <3>2, <3>3
      <4>2. \A f \in 1..Len(files) : /\ files'[f].day = files[f].day
                                     /\ files[f].rows \subseteq files'[f].rows
                                     /\ files'[f].rows \cap Saved \subseteq files[f].rows
        BY <3>2
      <4>3. Len(files) <= Len(files')
        BY <1>1, <3>2
      <4> QED BY <1>1, <4>1, <4>2, <4>3 DEF WorldGoes
    <3>5. ASSUME NEW e \in Days, shards'[e] # 0, disk'[e] # 0
          PROVE  handles'[shards'[e]].file = disk'[e]
      <4>1. CASE e = d
        BY <2>3, <4>1
      <4>2. CASE e # d
        <5>1. shards[e] \in 1..Len(handles) /\ handles[shards[e]].file = disk[e]
          BY <1>1, <2>3, <3>3, <3>5, <4>2 DEF SavedOnce
        <5> QED BY <2>2, <2>3, <3>3, <4>2, <5>1
      <4> QED BY <4>1, <4>2
    <3>6. \A f \in 1..Len(files') : f \in 1..Len(files) \/ f = Len(files) + 1
      BY <1>1, <3>2
    <3>7. /\ \A f \in 1..Len(files') : files'[f].rows \subseteq Saved
          /\ \A f, g \in 1..Len(files') : f # g => files'[f].rows \cap files'[g].rows = {}
      BY <3>2, <3>6 DEF SavedOnce
    <3>8. SavedOnce'
      BY <3>5, <3>7 DEF SavedOnce, Saved
    <3> QED BY <1>2, <1>3, <2>3, <3>4, <3>8
  <2> QED BY <2>4, <2>5
<1> QED BY <1>4, <1>5

-------------------------------------------------------------------------------
(* What a query does, shard by shard.                                      *)

(* The matching rows of a file are saved, finitely many, and sound.        *)
LEMMA FileIsSound ==
  ASSUME HistoryInv, SavedOnce, NEW q \in Queries, NEW f \in 1..Len(files)
  PROVE  /\ Matching(q, files[f].rows) \subseteq Matching(q, Saved)
         /\ IsFiniteSet(Matching(q, files[f].rows)) /\ files[f].rows \subseteq Rows
         /\ SoundRows(Matching(q, Saved)) /\ q.kind \in Kinds /\ q.limit \in Nat
<1>1. acked \in SUBSET Batches /\ IsFiniteSet(acked) /\ files[f].rows \subseteq Saved
  BY DEF HistoryInv, WriterKept, SavedOnce
<1>2. SoundRows(Saved)
  BY <1>1, BatchesAreSound DEF Saved
<1>3. /\ Matching(q, Saved) \in SUBSET Saved
      /\ Matching(q, files[f].rows) \in SUBSET Matching(q, Saved)
  BY <1>1 DEF Matching
<1>4. SoundRows(Matching(q, Saved))
  BY <1>2, <1>3, PartsAreSound
<1>5. IsFiniteSet(Matching(q, files[f].rows))
  BY <1>3, <1>4, FS_Subset DEF SoundRows
<1>6. files[f].rows \subseteq Rows
  BY <1>1 DEF Saved, Rows
<1> QED BY <1>3, <1>4, <1>5, <1>6, QueryAssumption

(* A query that asks has everything before it.                             *)
LEMMA AskIsTrue ==
  ASSUME HistoryInv, AnswersInv, NEW q \in Queries, AskHistory(q)
  PROVE  AnswersInv'
<1>1. /\ reader[q].at = "unasked"
      /\ reader' = [reader EXCEPT ![q].at = "look", ![q].day = DateOf(q.from),
                                  ![q].sure = Matching(q, OnDisk)]
      /\ UNCHANGED <<files, disk, handles, shards, acked>>
  BY DEF AskHistory, fileVars, handleVars, storeHistory
<1>2. /\ DOMAIN reader = Queries /\ DOMAIN reader[q] = DOMAIN Unasked /\ reader[q].found = <<>>
      /\ reader[q].got = <<>>
  BY <1>1 DEF HistoryInv, ReadersKept, ReaderKept, Asking, AnswersInv, ReaderTrue
<1>3. /\ \A p \in Queries \ {q} : reader'[p] = reader[p]
      /\ reader'[q].at = "look" /\ reader'[q].day = DateOf(q.from)
      /\ reader'[q].sure = Matching(q, OnDisk)
      /\ reader'[q].found = <<>> /\ reader'[q].got = <<>>
  BY <1>1, <1>2 DEF Unasked
<1>4. SavedOnce' /\ WorldGoes /\ HandlesGo
  BY <1>1, WorldStands DEF AnswersInv
<1>5. Matching(q, OnDisk) \subseteq Matching(q, Saved')
  BY <1>1 DEF AnswersInv, SavedOnce, OnDisk, Matching, Saved
<1>6. Len(<<>>) = 0 /\ DOMAIN <<>> = {} /\ IsFiniteSet({}) /\ <<>> \in Seq(PartOf(q))
  BY EmptySeq, FS_EmptySet
<1>7. DateOf(q.from) \in Nat
  BY QueryDays DEF Days
<1>8. Collected(q)'
  <2>1. PiecesOf(q, <<>>, Matching(q, Saved'))
    BY <1>6 DEF PiecesOf
  <2> HIDE DEF DateOf
  <2> QED BY <1>3, <1>6, <1>7, <2>1 DEF Collected
<1>9. Covered(q)'
  <2>1. Uncut(q, <<>>)
    BY <1>6 DEF Uncut
  <2>2. \A d \in QueriedDays(q) : d >= DateOf(q.from)
    BY <1>7, DaysOfQuery
  <2> HIDE DEF DateOf
  <2> QED BY <1>3, <2>1, <2>2 DEF Covered, QueriedDays
<1>10. ReaderTrue(q)'
  BY <1>3, <1>5, <1>8, <1>9 DEF ReaderTrue, Asking
<1> QED BY <1>3, <1>4, <1>10, OneReaderMoves

(* It passes a day by only when there is nothing of it.                    *)
LEMMA LookIsTrue ==
  ASSUME HistoryInv, AnswersInv, NEW q \in Queries, LookForShard(q)
  PROVE  AnswersInv'
<1>1. PICK d : d = reader[q].day
  OBVIOUS
<1>2. /\ reader[q].at = "look"
      /\ \/ d > LastDay(q) /\ reader' = [reader EXCEPT ![q].at = "read"]
         \/ d <= LastDay(q) /\ reader' = [reader EXCEPT ![q].at = "open"]
         \/ /\ d <= LastDay(q) /\ disk[d] = 0
            /\ reader' = [reader EXCEPT ![q].day = d + 1]
      /\ UNCHANGED <<files, disk, handles, shards, acked>>
  BY <1>1 DEF LookForShard, fileVars, handleVars, storeHistory
<1>3. /\ DOMAIN reader = Queries /\ DOMAIN reader[q] = DOMAIN Unasked /\ d \in Nat
      /\ Collected(q) /\ (reader[q].partial \/ Covered(q))
      /\ reader[q].sure \subseteq Matching(q, Saved) /\ reader[q].got = <<>>
  <2>1. DOMAIN reader = Queries /\ DOMAIN reader[q] = DOMAIN Unasked /\ d \in Nat
    BY <1>1, QueryDays DEF HistoryInv, ReadersKept, ReaderKept
  <2>2. Collected(q) /\ (reader[q].partial \/ Covered(q)) /\ reader[q].sure \subseteq Matching(q, Saved)
    BY <1>2 DEF AnswersInv, ReaderTrue, Asking
  <2> QED BY <1>2, <2>1, <2>2 DEF Collected
<1>4. /\ \A p \in Queries \ {q} : reader'[p] = reader[p]
      /\ reader'[q].found = reader[q].found /\ reader'[q].got = reader[q].got
      /\ reader'[q].sure = reader[q].sure /\ reader'[q].partial = reader[q].partial
      /\ \/ d > LastDay(q) /\ reader'[q].at = "read" /\ reader'[q].day = d
         \/ d <= LastDay(q) /\ reader'[q].at = "open" /\ reader'[q].day = d
         \/ /\ d <= LastDay(q) /\ disk[d] = 0
            /\ reader'[q].at = "look" /\ reader'[q].day = d + 1
  BY <1>1, <1>2, <1>3 DEF Unasked
<1>5. SavedOnce' /\ WorldGoes /\ HandlesGo
  BY <1>2, WorldStands DEF AnswersInv
<1>6. \A j \in 1..Len(reader[q].found) : FileFound(q, j)' = FileFound(q, j)
  BY <1>2, <1>4 DEF FileFound
<1>7. \A j \in 1..Len(reader[q].found) : FileFound(q, j).day \in Nat
  <2>1. SUFFICES ASSUME NEW j \in 1..Len(reader[q].found) PROVE FileFound(q, j).day \in Nat
    OBVIOUS
  <2>2. reader[q].found[j] \in 1..Len(handles)
    BY ElementOfSeq DEF HistoryInv, ReadersKept, ReaderKept
  <2>3. handles[reader[q].found[j]].file \in 1..Len(files)
    BY <2>2, HandleTyped DEF HistoryInv
  <2>4. FileFound(q, j) \in [day : Days, rows : SUBSET Rows]
    BY <2>3, ElementOfSeq DEF HistoryInv, FilesKept, FileFound
  <2> QED BY <2>4 DEF Days
<1>8. DateOf(q.from) \in Nat /\ LastDay(q) \in Nat
  BY QueryDays DEF Days
<1>9. Saved' = Saved
  BY <1>2 DEF Saved
<1>10. Collected(q)'
  <2>1. /\ reader'[q].day >= DateOf(q.from) /\ (reader'[q].at = "read" => reader'[q].day > LastDay(q))
        /\ reader'[q].at = "open" => reader'[q].day <= LastDay(q)
    <3>1. d >= DateOf(q.from)
      BY <1>1, <1>3 DEF Collected
    <3> HIDE DEF DateOf, LastDay
    <3> QED BY <1>3, <1>4, <1>8, <3>1
  <2>2. \A j \in 1..Len(reader[q].found) : FileFound(q, j).day < reader'[q].day
    <3>1. \A j \in 1..Len(reader[q].found) : FileFound(q, j).day < d
      BY <1>1, <1>3 DEF Collected
    <3>2. reader'[q].day \in Nat /\ d <= reader'[q].day
      BY <1>3, <1>4
    <3> QED BY <1>3, <1>7, <3>1, <3>2
  <2> QED BY <1>3, <1>4, <1>6, <1>9, <2>1, <2>2 DEF Collected
<1>11. ASSUME Covered(q) PROVE Covered(q)'
  <2>1. ASSUME NEW r \in reader[q].sure, NEW e \in QueriedDays(q), disk[e] # 0, r \in files[disk[e]].rows
        PROVE  \/ reader'[q].at # "read" /\ e >= reader'[q].day
               \/ \E j \in 1..Len(reader[q].found) : r \in FileFound(q, j).rows
    <3>1. \/ e >= d
          \/ \E j \in 1..Len(reader[q].found) : r \in FileFound(q, j).rows
          \/ InParts(q, reader[q].got, r)
      BY <1>1, <1>11, <2>1 DEF Covered
    <3>2. ~InParts(q, reader[q].got, r)
      BY <1>3 DEF InParts
    <3>3. e \in Nat /\ e <= LastDay(q)
      BY DaysOfQuery
    <3>4. ASSUME e >= d PROVE reader'[q].at # "read" /\ e >= reader'[q].day
      BY <1>3, <1>4, <1>8, <2>1, <3>3, <3>4
    <3> QED BY <3>1, <3>2, <3>4
  <2> QED BY <1>2, <1>4, <1>6, <1>11, <2>1 DEF Covered, QueriedDays
<1>12. ReaderTrue(q)'
  BY <1>3, <1>4, <1>9, <1>10, <1>11 DEF ReaderTrue, Asking
<1> QED BY <1>4, <1>5, <1>12, OneReaderMoves

(* It opens the shard of the day, which is the file under its name if the  *)
(* day is on disk.                                                         *)
LEMMA OpenIsTrue ==
  ASSUME HistoryInv, AnswersInv, NEW q \in Queries, OpenShard(q)
  PROVE  AnswersInv'
<1>1. PICK d, found : d = reader[q].day /\ found = reader[q].found
  OBVIOUS
<1>2. /\ reader[q].at = "open" /\ GetOrCreateShard(d)
      /\ reader' = [reader EXCEPT ![q].at = "look", ![q].day = @ + 1,
                                  ![q].found = Append(@, shards'[d])]
      /\ UNCHANGED <<now, acked, pruned>>
  BY <1>1 DEF OpenShard, storeHistory
<1>3. /\ DOMAIN reader = Queries /\ DOMAIN reader[q] = DOMAIN Unasked /\ d \in Days
      /\ found \in Seq(1..Len(handles)) /\ FilesKept /\ HandlesKept
  BY <1>1, <1>2 DEF HistoryInv, ReadersKept, ReaderKept
<1>4. /\ Collected(q) /\ (reader[q].partial \/ Covered(q))
      /\ reader[q].sure \subseteq Matching(q, Saved) /\ reader[q].got = <<>>
  <2>1. Collected(q) /\ (reader[q].partial \/ Covered(q)) /\ reader[q].sure \subseteq Matching(q, Saved)
    BY <1>2 DEF AnswersInv, ReaderTrue, Asking
  <2> QED BY <1>2, <2>1 DEF Collected
<1>5. /\ SavedOnce' /\ WorldGoes /\ HandlesGo
      /\ shards'[d] \in 1..Len(handles')
      /\ files'[handles'[shards'[d]].file].day = d
      /\ disk'[d] # 0 => handles'[shards'[d]].file = disk'[d]
  BY <1>2, <1>3, ShardTaken DEF AnswersInv
<1>6. PICK n \in Nat : n = Len(found)
  BY <1>3
<1>7. PICK more : more = Append(found, shards'[d])
  OBVIOUS
<1>8. /\ Len(more) = n + 1 /\ \A j \in 1..n : more[j] = found[j]
      /\ more[n + 1] = shards'[d]
  <2>1. found \in Seq(1..Len(handles) \cup {shards'[d]})
    <3>1. \A i \in 1..Len(found) : found[i] \in 1..Len(handles) \cup {shards'[d]}
      BY <1>3, ElementOfSeq
    <3> QED BY <1>3, <3>1, AlsoOf
  <2> QED BY <1>6, <1>7, <2>1, AppendProperties
<1>9. /\ \A p \in Queries \ {q} : reader'[p] = reader[p]
      /\ reader'[q].at = "look" /\ reader'[q].day = d + 1
      /\ reader'[q].found = more /\ reader'[q].got = <<>>
      /\ reader'[q].sure = reader[q].sure /\ reader'[q].partial = reader[q].partial
  BY <1>1, <1>2, <1>3, <1>4, <1>7 DEF Unasked
<1>10. \A j \in 1..n : /\ FileFound(q, j)'.day = FileFound(q, j).day
                       /\ FileFound(q, j).rows \subseteq FileFound(q, j)'.rows
                       /\ FileFound(q, j).day \in Nat /\ FileFound(q, j).day < d
  <2>1. SUFFICES ASSUME NEW j \in 1..n
                 PROVE  /\ FileFound(q, j)'.day = FileFound(q, j).day
                        /\ FileFound(q, j).rows \subseteq FileFound(q, j)'.rows
                        /\ FileFound(q, j).day \in Nat /\ FileFound(q, j).day < d
    OBVIOUS
  <2>2. found[j] \in 1..Len(handles)
    BY <1>3, <1>6, ElementOfSeq
  <2>3. /\ handles[found[j]].file \in 1..Len(files)
        /\ files'[handles'[found[j]].file].day = files[handles[found[j]].file].day
        /\ files[handles[found[j]].file].rows \subseteq files'[handles'[found[j]].file].rows
    BY <1>3, <1>5, <2>2, HandleStays
  <2>4. files[handles[found[j]].file] \in [day : Days, rows : SUBSET Rows]
    BY <1>3, <2>3, ElementOfSeq DEF FilesKept
  <2>5. FileFound(q, j).day < d
    BY <1>1, <1>4, <1>6 DEF Collected
  <2>6. FileFound(q, j) = files[handles[found[j]].file] /\ FileFound(q, j)' = files'[handles'[found[j]].file]
    BY <1>1, <1>8, <1>9 DEF FileFound
  <2>7. files[handles[found[j]].file].day \in Nat
    BY <2>4 DEF Days
  <2> QED BY <2>3, <2>5, <2>6, <2>7
<1>11. /\ FileFound(q, n + 1)'.day = d
       /\ disk'[d] # 0 => FileFound(q, n + 1)' = files'[disk'[d]]
  BY <1>5, <1>8, <1>9 DEF FileFound
<1>12. d \in Nat /\ DateOf(q.from) \in Nat /\ \A j \in 1..(n + 1) : j \in 1..n \/ j = n + 1
  BY <1>3, QueryDays DEF Days
<1>13. Collected(q)'
  <2>1. d + 1 >= DateOf(q.from)
    <3>1. d >= DateOf(q.from)
      BY <1>1, <1>4 DEF Collected
    <3> HIDE DEF DateOf
    <3> QED BY <1>12, <3>1
  <2>2. \A j \in 1..(n + 1) : FileFound(q, j)'.day < d + 1
    BY <1>10, <1>11, <1>12
  <2>3. ASSUME NEW i \in 1..(n + 1), NEW j \in 1..(n + 1), i < j
        PROVE  FileFound(q, i)'.day < FileFound(q, j)'.day
    <3>1. i \in 1..n
      BY <2>3
    <3>2. CASE j \in 1..n
      <4>1. FileFound(q, i).day < FileFound(q, j).day
        BY <1>1, <1>4, <1>6, <2>3, <3>1, <3>2 DEF Collected
      <4> QED BY <1>10, <3>1, <3>2, <4>1
    <3>3. CASE j = n + 1
      BY <1>10, <1>11, <3>1, <3>3
    <3> QED BY <1>12, <3>2, <3>3
  <2>4. DOMAIN <<>> = {} /\ IsFiniteSet({}) /\ <<>> \in Seq(PartOf(q))
    BY EmptySeq, FS_EmptySet
  <2>5. PiecesOf(q, <<>>, Matching(q, Saved'))
    BY <2>4 DEF PiecesOf
  <2> HIDE DEF DateOf
  <2> QED BY <1>8, <1>9, <2>1, <2>2, <2>3, <2>4, <2>5 DEF Collected
<1>14. ASSUME Covered(q) PROVE Covered(q)'
  <2>1. ASSUME NEW r \in reader[q].sure, NEW e \in QueriedDays(q), disk'[e] # 0,
               r \in files'[disk'[e]].rows
        PROVE  \/ e >= d + 1
               \/ \E j \in 1..(n + 1) : r \in FileFound(q, j)'.rows
    <3>1. e \in Days /\ r \in Saved
      BY <1>4, DaysOfQuery DEF Matching
    <3>2. disk[e] # 0 /\ disk'[e] = disk[e] /\ r \in files[disk[e]].rows
      BY <1>3, <1>5, <2>1, <3>1, NothingComes
    <3>3. \/ e >= d
          \/ \E j \in 1..n : r \in FileFound(q, j).rows
          \/ InParts(q, reader[q].got, r)
      BY <1>1, <1>6, <1>14, <3>2 DEF Covered
    <3>4. ~InParts(q, reader[q].got, r)
      BY <1>4 DEF InParts
    <3>5. CASE \E j \in 1..n : r \in FileFound(q, j).rows
      <4>1. PICK j \in 1..n : r \in FileFound(q, j).rows
        BY <3>5
      <4>2. j \in 1..(n + 1) /\ r \in FileFound(q, j)'.rows
        BY <1>10, <4>1
      <4> QED BY <4>2
    <3>6. CASE e = d
      <4>1. r \in FileFound(q, n + 1)'.rows /\ n + 1 \in 1..(n + 1)
        BY <1>11, <2>1, <3>6
      <4> QED BY <4>1
    <3>7. CASE e >= d /\ e # d
      BY <1>12, <3>1, <3>7 DEF Days
    <3> QED BY <3>3, <3>4, <3>5, <3>6, <3>7
  <2>2. Uncut(q, <<>>)
    BY DEF Uncut
  <2> QED BY <1>8, <1>9, <2>1, <2>2 DEF Covered, QueriedDays
<1>15. Saved' = Saved
  BY <1>2 DEF Saved
<1>16. ReaderTrue(q)'
  BY <1>4, <1>9, <1>13, <1>14, <1>15 DEF ReaderTrue, Asking
<1> QED BY <1>5, <1>9, <1>16, OneReaderMoves

(* A query gets a part of a shard: what the shard gives, or less of it if  *)
(* the answer becomes a partial one.                                       *)
Gives(q, S, part, partial) ==
  \/ part \in ShardParts(q, S) /\ partial = reader[q].partial
  \/ q.kind \in TopKinds /\ part \in mergeRows(q, S) /\ partial
Receives(q, S, part, partial) ==
  /\ reader[q].at = "read" /\ reader[q].found # <<>>
  /\ S = Matching(q, files[handles[Head(reader[q].found)].file].rows)
  /\ Gives(q, S, part, partial)
  /\ reader' = [reader EXCEPT ![q].got = Append(@, part), ![q].found = Tail(@),
                              ![q].partial = partial]
  /\ UNCHANGED <<files, disk, handles, shards, acked>>

(* It reads the first of the shards it found: what that gives is apart     *)
(* from what it got and will get, and nothing it should give is left.      *)
LEMMA PartIsAdded ==
  ASSUME HistoryInv, AnswersInv, NEW q \in Queries, NEW S, NEW part, NEW partial,
         Receives(q, S, part, partial)
  PROVE  AnswersInv'
<1>1. PICK found, got : found = reader[q].found /\ got = reader[q].got
  OBVIOUS
<1>26. /\ reader[q].at = "read" /\ found # <<>> /\ Gives(q, S, part, partial)
      /\ S = Matching(q, files[handles[Head(found)].file].rows)
      /\ UNCHANGED <<files, disk, handles, shards, acked>>
  BY <1>1 DEF Receives
<1>2. /\ DOMAIN reader = Queries /\ DOMAIN reader[q] = DOMAIN Unasked
      /\ found \in Seq(1..Len(handles)) /\ found # <<>>
  BY <1>26, <1>1 DEF HistoryInv, ReadersKept, ReaderKept
<1>3. /\ Collected(q) /\ (reader[q].partial \/ Covered(q))
      /\ reader[q].sure \subseteq Matching(q, Saved)
  BY <1>26 DEF AnswersInv, ReaderTrue, Asking
<1>4. /\ got \in Seq(PartOf(q)) /\ PiecesOf(q, got, Matching(q, Saved))
      /\ \A i \in DOMAIN got, j \in 1..Len(found) : got[i].rows \cap FileFound(q, j).rows = {}
      /\ \A i, j \in 1..Len(found) : i < j => FileFound(q, i).day < FileFound(q, j).day
      /\ \A j \in 1..Len(found) : FileFound(q, j).day < reader[q].day
      /\ reader[q].day >= DateOf(q.from) /\ reader[q].day > LastDay(q)
  BY <1>26, <1>1, <1>3 DEF Collected
<1>5. PICK n \in Nat : n = Len(found)
  BY <1>2
<1>6. /\ n >= 1 /\ Len(Tail(found)) = n - 1 /\ \A j \in 1..(n - 1) : Tail(found)[j] = found[j + 1]
      /\ Head(found) = found[1]
  BY <1>2, <1>5, HeadTailProperties
<1>7. \A j \in 1..n : handles[found[j]].file \in 1..Len(files)
                      /\ FileFound(q, j) = files[handles[found[j]].file]
  <2>1. SUFFICES ASSUME NEW j \in 1..n
                 PROVE  handles[found[j]].file \in 1..Len(files)
                        /\ FileFound(q, j) = files[handles[found[j]].file]
    OBVIOUS
  <2>2. found[j] \in 1..Len(handles)
    BY <1>2, <1>5, ElementOfSeq
  <2>3. handles[found[j]].file \in 1..Len(files)
    BY <2>2, HandleTyped DEF HistoryInv
  <2> QED BY <1>1, <2>3 DEF FileFound
<1>8. S = Matching(q, FileFound(q, 1).rows)
  <2>1. 1 \in 1..n
    BY <1>6
  <2>2. FileFound(q, 1) = files[handles[found[1]].file]
    BY <1>7, <2>1
  <2> QED BY <1>26, <1>6, <2>2
<1>9. /\ S \subseteq Matching(q, Saved) /\ IsFiniteSet(S) /\ S \subseteq Rows
      /\ S \subseteq FileFound(q, 1).rows /\ q.kind \in Kinds /\ q.limit \in Nat
  <2>1. PICK f \in 1..Len(files) : FileFound(q, 1) = files[f]
    BY <1>6, <1>7
  <2>2. /\ Matching(q, files[f].rows) \subseteq Matching(q, Saved)
        /\ IsFiniteSet(Matching(q, files[f].rows)) /\ files[f].rows \subseteq Rows
        /\ q.kind \in Kinds /\ q.limit \in Nat
    BY FileIsSound DEF AnswersInv
  <2>3. Matching(q, files[f].rows) \subseteq files[f].rows
    BY DEF Matching
  <2> QED BY <1>8, <2>1, <2>2, <2>3
<1>10. /\ part = [rows |-> part.rows, keys |-> part.keys]
       /\ part.rows \subseteq S /\ part.keys \subseteq Keys(q, part.rows)
       /\ part \in ShardParts(q, S) =>
            /\ q.kind # "records" => part.keys = Keys(q, part.rows)
            /\ \A r \in S : r \in part.rows \/ GaveWay(q, part.rows, r)
  <2>1. part \in ShardParts(q, S) \/ (q.kind \in TopKinds /\ part \in mergeRows(q, S))
    BY <1>26 DEF Gives
  <2> QED BY <1>9, <2>1, PartIsTrue
<1>11. part \in PartOf(q)
  <2>1. part.rows \subseteq Rows
    BY <1>9, <1>10
  <2>2. part.keys \subseteq Keys(q, Rows)
    <3>1. \A T : T \subseteq Rows => Keys(q, T) \subseteq Keys(q, Rows)
      BY DEF Keys
    <3> QED BY <1>10, <2>1, <3>1
  <2>3. [rows |-> part.rows, keys |-> part.keys] \in PartOf(q)
    BY <2>1, <2>2 DEF PartOf
  <2> QED BY <1>10, <2>3
<1>12. PICK more : more = Append(got, part)
  OBVIOUS
<1>13. PICK m \in Nat : m = Len(got)
  BY <1>4
<1>14. /\ more \in Seq(PartOf(q)) /\ Len(more) = m + 1 /\ DOMAIN more = 1..(m + 1) /\ DOMAIN got = 1..m
       /\ \A i \in 1..m : more[i] = got[i]
       /\ more[m + 1] = part
  <2>1. /\ more \in Seq(PartOf(q)) /\ Len(more) = m + 1
        /\ \A i \in 1..m : more[i] = got[i]
        /\ more[m + 1] = part
    BY <1>4, <1>11, <1>12, <1>13, AppendProperties
  <2>2. DOMAIN more = 1..(m + 1) /\ DOMAIN got = 1..m
    BY <1>4, <1>13, <2>1, LenProperties
  <2> QED BY <2>1, <2>2
<1>15. \A i \in 1..(m + 1) : i \in 1..m \/ i = m + 1
  OBVIOUS
<1>16. /\ \A p \in Queries \ {q} : reader'[p] = reader[p]
       /\ reader'[q].at = "read" /\ reader'[q].day = reader[q].day
       /\ reader'[q].found = Tail(found) /\ reader'[q].got = more
       /\ reader'[q].sure = reader[q].sure /\ reader'[q].partial = partial
  BY <1>26, <1>1, <1>2, <1>12 DEF Unasked, Receives
<1>17. SavedOnce' /\ WorldGoes /\ HandlesGo
  BY <1>26, WorldStands DEF AnswersInv
<1>18. Saved' = Saved
  BY <1>26 DEF Saved
<1>19. \A j \in 1..(n - 1) : j + 1 \in 1..n /\ j \in 1..n /\ FileFound(q, j)' = FileFound(q, j + 1)
  <2>1. SUFFICES ASSUME NEW j \in 1..(n - 1)
                 PROVE  j + 1 \in 1..n /\ j \in 1..n /\ FileFound(q, j)' = FileFound(q, j + 1)
    OBVIOUS
  <2>2. j + 1 \in 1..n /\ j \in 1..n /\ Tail(found)[j] = found[j + 1]
    BY <1>6
  <2>3. FileFound(q, j)' = files[handles[found[j + 1]].file]
    BY <1>26, <1>16, <2>2 DEF FileFound
  <2> QED BY <1>7, <2>2, <2>3
<1>20. \A j \in 1..(n - 1) : FileFound(q, 1).rows \cap FileFound(q, j + 1).rows = {}
  <2>1. SUFFICES ASSUME NEW j \in 1..(n - 1)
                 PROVE  FileFound(q, 1).rows \cap FileFound(q, j + 1).rows = {}
    OBVIOUS
  <2>2. 1 \in 1..n /\ j + 1 \in 1..n /\ 1 < j + 1
    BY <1>6
  <2>3. PICK f \in 1..Len(files), g \in 1..Len(files) :
          FileFound(q, 1) = files[f] /\ FileFound(q, j + 1) = files[g]
    BY <1>7, <2>2
  <2>4. files[f].day < files[g].day /\ files[f].day \in Nat /\ files[g].day \in Nat
    <3>1. files[f] \in [day : Days, rows : SUBSET Rows] /\ files[g] \in [day : Days, rows : SUBSET Rows]
      BY ElementOfSeq DEF HistoryInv, FilesKept
    <3>2. files[f].day < files[g].day
      BY <1>4, <1>5, <2>2, <2>3
    <3> QED BY <3>1, <3>2 DEF Days
  <2>5. f # g
    BY <2>4
  <2> QED BY <2>3, <2>5 DEF AnswersInv, SavedOnce
<1>21. PiecesOf(q, more, Matching(q, Saved))
  <2>1. IsFiniteSet(DOMAIN more)
    <3>1. PICK one \in Int, last \in Int : one = 1 /\ last = m + 1
      OBVIOUS
    <3>2. IsFiniteSet(one..last)
      BY FS_Interval
    <3> QED BY <1>14, <3>1, <3>2
  <2>2. \A i \in DOMAIN more : more[i].rows \subseteq Matching(q, Saved)
                               /\ more[i].keys \subseteq Keys(q, more[i].rows)
    BY <1>4, <1>9, <1>10, <1>14, <1>15 DEF PiecesOf
  <2>3. \A i \in 1..m : got[i].rows \cap part.rows = {}
    BY <1>4, <1>5, <1>6, <1>9, <1>10, <1>14
  <2>4. \A i, j \in 1..m : i # j => got[i].rows \cap got[j].rows = {}
    BY <1>4, <1>14 DEF PiecesOf
  <2>5. \A i, j \in DOMAIN more : i # j => more[i].rows \cap more[j].rows = {}
    BY <1>14, <1>15, <2>3, <2>4
  <2> QED BY <2>1, <2>2, <2>5 DEF PiecesOf
<1>22. \A i \in DOMAIN more, j \in 1..(n - 1) : more[i].rows \cap FileFound(q, j)'.rows = {}
  BY <1>4, <1>5, <1>9, <1>10, <1>14, <1>15, <1>19, <1>20
<1>23. Collected(q)'
  <2>1. \A j \in 1..(n - 1) : FileFound(q, j)'.day < reader[q].day
    BY <1>4, <1>5, <1>19
  <2>2. ASSUME NEW i \in 1..(n - 1), NEW j \in 1..(n - 1), i < j
        PROVE  FileFound(q, i)'.day < FileFound(q, j)'.day
    <3>1. i + 1 \in 1..n /\ j + 1 \in 1..n /\ i + 1 < j + 1
      BY <1>19, <2>2
    <3> QED BY <1>4, <1>5, <1>19, <3>1
  <2> HIDE DEF DateOf, LastDay
  <2> QED BY <1>4, <1>6, <1>14, <1>16, <1>18, <1>21, <1>22, <2>1, <2>2 DEF Collected
<1>24. ASSUME ~partial PROVE Covered(q)'
  <2>1. part \in ShardParts(q, S) /\ Covered(q)
    BY <1>26, <1>3, <1>24 DEF Gives
  <2>2. Uncut(q, more)
    <3>1. q.kind # "records" => \A i \in 1..m : got[i].keys = Keys(q, got[i].rows)
      BY <1>1, <1>14, <2>1 DEF Covered, Uncut
    <3>2. q.kind # "records" => part.keys = Keys(q, part.rows)
      BY <1>10, <2>1
    <3>3. q.kind # "records" => \A i \in 1..(m + 1) : more[i].keys = Keys(q, more[i].rows)
      BY <1>14, <1>15, <3>1, <3>2
    <3> QED BY <1>14, <3>3 DEF Uncut
  <2>3. ASSUME NEW r \in reader[q].sure, NEW d \in QueriedDays(q), disk[d] # 0, r \in files[disk[d]].rows
        PROVE  \/ \E j \in 1..(n - 1) : r \in FileFound(q, j)'.rows
               \/ InParts(q, more, r)
    <3>1. \/ \E j \in 1..n : r \in FileFound(q, j).rows
          \/ InParts(q, got, r)
      BY <1>26, <1>1, <1>5, <2>1, <2>3 DEF Covered
    <3>2. CASE InParts(q, got, r)
      <4>1. PICK i \in 1..m : r \in got[i].rows \/ GaveWay(q, got[i].rows, r)
        BY <1>14, <3>2 DEF InParts
      <4>2. i \in DOMAIN more /\ more[i] = got[i]
        BY <1>14
      <4> QED BY <4>1, <4>2 DEF InParts
    <3>3. CASE r \in FileFound(q, 1).rows
      <4>1. r \in S
        BY <1>3, <1>8, <3>3 DEF Matching
      <4>2. r \in part.rows \/ GaveWay(q, part.rows, r)
        BY <1>10, <2>1, <4>1
      <4>3. m + 1 \in DOMAIN more
        BY <1>14
      <4> QED BY <1>14, <4>2, <4>3 DEF InParts
    <3>4. ASSUME NEW j \in 1..n, j # 1, r \in FileFound(q, j).rows
          PROVE  \E i \in 1..(n - 1) : r \in FileFound(q, i)'.rows
      <4>1. PICK i \in 1..(n - 1) : i + 1 = j
        <5>1. j - 1 \in 1..(n - 1) /\ (j - 1) + 1 = j
          BY <3>4
        <5> QED BY <5>1
      <4> QED BY <1>19, <3>4, <4>1
    <3> QED BY <3>1, <3>2, <3>3, <3>4
  <2> QED BY <1>26, <1>6, <1>16, <2>2, <2>3 DEF Covered, QueriedDays
<1>25. ReaderTrue(q)'
  BY <1>3, <1>16, <1>18, <1>23, <1>24 DEF ReaderTrue, Asking
<1> QED BY <1>16, <1>17, <1>25, OneReaderMoves

(* A shard that was read, whole or cut short, or not at all.               *)
LEMMA ReadIsTrue ==
  ASSUME HistoryInv, AnswersInv, NEW q \in Queries, ReadShard(q) \/ RowsCutShort(q) \/ ReadFails(q)
  PROVE  AnswersInv'
<1>1. /\ reader[q].at = "read" /\ reader[q].found # <<>>
      /\ UNCHANGED <<files, disk, handles, shards, acked>>
  BY DEF ReadShard, RowsCutShort, ReadFails, fileVars, handleVars, storeHistory
<1>2. DOMAIN reader = Queries /\ DOMAIN reader[q] = DOMAIN Unasked
  BY DEF HistoryInv, ReadersKept, ReaderKept
<1>3. PICK S : S = Matching(q, files[handles[Head(reader[q].found)].file].rows)
  OBVIOUS
<1>4. CASE ReadShard(q)
  <2>1. PICK part \in ShardParts(q, S) :
          reader' = [reader EXCEPT ![q].got = Append(@, part), ![q].found = Tail(@)]
    BY <1>3, <1>4 DEF ReadShard
  <2>2. reader' = [reader EXCEPT ![q].got = Append(@, part), ![q].found = Tail(@),
                                 ![q].partial = reader[q].partial]
    BY <1>2, <2>1 DEF Unasked
  <2>3. Receives(q, S, part, reader[q].partial)
    BY <1>1, <1>3, <2>2, Zenon DEF Receives, Gives
  <2> QED BY <2>3, PartIsAdded
<1>5. CASE RowsCutShort(q)
  <2>1. PICK part \in mergeRows(q, S) :
          reader' = [reader EXCEPT ![q].got = Append(@, part), ![q].found = Tail(@),
                                   ![q].partial = TRUE]
    BY <1>3, <1>5 DEF RowsCutShort
  <2>2. q.kind \in TopKinds
    BY <1>5 DEF RowsCutShort
  <2>3. Receives(q, S, part, TRUE)
    BY <1>1, <1>3, <2>1, <2>2, Zenon DEF Receives, Gives
  <2> QED BY <2>3, PartIsAdded
<1>6. CASE ReadFails(q)
  <2>1. reader' = [reader EXCEPT ![q].at = "failed", ![q].found = <<>>, ![q].got = <<>>]
    BY <1>6 DEF ReadFails
  <2>2. /\ \A p \in Queries \ {q} : reader'[p] = reader[p]
        /\ reader'[q].at = "failed" /\ reader'[q].sure = reader[q].sure
    BY <1>2, <2>1 DEF Unasked
  <2>3. reader[q].sure \subseteq Matching(q, Saved) /\ Saved' = Saved
    BY <1>1 DEF AnswersInv, ReaderTrue, Saved
  <2>4. ReaderTrue(q)'
    BY <2>2, <2>3 DEF ReaderTrue, Asking
  <2>5. SavedOnce' /\ WorldGoes /\ HandlesGo
    BY <1>1, WorldStands DEF AnswersInv
  <2> QED BY <2>2, <2>4, <2>5, OneReaderMoves
<1> QED BY <1>4, <1>5, <1>6

(* The answer, when all shards were read.                                  *)
LEMMA AnswerIsTrue ==
  ASSUME HistoryInv, AnswersInv, NEW q \in Queries, Answer(q)
  PROVE  AnswersInv'
<1>1. /\ reader[q].at = "read" /\ reader[q].found = <<>>
      /\ UNCHANGED <<files, disk, handles, shards, acked>>
  BY DEF Answer, fileVars, handleVars, storeHistory
<1>2. PICK answer \in Answers(q, reader[q].got) :
        reader' = [reader EXCEPT ![q].at = "answered", ![q].answer = answer, ![q].got = <<>>]
  BY DEF Answer
<1>3. DOMAIN reader = Queries /\ DOMAIN reader[q] = DOMAIN Unasked
  BY DEF HistoryInv, ReadersKept, ReaderKept
<1>4. /\ \A p \in Queries \ {q} : reader'[p] = reader[p]
      /\ reader'[q].at = "answered" /\ reader'[q].answer = answer
      /\ reader'[q].sure = reader[q].sure /\ reader'[q].partial = reader[q].partial
  BY <1>2, <1>3 DEF Unasked
<1>5. /\ Collected(q) /\ (reader[q].partial \/ Covered(q))
      /\ reader[q].sure \subseteq Matching(q, Saved)
  BY <1>1 DEF AnswersInv, ReaderTrue, Asking
<1>6. PICK S : S = Matching(q, Saved)
  OBVIOUS
<1>7. PiecesOf(q, reader[q].got, S)
  BY <1>5, <1>6 DEF Collected
<1>8. SoundRows(S) /\ q.kind \in Kinds /\ q.limit \in Nat
  <2>1. acked \in SUBSET Batches /\ IsFiniteSet(acked)
    BY DEF HistoryInv, WriterKept, AnswersInv, SavedOnce
  <2>2. SoundRows(Saved) /\ S \in SUBSET Saved
    BY <1>6, <2>1, BatchesAreSound DEF Saved, Matching
  <2> QED BY <2>2, PartsAreSound, QueryAssumption
<1>9. /\ Numbers(q, answer) /\ InventsNothing(q, S, answer)
      /\ \A D \in SUBSET S :
           Uncut(q, reader[q].got) /\ (\A r \in D : InParts(q, reader[q].got, r))
           => MissesNothing(q, D, answer)
  BY <1>2, <1>7, <1>8, AnswersAreTrue
<1>10. ASSUME Covered(q) PROVE MissesNothing(q, Due(q), answer)
  <2>1. Due(q) \in SUBSET S
    BY <1>5, <1>6 DEF Due
  <2>2. Len(reader[q].found) = 0
    BY <1>1, EmptySeq
  <2>3. Uncut(q, reader[q].got) /\ \A r \in Due(q) : InParts(q, reader[q].got, r)
    BY <1>1, <1>10, <2>2 DEF Covered, Due, StillThere
  <2> QED BY <1>9, <2>1, <2>3
<1>11. Due(q)' = Due(q) /\ Saved' = Saved
  BY <1>1, <1>4 DEF Due, StillThere, QueriedDays, Saved
<1>12. Truthful(q, answer, Matching(q, Saved'), Due(q)', reader[q].partial)
  BY <1>5, <1>6, <1>9, <1>10, <1>11 DEF Truthful
<1>13. ReaderTrue(q)'
  BY <1>4, <1>5, <1>11, <1>12 DEF ReaderTrue, Asking
<1>14. SavedOnce' /\ WorldGoes /\ HandlesGo
  BY <1>1, WorldStands DEF AnswersInv
<1> QED BY <1>4, <1>13, <1>14, OneReaderMoves

-------------------------------------------------------------------------------
(* What the writer, the clean-up and the end of the process do to the      *)
(* answers.                                                                *)

(* A save that begins takes a shard and writes nothing.                    *)
LEMMA SaveKeepsAnswers ==
  ASSUME HistoryInv, AnswersInv, NEW b \in Batches, SaveAggregates(b)
  PROVE  AnswersInv'
<1>1. ShardOf(b) \in Days
  BY DayOfBatch
<1>2. GetOrCreateShard(ShardOf(b)) /\ UNCHANGED <<acked, now, pruned>> /\ UNCHANGED reader
  BY DEF SaveAggregates
<1>3. SavedOnce' /\ WorldGoes /\ HandlesGo
  BY <1>1, <1>2, ShardTaken DEF AnswersInv
<1> QED BY <1>2, <1>3, NoReaderMoves

(* Steps that leave the files, the shards and what is saved alone.         *)
LEMMA OthersKeepAnswers ==
  ASSUME HistoryInv, AnswersInv,
         \/ BeginTx \/ SaveFails \/ CleanupEnds \/ StoreTick
         \/ \E keep : CleanupRetention(keep) \/ DuckCleanupRetention(keep)
         \/ \E b : DuckSaveAggregates(b)
         \/ Lock \/ DuckSaveFails \/ ReadClock \/ DeleteExpired
  PROVE  AnswersInv'
<1>1. UNCHANGED <<files, disk, handles, shards, acked>> /\ UNCHANGED reader
  <2>1. CASE BeginTx \/ SaveFails \/ CleanupEnds \/ StoreTick
    BY <2>1 DEF BeginTx, SaveFails, CleanupEnds, StoreTick, fileVars, handleVars, storeHistory
  <2>2. CASE \E keep : CleanupRetention(keep) \/ DuckCleanupRetention(keep)
    BY <2>2 DEF CleanupRetention, DuckCleanupRetention, fileVars, handleVars, storeHistory
  <2>3. CASE \E b : DuckSaveAggregates(b)
    BY <2>3 DEF DuckSaveAggregates, fileVars, handleVars
  <2>4. CASE Lock
    BY <2>4 DEF Lock, storeVars
  <2>5. CASE DuckSaveFails \/ ReadClock \/ DeleteExpired
    BY <2>5 DEF DuckSaveFails, ReadClock, DeleteExpired, fileVars, handleVars, storeHistory
  <2> QED BY <2>1, <2>2, <2>3, <2>4, <2>5
<1>2. SavedOnce' /\ WorldGoes /\ HandlesGo
  BY <1>1, WorldStands DEF AnswersInv
<1> QED BY <1>1, <1>2, NoReaderMoves

(* A batch that is saved for the first time is of rows that were not.      *)
LEMMA NewRows ==
  ASSUME WriterKept, writer.at # "idle", IsFiniteSet(acked), acked' = acked \cup {writer.batch}
  PROVE  /\ writer.batch \in Batches /\ RowsOf[writer.batch] \cap Saved = {}
         /\ IsFiniteSet(acked') /\ acked' \subseteq Batches /\ acked \subseteq acked'
         /\ Saved' = Saved \cup RowsOf[writer.batch]
<1>1. writer.batch \in Batches \ acked /\ acked \subseteq Batches
  BY DEF WriterKept
<1>2. RowsOf[writer.batch] \cap Saved = {}
  BY <1>1, BatchAssumption DEF Saved
<1>3. IsFiniteSet(acked')
  BY FS_AddElement
<1> QED BY <1>1, <1>2, <1>3 DEF Saved

(* A commit adds the rows of a batch to one file.                          *)
LEMMA CommitKeepsAnswers ==
  ASSUME HistoryInv, AnswersInv, CommitTx
  PROVE  AnswersInv'
<1>1. /\ writer.at = "tx"
      /\ files' = [files EXCEPT ![handles[writer.handle].file].rows = @ \cup RowsOf[writer.batch]]
      /\ acked' = acked \cup {writer.batch}
      /\ UNCHANGED <<disk, handles, shards, reader>>
  BY DEF CommitTx, handleVars
<1>2. PICK b : b = writer.batch
  OBVIOUS
<1>3. /\ b \in Batches /\ RowsOf[b] \cap Saved = {}
      /\ IsFiniteSet(acked') /\ acked' \subseteq Batches /\ acked \subseteq acked'
      /\ Saved' = Saved \cup RowsOf[b]
  BY <1>1, <1>2, NewRows DEF HistoryInv, AnswersInv, SavedOnce
<1>4. PICK g \in 1..Len(files) : g = handles[writer.handle].file
  <2>1. writer.handle \in 1..Len(handles)
    BY <1>1 DEF HistoryInv, WriterKept
  <2>2. handles[writer.handle] \in [file : 1..Len(files), open : BOOLEAN]
    BY <2>1, HandleTyped DEF HistoryInv
  <2> QED BY <2>2
<1>5. /\ Len(files') = Len(files) /\ Len(files) \in Nat
      /\ files'[g].rows = files[g].rows \cup RowsOf[b]
      /\ files'[g].day = files[g].day
      /\ \A f \in 1..Len(files) \ {g} : files'[f] = files[f]
  <2>1. PICK File : File = [day : Days, rows : SUBSET Rows]
    OBVIOUS
  <2>2. files \in Seq(File) /\ files[g] \in File
    BY <2>1, ElementOfSeq DEF HistoryInv, FilesKept
  <2>3. PICK new : new = [files[g] EXCEPT !.rows = @ \cup RowsOf[b]]
    OBVIOUS
  <2>4. files' = [files EXCEPT ![g] = new]
    BY <1>1, <1>2, <1>4, <2>3
  <2>5. new \in File /\ new.rows = files[g].rows \cup RowsOf[b] /\ new.day = files[g].day
    <3>1. RowsOf[b] \subseteq Rows
      BY <1>3, DayOfBatch
    <3> QED BY <2>1, <2>2, <2>3, <3>1
  <2>6. /\ Len(files') = Len(files) /\ files'[g] = new
        /\ \A f \in 1..Len(files) \ {g} : files'[f] = files[f]
    BY <2>2, <2>4, <2>5, ExceptSeq
  <2> QED BY <2>2, <2>5, <2>6
<1>6. \A f \in 1..Len(files) : files[f].rows \subseteq Saved
  BY DEF AnswersInv, SavedOnce
<1>7. WorldGoes /\ HandlesGo
  <2>1. Len(files) <= Len(files')
    BY <1>5
  <2>2. \A f \in 1..Len(files) : /\ files'[f].day = files[f].day
                                 /\ files[f].rows \subseteq files'[f].rows
                                 /\ files'[f].rows \cap Saved \subseteq files[f].rows
    BY <1>3, <1>4, <1>5
  <2> QED BY <1>1, <1>3, <2>1, <2>2 DEF WorldGoes, HandlesGo
<1>8. SavedOnce'
  <2>1. \A f \in 1..Len(files) : files'[f].rows \subseteq Saved'
    BY <1>3, <1>4, <1>5, <1>6
  <2>2. ASSUME NEW f \in 1..Len(files), NEW e \in 1..Len(files), f # e
        PROVE  files'[f].rows \cap files'[e].rows = {}
    <3>1. files[f].rows \cap files[e].rows = {}
      BY <2>2 DEF AnswersInv, SavedOnce
    <3> QED BY <1>3, <1>4, <1>5, <1>6, <2>2, <3>1
  <2> QED BY <1>1, <1>3, <1>5, <2>1, <2>2 DEF AnswersInv, SavedOnce
<1> QED BY <1>1, <1>7, <1>8, NoReaderMoves

(* The handle of an expired day is closed, and stays on its file.          *)
LEMMA CloseKeepsAnswers ==
  ASSUME HistoryInv, AnswersInv, CloseExpired
  PROVE  AnswersInv'
<1>1. PICK d : d = Min(pruner.todo)
  OBVIOUS
<1>2. /\ UNCHANGED <<files, disk, acked>> /\ UNCHANGED reader
      /\ \/ UNCHANGED <<handles, shards>>
         \/ /\ shards[d] # 0 /\ handles' = [handles EXCEPT ![shards[d]].open = FALSE]
            /\ shards' = [shards EXCEPT ![d] = 0]
  BY <1>1 DEF CloseExpired, fileVars, handleVars, storeHistory, Evict
<1>3. CASE UNCHANGED <<handles, shards>>
  <2>1. SavedOnce' /\ WorldGoes /\ HandlesGo
    BY <1>2, <1>3, WorldStands DEF AnswersInv
  <2> QED BY <1>2, <2>1, NoReaderMoves
<1>4. CASE /\ shards[d] # 0 /\ handles' = [handles EXCEPT ![shards[d]].open = FALSE]
           /\ shards' = [shards EXCEPT ![d] = 0]
  <2>1. HandlesGo
    <3>1. \A h \in 1..Len(handles) : handles[h] \in [file : 1..Len(files), open : BOOLEAN]
      BY HandleTyped DEF HistoryInv
    <3>2. handles \in Seq([file : 1..Len(files), open : BOOLEAN])
      BY DEF HistoryInv, HandlesKept
    <3>3. PICK new : new = [handles[shards[d]] EXCEPT !.open = FALSE]
      OBVIOUS
    <3>4. handles' = [handles EXCEPT ![shards[d]] = new]
      BY <1>4, <3>3
    <3>5. ASSUME NEW h \in 1..Len(handles) PROVE handles'[h].file = handles[h].file
      <4>1. h \in DOMAIN handles
        BY <3>2
      <4>2. CASE h = shards[d]
        <5>1. handles'[h] = new /\ new.file = handles[h].file
          BY <3>1, <3>3, <3>4, <4>1, <4>2
        <5> QED BY <5>1
      <4>3. CASE h # shards[d]
        BY <3>4, <4>1, <4>3
      <4> QED BY <4>2, <4>3
    <3> QED BY <3>5 DEF HandlesGo
  <2>2. WorldGoes
    <3>1. acked \subseteq Batches /\ IsFiniteSet(acked) /\ Len(files) \in Nat
      BY DEF HistoryInv, WriterKept, AnswersInv, SavedOnce, FilesKept
    <3> QED BY <1>2, <3>1 DEF WorldGoes
  <2>3. shards \in [Days -> 0..Len(handles)]
    BY DEF HistoryInv, HandlesKept
  <2>4. ASSUME NEW e \in Days, shards'[e] # 0, disk'[e] # 0
        PROVE  handles'[shards'[e]].file = disk'[e]
    <3>1. shards'[e] = shards[e] /\ shards[e] \in 1..Len(handles)
      BY <1>4, <2>3, <2>4
    <3>2. handles[shards[e]].file = disk[e]
      BY <1>2, <2>4, <3>1 DEF AnswersInv, SavedOnce
    <3> QED BY <1>2, <2>1, <3>1, <3>2 DEF HandlesGo
  <2>5. SavedOnce'
    BY <1>2, <2>4 DEF AnswersInv, SavedOnce, Saved
  <2> QED BY <1>2, <2>1, <2>2, <2>5, NoReaderMoves
<1> QED BY <1>2, <1>3, <1>4

(* A file is removed from the directory, and with it what was due of it.   *)
LEMMA RemoveKeepsAnswers ==
  ASSUME HistoryInv, AnswersInv, RemoveExpired
  PROVE  AnswersInv'
<1>1. PICK d : d = Min(pruner.todo)
  OBVIOUS
<1>2. /\ UNCHANGED <<files, handles, shards, acked>> /\ UNCHANGED reader
      /\ disk' = [disk EXCEPT ![d] = 0]
  BY <1>1 DEF RemoveExpired, handleVars, storeHistory
<1>3. /\ acked \subseteq Batches /\ IsFiniteSet(acked) /\ Len(files) \in Nat
      /\ disk \in [Days -> 0..Len(files)]
  BY DEF HistoryInv, WriterKept, AnswersInv, SavedOnce, FilesKept
<1>4. \A e \in Days : disk'[e] = 0 \/ disk'[e] = disk[e]
  BY <1>2, <1>3
<1>5. WorldGoes /\ HandlesGo
  BY <1>2, <1>3, <1>4 DEF WorldGoes, HandlesGo
<1>6. SavedOnce'
  BY <1>2, <1>4 DEF AnswersInv, SavedOnce, Saved
<1> QED BY <1>2, <1>5, <1>6, NoReaderMoves

(* The process ends: of the queries only the answers that were given stay. *)
LEMMA StopKeepsAnswers ==
  ASSUME HistoryInv, AnswersInv, ProcessGone
  PROVE  AnswersInv'
<1>1. /\ UNCHANGED <<files, disk, acked>> /\ shards' = [d \in Days |-> 0]
      /\ reader' = [q \in Queries |-> IF reader[q].at \in {"answered", "served", "failed"}
                                      THEN reader[q] ELSE Unasked]
  BY DEF ProcessGone, fileVars, storeHistory
<1>2. WorldGoes
  <2>1. acked \subseteq Batches /\ IsFiniteSet(acked) /\ Len(files) \in Nat
    BY DEF HistoryInv, WriterKept, AnswersInv, SavedOnce, FilesKept
  <2> QED BY <1>1, <2>1 DEF WorldGoes
<1>3. SavedOnce'
  BY <1>1 DEF AnswersInv, SavedOnce, Saved
<1>4. ASSUME NEW q \in Queries PROVE ReaderTrue(q)'
  <2>1. CASE reader[q].at \in {"answered", "served", "failed"}
    <3>1. reader'[q] = reader[q] /\ reader[q].at \notin Asking
      BY <1>1, <2>1 DEF Asking
    <3> QED BY <1>2, <3>1, ReaderStays DEF AnswersInv
  <2>2. CASE reader[q].at \notin {"answered", "served", "failed"}
    <3>1. reader'[q].at = "unasked" /\ reader'[q].got = <<>> /\ reader'[q].sure = {}
      BY <1>1, <2>2 DEF Unasked
    <3> QED BY <3>1 DEF ReaderTrue, Asking
  <2> QED BY <2>1, <2>2
<1> QED BY <1>3, <1>4 DEF AnswersInv

(* At the start nothing is saved and nothing asked.                        *)
LEMMA AnswersStart ==
  ASSUME StoreInit
  PROVE  AnswersInv
<1>1. /\ files = <<>> /\ disk = [d \in Days |-> 0] /\ acked = {}
      /\ shards = [d \in Days |-> 0] /\ reader = [q \in Queries |-> Unasked]
  BY DEF StoreInit
<1>2. Len(files) = 0 /\ IsFiniteSet(acked)
  BY <1>1, EmptySeq, FS_EmptySet
<1>3. SavedOnce
  BY <1>1, <1>2 DEF SavedOnce
<1>4. ASSUME NEW q \in Queries PROVE ReaderTrue(q)
  <2>1. reader[q].at = "unasked" /\ reader[q].got = <<>> /\ reader[q].sure = {}
    BY <1>1 DEF Unasked
  <2> QED BY <2>1 DEF ReaderTrue, Asking
<1> QED BY <1>3, <1>4 DEF AnswersInv

(* What a query got stays true while other components move.                *)
LEMMA AnswersUntouched ==
  ASSUME HistoryInv, AnswersInv, UNCHANGED storeVars
  PROVE  AnswersInv'
<1>1. UNCHANGED <<files, disk, handles, shards, acked>> /\ UNCHANGED reader
  BY DEF storeVars
<1>2. SavedOnce' /\ WorldGoes /\ HandlesGo
  BY <1>1, WorldStands DEF AnswersInv
<1> QED BY <1>1, <1>2, NoReaderMoves

-------------------------------------------------------------------------------
(* The other backend.                                                      *)

(* A commit to the table is of rows that were not saved before.            *)
LEMMA DuckCommitKeepsAnswers ==
  ASSUME HistoryInv, AnswersInv, DuckCommit
  PROVE  AnswersInv'
<1>1. /\ writer.at = "lock" /\ acked' = acked \cup {writer.batch}
      /\ UNCHANGED <<files, disk, handles, shards, reader>>
  BY DEF DuckCommit, HasLock, HistoryInv, LockKept, fileVars, handleVars
<1>2. /\ RowsOf[writer.batch] \cap Saved = {}
      /\ IsFiniteSet(acked') /\ acked' \subseteq Batches /\ acked \subseteq acked'
      /\ Saved' = Saved \cup RowsOf[writer.batch]
  BY <1>1, NewRows DEF HistoryInv, AnswersInv, SavedOnce
<1>3. SavedOnce'
  BY <1>1, <1>2 DEF AnswersInv, SavedOnce
<1>4. WorldGoes /\ HandlesGo
  <2>1. Len(files) \in Nat
    BY DEF HistoryInv, FilesKept
  <2> QED BY <1>1, <1>2, <2>1 DEF WorldGoes, HandlesGo
<1> QED BY <1>1, <1>3, <1>4, NoReaderMoves

(* The matching rows of the table are saved, finitely many, and sound.     *)
LEMMA TableIsSound ==
  ASSUME HistoryInv, SavedOnce, NEW q \in Queries
  PROVE  /\ Matching(q, table) \in SUBSET Matching(q, SavedStamped)
         /\ IsFiniteSet(Matching(q, table))
         /\ SoundRows(Matching(q, SavedStamped)) /\ q.kind \in Kinds /\ q.limit \in Nat
<1>1. acked \in SUBSET Batches /\ IsFiniteSet(acked) /\ table \subseteq SavedStamped
  BY DEF HistoryInv, WriterKept, SavedOnce, TableKept, SavedStamped
<1>2. SoundRows(SavedStamped)
  BY <1>1, BatchesAreSound DEF SavedStamped
<1>3. /\ Matching(q, SavedStamped) \in SUBSET SavedStamped
      /\ Matching(q, table) \in SUBSET Matching(q, SavedStamped)
  BY <1>1 DEF Matching
<1>4. SoundRows(Matching(q, SavedStamped))
  BY <1>2, <1>3, PartsAreSound
<1>5. IsFiniteSet(Matching(q, table))
  BY <1>3, <1>4, FS_Subset DEF SoundRows
<1> QED BY <1>3, <1>4, <1>5, QueryAssumption

(* What one statement gave is a part of the table, whole unless it was cut *)
(* short.                                                                  *)
LEMMA OnePart ==
  ASSUME NEW q, q.kind \in Kinds, q.limit \in Nat, NEW S, IsFiniteSet(S),
         NEW T, S \subseteq T, NEW part, NEW cut \in BOOLEAN,
         IF cut THEN q.kind \in TopKinds /\ part \in mergeRows(q, S) ELSE part \in ShardParts(q, S)
  PROVE  /\ PiecesOf(q, <<part>>, T)
         /\ cut \/ (Uncut(q, <<part>>) /\ \A r \in S : InParts(q, <<part>>, r))
<1>1. PICK parts : parts = <<part>>
  OBVIOUS
<1>2. DOMAIN parts = {1} /\ parts[1] = part
  BY <1>1
<1>3. /\ part.rows \subseteq S /\ part.keys \subseteq Keys(q, part.rows)
      /\ ~cut => /\ q.kind # "records" => part.keys = Keys(q, part.rows)
                 /\ \A r \in S : r \in part.rows \/ GaveWay(q, part.rows, r)
  BY PartIsTrue
<1>4. PiecesOf(q, parts, T)
  <2>1. IsFiniteSet({1})
    BY FS_Singleton
  <2>2. part.rows \subseteq T
    BY <1>3
  <2> QED BY <1>2, <1>3, <2>1, <2>2 DEF PiecesOf
<1>5. ASSUME ~cut PROVE Uncut(q, parts) /\ \A r \in S : InParts(q, parts, r)
  BY <1>2, <1>3, <1>5 DEF Uncut, InParts
<1> QED BY <1>1, <1>4, <1>5

(* The query of one statement is true of the table.                        *)
LEMMA DuckQueryIsTrue ==
  ASSUME HistoryInv, AnswersInv, NEW q \in Queries, DuckQuery(q)
  PROVE  AnswersInv'
<1>1. /\ reader[q].at = "unasked" /\ UNCHANGED <<files, disk, handles, shards, acked>>
      /\ DOMAIN reader = Queries /\ DOMAIN reader[q] = DOMAIN Unasked
  BY DEF DuckQuery, fileVars, handleVars, storeHistory, HistoryInv, ReadersKept, ReaderKept
<1>2. PICK S : S = Matching(q, table)
  OBVIOUS
<1>3. PICK T : T = Matching(q, SavedStamped)
  OBVIOUS
<1>4. /\ S \in SUBSET T /\ IsFiniteSet(S) /\ SoundRows(T) /\ q.kind \in Kinds /\ q.limit \in Nat
      /\ Saved' = Saved /\ SavedStamped' = SavedStamped
  BY <1>1, <1>2, <1>3, TableIsSound DEF AnswersInv, Saved, SavedStamped
<1>5. SavedOnce' /\ WorldGoes /\ HandlesGo
  BY <1>1, WorldStands DEF AnswersInv
<1>6. ASSUME NEW at \in {"listing", "served"}, NEW cut \in BOOLEAN, Reads(q, at, cut),
             cut => q.kind \in TopKinds, at = "listing" => q.kind \in TopKinds
      PROVE  ReaderTrue(q)' /\ \A p \in Queries \ {q} : reader'[p] = reader[p]
  <2>1. PICK part \in Statement(q, cut) :
          LET asked == [Unasked EXCEPT !.at = at, !.sure = Matching(q, table), !.partial = cut]
          IN  IF at = "listing" THEN reader' = [reader EXCEPT ![q] = [asked EXCEPT !.got = <<part>>]]
              ELSE \E answer \in Answers(q, <<part>>) :
                     reader' = [reader EXCEPT ![q] = [asked EXCEPT !.answer = answer]]
    BY <1>6 DEF Reads
  <2>2. PICK asked : asked = [Unasked EXCEPT !.at = at, !.sure = S, !.partial = cut]
    OBVIOUS
  <2>3. DOMAIN asked = DOMAIN Unasked /\ asked.at = at /\ asked.sure = S /\ asked.partial = cut
    BY <2>2 DEF Unasked
  <2>4. IF cut THEN q.kind \in TopKinds /\ part \in mergeRows(q, S) ELSE part \in ShardParts(q, S)
    BY <1>2, <1>6, <2>1 DEF Statement
  <2>5. /\ PiecesOf(q, <<part>>, T)
        /\ cut \/ (Uncut(q, <<part>>) /\ \A r \in S : InParts(q, <<part>>, r))
    BY <1>4, <2>4, OnePart
  <2>6. CASE at = "listing"
    <3>1. PICK rd : rd = [asked EXCEPT !.got = <<part>>]
      OBVIOUS
    <3>2. reader' = [reader EXCEPT ![q] = rd]
      BY <1>2, <2>1, <2>2, <2>6, <3>1
    <3>3. reader'[q] = rd /\ \A p \in Queries \ {q} : reader'[p] = reader[p]
      BY <1>1, <3>2
    <3>4. rd.at = "listing" /\ rd.sure = S /\ rd.partial = cut /\ rd.got = <<part>>
      BY <2>3, <2>6, <3>1 DEF Unasked
    <3>5. ReaderTrue(q)'
      BY <1>3, <1>4, <1>6, <2>5, <2>6, <3>3, <3>4 DEF ReaderTrue, Asking
    <3> QED BY <3>3, <3>5
  <2>7. CASE at = "served"
    <3>1. PICK answer \in Answers(q, <<part>>) :
                 reader' = [reader EXCEPT ![q] = [asked EXCEPT !.answer = answer]]
      BY <1>2, <2>1, <2>2, <2>7
    <3>2. PICK rd : rd = [asked EXCEPT !.answer = answer]
      OBVIOUS
    <3>3. reader'[q] = rd /\ \A p \in Queries \ {q} : reader'[p] = reader[p]
      BY <1>1, <3>1, <3>2
    <3>4. rd.at = "served" /\ rd.sure = S /\ rd.partial = cut /\ rd.answer = answer
      BY <2>3, <2>7, <3>2 DEF Unasked
    <3>5. Truthful(q, answer, T, S, cut)
      <4>1. PICK parts : parts = <<part>>
        OBVIOUS
      <4>2. /\ Numbers(q, answer) /\ InventsNothing(q, T, answer)
            /\ \A D \in SUBSET T :
                 Uncut(q, parts) /\ (\A r \in D : InParts(q, parts, r)) => MissesNothing(q, D, answer)
        BY <1>4, <2>5, <3>1, <4>1, AnswersAreTrue
      <4> QED BY <1>4, <2>5, <4>1, <4>2 DEF Truthful
    <3>6. ReaderTrue(q)'
      BY <1>3, <1>4, <3>3, <3>4, <3>5 DEF ReaderTrue, Asking
    <3> QED BY <3>3, <3>6
  <2> QED BY <1>6, <2>6, <2>7
<1>7. ASSUME reader' = [reader EXCEPT ![q].at = "failed"]
      PROVE  ReaderTrue(q)' /\ \A p \in Queries \ {q} : reader'[p] = reader[p]
  <2>1. /\ \A p \in Queries \ {q} : reader'[p] = reader[p]
        /\ reader'[q].at = "failed" /\ reader'[q].sure = reader[q].sure
    BY <1>1, <1>7 DEF Unasked
  <2>2. reader[q].sure \subseteq Matching(q, Saved)
    BY <1>1 DEF AnswersInv, ReaderTrue
  <2> QED BY <1>4, <2>1, <2>2 DEF ReaderTrue, Asking
<1>8. PICK at : at = IF q.kind = "devices" THEN "listing" ELSE "served"
  OBVIOUS
<1>9. at \in {"listing", "served"} /\ (at = "listing" => q.kind \in TopKinds)
  BY <1>8 DEF TopKinds
<1>10. \/ Reads(q, at, FALSE)
       \/ q.kind \in TopKinds /\ Reads(q, at, TRUE)
       \/ reader' = [reader EXCEPT ![q].at = "failed"]
  BY <1>8 DEF DuckQuery
<1>11. ReaderTrue(q)' /\ \A p \in Queries \ {q} : reader'[p] = reader[p]
  BY <1>6, <1>7, <1>9, <1>10
<1> QED BY <1>5, <1>11, OneReaderMoves

(* And so is the answer after the devices were listed, or were not.        *)
LEMMA ListIsTrue ==
  ASSUME HistoryInv, AnswersInv, NEW q \in Queries, ListDevices(q)
  PROVE  AnswersInv'
<1>1. /\ reader[q].at = "listing" /\ UNCHANGED <<files, disk, handles, shards, acked>>
      /\ DOMAIN reader = Queries /\ DOMAIN reader[q] = DOMAIN Unasked
  BY DEF ListDevices, Listing, fileVars, handleVars, storeHistory, HistoryInv, ReadersKept, ReaderKept
<1>2. PICK answer :
        /\ answer \in Answers(q, reader[q].got) \/ answer \in SortAndLimit(Merge(q, reader[q].got), q.limit)
        /\ reader' = [reader EXCEPT ![q].at = "served", ![q].answer = answer, ![q].got = <<>>]
  BY DEF ListDevices
<1>3. /\ \A p \in Queries \ {q} : reader'[p] = reader[p]
      /\ reader'[q].at = "served" /\ reader'[q].answer = answer
      /\ reader'[q].sure = reader[q].sure /\ reader'[q].partial = reader[q].partial
  BY <1>1, <1>2 DEF Unasked
<1>4. PICK T : T = Matching(q, SavedStamped)
  OBVIOUS
<1>5. /\ q.kind \in TopKinds /\ PiecesOf(q, reader[q].got, T) /\ reader[q].sure \in SUBSET T
      /\ reader[q].partial
         \/ (Uncut(q, reader[q].got) /\ \A r \in reader[q].sure : InParts(q, reader[q].got, r))
  BY <1>1, <1>4 DEF AnswersInv, ReaderTrue
<1>6. /\ SoundRows(T) /\ q.kind \in Kinds /\ q.limit \in Nat /\ SavedStamped' = SavedStamped
  BY <1>1, <1>4, TableIsSound DEF AnswersInv, SavedStamped
<1>7. /\ Numbers(q, answer) /\ InventsNothing(q, T, answer)
      /\ \A D \in SUBSET T :
           Uncut(q, reader[q].got) /\ (\A r \in D : InParts(q, reader[q].got, r))
           => MissesNothing(q, D, answer)
  BY <1>2, <1>5, <1>6, AnswersAreTrue
<1>8. Truthful(q, answer, T, reader[q].sure, reader[q].partial)
  BY <1>5, <1>7 DEF Truthful
<1>9. ReaderTrue(q)'
  BY <1>3, <1>4, <1>5, <1>6, <1>8 DEF ReaderTrue, Asking
<1>10. SavedOnce' /\ WorldGoes /\ HandlesGo
  BY <1>1, WorldStands DEF AnswersInv
<1> QED BY <1>3, <1>9, <1>10, OneReaderMoves

(* So what a query answers is true, of either backend.                     *)
LEMMA AnswersHold ==
  ASSUME AnswersInv
  PROVE  AnswersTrue /\ DuckAnswersTrue
<1>1. ASSUME NEW q \in Queries, reader[q].at = "answered"
      PROVE  Truthful(q, reader[q].answer, Matching(q, Saved), Due(q), reader[q].partial)
  BY <1>1 DEF AnswersInv, ReaderTrue
<1>2. ASSUME NEW q \in Queries, reader[q].at = "served"
      PROVE  Truthful(q, reader[q].answer, Matching(q, SavedStamped), reader[q].sure, reader[q].partial)
  BY <1>2 DEF AnswersInv, ReaderTrue
<1>3. AnswersTrue
  BY <1>1 DEF AnswersTrue, Truthful, Due, StillThere, QueriedDays, Saved
<1>4. DuckAnswersTrue
  BY <1>2 DEF DuckAnswersTrue, Truthful, SavedStamped
<1> QED BY <1>3, <1>4
===============================================================================

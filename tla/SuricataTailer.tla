---------------------------- MODULE SuricataTailer ----------------------------
(***************************************************************************)
(* internal/suricata/tailer.go: one goroutine that follows the eve.json    *)
(* file of Suricata by polling, and raises an alert for its alert lines.   *)
(*                                                                         *)
(* The file is written by another program: whole lines or a line in two    *)
(* writes, truncated in place or renamed and created again, at any moment  *)
(* between two steps of the tailer.  A file is the sequence of its pieces, *)
(* a piece one of the two halves of a line; the second ends the line.  The *)
(* reader buffers what the file has when it asks for more (bufio.Reader).  *)
(***************************************************************************)
EXTENDS Naturals, Sequences, FiniteSetsExt

CONSTANTS
  MaxLines,  (* bound on the lines Suricata writes                          *)
  MaxFiles,  (* bound on its rotations by renaming                          *)
  AlertOf,   (* AlertOf[l]: address and signature of line l, or NoAlert     *)
  NoAlert    (* a line that is no alert, or touches no local subnet         *)

Lines == 1..MaxLines
ASSUME LineAssumption == MaxLines \in Nat /\ MaxFiles \in Nat \ {0} /\ DOMAIN AlertOf = Lines

VARIABLES
  eve,       (* the files: what was written to each                         *)
  path,      (* the file filePath names, or 0                               *)
  sink,      (* the file Suricata has open                                  *)
  written,   (* lines begun so far                                          *)
  tailer,    (* the goroutine and its local variables                       *)
  alertKeys, (* alertDeduplicator: keys set less than 15 minutes ago        *)
  processed, (* the lines handed to processLine, in order (history)         *)
  raised,    (* the lines whose alert went to SaveAnomaly (history)         *)
  torn,      (* lines the tailer took in pieces (history)                   *)
  unseen     (* lines that were in the file before it was opened, or came   *)
             (* after a truncation where the tailer had read (history)      *)

fileOfEve == <<eve, path, sink, written>>
tailHistory == <<processed, raised, torn, unseen>>
tailVars == <<fileOfEve, tailer, alertKeys, tailHistory>>

NoTailer == [at |-> "down", fd |-> 0, pos |-> 0, offset |-> 0, buffer |-> <<>>]
Half(l, n) == [line |-> l, half |-> n]
LinesIn(s) == {s[i].line : i \in 1..Len(s)}
Processed == {processed[i] : i \in DOMAIN processed}
Size(f) == Len(eve[f])
Midway == Size(sink) > 0 /\ eve[sink][Size(sink)].half = 1

-------------------------------------------------------------------------------
(* Bugs a change could introduce, each replacing the definition it is      *)
(* named after in one mutation run.                                        *)
OffsetKept == tailer.offset
AlertingByAddress(l) == AlertOf[l] # NoAlert /\ \A k \in alertKeys : k.ip # AlertOf[l].ip

-------------------------------------------------------------------------------
(* Suricata and the rotation of its log.                                   *)
Put(pieces) ==
  /\ eve' = [eve EXCEPT ![sink] = @ \o pieces]
  /\ unseen' = IF tailer.fd = sink /\ Size(sink) < tailer.pos THEN unseen \cup LinesIn(pieces) ELSE unseen

WriteEve ==
  /\ \/ /\ ~Midway /\ written < MaxLines
        /\ \/ Put(<<Half(written + 1, 1)>>)
           \/ Put(<<Half(written + 1, 1), Half(written + 1, 2)>>)
        /\ written' = written + 1
     \/ /\ Midway
        /\ Put(<<Half(written, 2)>>)
        /\ UNCHANGED written
  /\ UNCHANGED <<path, sink, tailer, alertKeys, processed, raised, torn>>

Truncate ==
  /\ ~Midway /\ Size(sink) > 0
  /\ eve' = [eve EXCEPT ![sink] = <<>>]
  /\ UNCHANGED <<path, sink, written, tailer, alertKeys, tailHistory>>

RenameEve ==
  /\ path # 0 /\ Len(eve) < MaxFiles
  /\ path' = 0
  /\ UNCHANGED <<eve, sink, written, tailer, alertKeys, tailHistory>>

CreateEve ==
  /\ path = 0 /\ ~Midway
  /\ eve' = Append(eve, <<>>)
  /\ path' = Len(eve) + 1 /\ sink' = Len(eve) + 1
  /\ UNCHANGED <<written, tailer, alertKeys, tailHistory>>

Rotate == Truncate \/ RenameEve \/ CreateEve

-------------------------------------------------------------------------------
(* Start, which without a path does nothing, and the open that is retried  *)
(* until the file exists: what it has then is skipped.                     *)
StartTailer(configured) == tailer' = IF configured THEN [NoTailer EXCEPT !.at = "open"] ELSE NoTailer

OpenEve ==
  /\ tailer.at = "open"
  /\ path # 0
  /\ tailer' = [at |-> "wait", fd |-> path, pos |-> Size(path), offset |-> Size(path), buffer |-> <<>>]
  /\ unseen' = unseen \cup LinesIn(eve[path])
  /\ UNCHANGED <<fileOfEve, alertKeys, processed, raised, torn>>

Poll ==
  /\ tailer.at = "wait"
  /\ tailer' = [tailer EXCEPT !.at = "read"]
  /\ UNCHANGED <<fileOfEve, alertKeys, tailHistory>>

Ends == {i \in DOMAIN tailer.buffer : tailer.buffer[i].half = 2}
FullLine == Ends # {}
FirstLine == SubSeq(tailer.buffer, 1, Min(Ends))

FillBuffer ==
  /\ tailer.at = "read"
  /\ ~FullLine
  /\ tailer.pos < Size(tailer.fd)
  /\ tailer' = [tailer EXCEPT !.buffer = @ \o SubSeq(eve[tailer.fd], tailer.pos + 1, Size(tailer.fd)),
                              !.pos = Size(tailer.fd)]
  /\ UNCHANGED <<fileOfEve, alertKeys, tailHistory>>

(* processLine and triggerAlert.  After a truncation or a lost first half  *)
(* what ends at a line break is no line of the file, and no JSON.          *)
Whole(text) == \E l \in Lines : text = <<Half(l, 1), Half(l, 2)>>
Alerting(l) == AlertOf[l] # NoAlert /\ AlertOf[l] \notin alertKeys

ProcessLine(l) ==
  /\ processed' = Append(processed, l)
  /\ alertKeys' = IF Alerting(l) THEN alertKeys \cup {AlertOf[l]} ELSE alertKeys
  /\ raised' = IF Alerting(l) THEN raised \cup {l} ELSE raised

ReadLine ==
  /\ tailer.at = "read"
  /\ FullLine
  /\ tailer' = [tailer EXCEPT !.buffer = SubSeq(@, Min(Ends) + 1, Len(@)), !.offset = @ + Min(Ends)]
  /\ \/ /\ Whole(FirstLine)
        /\ ProcessLine(FirstLine[1].line)
        /\ UNCHANGED torn
     \/ /\ ~Whole(FirstLine)
        /\ torn' = torn \cup LinesIn(FirstLine)
        /\ UNCHANGED <<processed, alertKeys, raised>>
  /\ UNCHANGED <<fileOfEve, unseen>>

(* ReadString gives what is left of the buffer with io.EOF, and the tailer *)
(* drops it.  Then the path is asked: a smaller size means a new file.     *)
EndOfFile ==
  /\ tailer.at = "read"
  /\ ~FullLine
  /\ tailer.pos >= Size(tailer.fd)
  /\ torn' = torn \cup LinesIn(tailer.buffer)
  /\ tailer' = [tailer EXCEPT !.buffer = <<>>,
                              !.at = IF path # 0 /\ Size(path) < tailer.offset THEN "reopen" ELSE "wait"]
  /\ UNCHANGED <<fileOfEve, alertKeys, processed, raised, unseen>>

(* The file that was open is closed before the new one is opened: if it is *)
(* gone by then, every later read fails, and nothing opens it again.       *)
OffsetAfterReopen == 0
ReopenEve ==
  /\ tailer.at = "reopen"
  /\ tailer' = IF path = 0 THEN [tailer EXCEPT !.at = "closed"]
               ELSE [at |-> "wait", fd |-> path, pos |-> 0, offset |-> OffsetAfterReopen, buffer |-> <<>>]
  /\ UNCHANGED <<fileOfEve, alertKeys, tailHistory>>

KeyExpires ==
  /\ \E k \in alertKeys : alertKeys' = alertKeys \ {k}
  /\ UNCHANGED <<fileOfEve, tailer, tailHistory>>

TailerGone ==
  /\ tailer' = NoTailer
  /\ alertKeys' = {}
  /\ torn' = torn \cup LinesIn(tailer.buffer)
  /\ UNCHANGED <<fileOfEve, processed, raised, unseen>>

TailInit ==
  /\ eve = <<<<>>>> /\ path = 1 /\ sink = 1 /\ written = 0
  /\ tailer = NoTailer
  /\ alertKeys = {} /\ processed = <<>> /\ raised = {} /\ torn = {} /\ unseen = {}

Follow == \/ OpenEve \/ Poll \/ FillBuffer \/ ReadLine \/ EndOfFile \/ ReopenEve
          \/ KeyExpires
-------------------------------------------------------------------------------
TailTypeOK ==
  /\ path \in 0..Len(eve) /\ sink \in 1..Len(eve) /\ written \in 0..MaxLines
  /\ tailer.at \in {"down", "open", "wait", "read", "reopen", "closed"}
  /\ tailer.fd \in 0..Len(eve)
  /\ tailer.offset \in 0..(2 * MaxLines) /\ tailer.pos \in 0..(2 * MaxLines)
  /\ raised \subseteq Processed /\ torn \subseteq Lines

(* However the log is rotated, and the program restarted, the tailer takes *)
(* no line twice and none before an earlier one (tailLoop).                *)
LinesInOrder ==
  \A i, j \in DOMAIN processed : i < j => processed[i] < processed[j]

(* A line the tailer has read past was processed, unless it took it in two *)
(* pieces, or it was there before the tailer opened the file; and an alert *)
(* line that was processed was reported, itself or an earlier one of its   *)
(* address and signature (tailLoop, processLine, triggerAlert).            *)
LinesAccounted ==
  /\ tailer.fd # 0 =>
       \A i \in 1..tailer.pos :
         i <= Size(tailer.fd) /\ eve[tailer.fd][i].half = 2 =>
           eve[tailer.fd][i].line \in Processed \cup LinesIn(tailer.buffer) \cup torn \cup unseen
  /\ \A i \in DOMAIN processed : AlertOf[processed[i]] # NoAlert =>
       \E j \in 1..i : /\ processed[j] \in raised
                       /\ AlertOf[processed[j]] = AlertOf[processed[i]]
===============================================================================

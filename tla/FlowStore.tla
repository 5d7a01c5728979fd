------------------------------- MODULE FlowStore -------------------------------
(***************************************************************************)
(* What the flow history promises to the rest of the program, whatever the *)
(* layout of its files: a batch is stored whole or not at all, a stored    *)
(* row stays until it is older than what a clean-up was told to keep, and  *)
(* neither a restart nor a query removes anything.                         *)
(***************************************************************************)
EXTENDS Naturals

CONSTANTS
  Batches,   (* the batches the aggregator hands over                       *)
  RowsOf,    (* RowsOf[b]: the rows of batch b                              *)
  TimeOf(_), (* the minute of a row                                         *)
  MaxClock   (* bound on the clock, in minutes                              *)

VARIABLES
  acked,     (* batches whose save returned without an error                *)
  kept,      (* rows that a later run of the program finds                  *)
  clock,     (* the minute it is                                            *)
  retention, (* the length of history the next clean-up is told to keep     *)
  pruned     (* rows before this minute may have been cleaned up            *)

promise == <<acked, kept, clock, retention, pruned>>

PromiseInit ==
  /\ acked = {} /\ kept = {}
  /\ clock = 0 /\ pruned = 0
  /\ retention \in Nat

(* A batch whose shard was cleaned up while it was being written may be    *)
(* acknowledged and gone: its rows are all older than the history kept.    *)
Commit(b) ==
  /\ b \notin acked
  /\ acked' = acked \cup {b}
  /\ \/ kept' = kept \cup RowsOf[b]
     \/ /\ \A r \in RowsOf[b] : TimeOf(r) < pruned
        /\ UNCHANGED kept
  /\ UNCHANGED <<clock, retention, pruned>>

(* A clean-up fixes what is expired by what it was told when it was called,*)
(* at most the rows before that length of history, and removes no others.  *)
Decide ==
  /\ retention <= clock
  /\ pruned' \in (pruned + 1)..(clock - retention)
  /\ UNCHANGED <<acked, kept, clock, retention>>

Expire ==
  /\ \E gone \in SUBSET kept :
       /\ \A r \in gone : TimeOf(r) < pruned
       /\ kept' = kept \ gone
  /\ UNCHANGED <<acked, clock, retention, pruned>>

Tick == clock < MaxClock /\ clock' = clock + 1 /\ UNCHANGED <<acked, kept, retention, pruned>>
Ask == retention' \in Nat /\ UNCHANGED <<acked, kept, clock, pruned>>

PromiseNext == (\E b \in Batches : Commit(b)) \/ Decide \/ Expire \/ Tick \/ Ask
PromiseSpec == PromiseInit /\ [][PromiseNext]_promise
===============================================================================

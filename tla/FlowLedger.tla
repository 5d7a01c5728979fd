------------------------------ MODULE FlowLedger ------------------------------
(***************************************************************************)
(* What the flow aggregator promises to its callers, without its buffer,   *)
(* queue, locks or goroutines: every flow event it accepts is committed to *)
(* the repository in one batch or reported lost with its batch when the    *)
(* save fails, never both and never twice, and once the aggregator is shut *)
(* down nothing accepted is left unsettled.                                *)
(***************************************************************************)
CONSTANT Events     (* the flow events handed to the aggregator            *)

VARIABLES accepted, (* events taken into the one-minute aggregation        *)
          stored,   (* events whose counters reached the repository        *)
          failed,   (* events whose batch the repository refused           *)
          closed    (* TRUE once Shutdown has returned                     *)

ledger == <<accepted, stored, failed, closed>>

InTransit == accepted \ (stored \cup failed)

Init ==
  /\ accepted = {}
  /\ stored = {}
  /\ failed = {}
  /\ closed = FALSE

Accept(e) ==
  /\ ~closed
  /\ e \notin accepted
  /\ accepted' = accepted \cup {e}
  /\ UNCHANGED <<stored, failed, closed>>

Commit(batch) ==
  /\ batch # {}
  /\ stored' = stored \cup batch
  /\ UNCHANGED <<accepted, failed, closed>>

Refuse(batch) ==
  /\ batch # {}
  /\ failed' = failed \cup batch
  /\ UNCHANGED <<accepted, stored, closed>>

Close ==
  /\ InTransit = {}
  /\ closed' = TRUE
  /\ UNCHANGED <<accepted, stored, failed>>

Next ==
  \/ \E e \in Events : Accept(e)
  \/ \E batch \in SUBSET InTransit : Commit(batch) \/ Refuse(batch)
  \/ Close

Spec == Init /\ [][Next]_ledger
===============================================================================

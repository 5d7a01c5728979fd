------------------------------ MODULE DetectorTable ------------------------------
(***************************************************************************)
(* What the stateful detectors of internal/anomaly share: a bounded table  *)
(* of profiles, pruned by a watermark over the timestamps of the rows, and *)
(* sorted lists of distinct minutes cut to the most recent ones.           *)
(*                                                                         *)
(* A timestamp is a whole minute, as FlowAggregator.Process truncates it:  *)
(* a later timestamp is later by the minute the detectors wait between two *)
(* prunings.  Rows may be late, so timestamps come in any order.           *)
(***************************************************************************)
EXTENDS Naturals, Sequences, FiniteSetsExt, SequencesExt

CONSTANTS
  Devices,     (* local source addresses                                   *)
  Minutes,     (* bound: the minutes rows may have                         *)
  Peers,       (* other local addresses, as numbers in their order         *)
  MaxPeers,    (* internalPeerMaxPeers: 256                                *)
  MaxDevices,  (* profileMaxDevices and its like                           *)
  Retention    (* minutes after which an unseen entry is pruned            *)

ASSUME TableAssumption ==
  /\ Minutes \subseteq Nat \ {0}
  /\ Peers \subseteq Nat \ {0} /\ IsFiniteSet(Peers)
  /\ MaxPeers \in Nat \ {0}
  /\ MaxDevices \in Nat \ {0}
  /\ Retention \in Nat \ {0}

NoTime == 0   (* the zero time.Time                                        *)

Later(t, watermark) == IF t > watermark THEN t ELSE watermark

Pruned(table, t, watermark) ==
  LET Kept == {k \in DOMAIN table : t <= watermark \/ table[k].lastSeen + Retention >= t}
  IN [k \in Kept |-> table[k]]

AdmitsOneTooMany(table, key) ==
  key \in DOMAIN table \/ Cardinality(DOMAIN table) <= MaxDevices
Admits(table, key) == key \in DOMAIN table \/ Cardinality(DOMAIN table) < MaxDevices

Entry(table, key, fresh) == IF key \in DOMAIN table THEN table[key] ELSE fresh

With(table, key, entry) ==
  [k \in DOMAIN table \cup {key} |-> IF k = key THEN entry ELSE table[k]]

IsTable(table, Keys, Entries, limit) ==
  /\ DOMAIN table \subseteq Keys
  /\ Cardinality(DOMAIN table) <= limit
  /\ \A k \in DOMAIN table : table[k] \in Entries

-------------------------------------------------------------------------------
LastOf(s, n) == SubSeq(s, Max({1, Len(s) - n + 1}), Len(s))

(* sort.Search: the first place whose time is not before t.                *)
Place(times, t) == Min({i \in 1..Len(times) : times[i] >= t} \cup {Len(times) + 1})

(* appendUniqueBucket, and the insertion of observeBeacon.                 *)
InsertUnique(times, t) ==
  LET i == Place(times, t)
  IN IF i <= Len(times) /\ times[i] = t THEN times ELSE InsertAt(times, i, t)

AppendUniqueKeepsOldest(times, t, limit) ==
  SubSeq(InsertUnique(times, t), 1, Min({limit, Len(InsertUnique(times, t))}))
AppendUnique(times, t, limit) == LastOf(InsertUnique(times, t), limit)

(* The reference: the limit largest elements of the times seen, in order.  *)
AreMostRecent(times, seen, limit) ==
  /\ \A i, j \in 1..Len(times) : i < j => times[i] < times[j]
  /\ ToSet(times) \subseteq seen
  /\ Len(times) = limit \/ (Len(times) < limit /\ ToSet(times) = seen)
  /\ \A old \in seen \ ToSet(times) : \A i \in 1..Len(times) : old < times[i]
===============================================================================

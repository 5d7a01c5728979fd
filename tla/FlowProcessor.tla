----------------------------- MODULE FlowProcessor -----------------------------
(***************************************************************************)
(* What the collectors and the processors share (internal/flow/event.go):  *)
(* flow events, and the chain of nested calls through which a goroutine    *)
(* takes one: DDoSDetector.Process calls DeviceProfiler.Process, which     *)
(* calls FlowAggregator.Process.  The variable call says where in that     *)
(* chain each goroutine is; the aggregator's part is module                *)
(* FlowAggregator, here one step that accepts the event.                   *)
(***************************************************************************)
EXTENDS Integers, Sequences, FiniteSets

CONSTANTS
  Hosts,        (* IP addresses                                             *)
  LocalHosts,   (* those inside cfg.LocalSubnets                            *)
  Tuples,       (* 5-tuples of flows, as far as the end points leave open   *)
  Workers       (* the decoding goroutines of the flow collector            *)

(* The other goroutines that call Process: the passive capture's eviction  *)
(* loop, and main, which emits the last captured flows.                    *)
Evictor == "evictor"
Main == "main"
Goroutines == Workers \cup {Evictor, Main}

ASSUME HostAssumption == LocalHosts \subseteq Hosts
ASSUME WorkerAssumption == Workers # {} /\ Workers \cap {Evictor, Main} = {}

Kinds == {"tcp-syn", "tcp", "udp", "icmp", "other"}
FlowEvent == [tuple : Tuples, src : Hosts, dst : Hosts, kind : Kinds, packets : Nat]

VARIABLES
  call,         (* the call each goroutine is in, or Idle                   *)
  delivered     (* packets of each flow the aggregator accepted, by the     *)
                (* goroutine that brought them                              *)

chainVars == <<call, delivered>>

Idle == [at |-> "idle"]
(* at is the next thing the call does: look the victim's counters up,      *)
(* create them, add to the field-th of them; discover hosts[1], queue its  *)
(* lookup; pass the event to the aggregator.                               *)
Steps == {"fetch", "create", "add", "discover", "send", "deliver"}
Call == [at : Steps, event : FlowEvent, counters : Nat, field : Nat, hosts : Seq(Hosts)]

CallTypeOK ==
  /\ call \in [Goroutines -> Call \cup {Idle}]
  /\ delivered \in [Goroutines -> [Tuples -> Nat]]

At(g, step) == call[g].at = step
InChain(g) == call[g] # Idle
PacketsInHand(g, k) ==
  IF InChain(g) /\ call[g].event.tuple = k THEN call[g].event.packets ELSE 0

ChainInit ==
  /\ call = [g \in Goroutines |-> Idle]
  /\ delivered = [g \in Goroutines |-> [k \in Tuples |-> 0]]

(* The local end points of a flow, source first.                           *)
IfLocal(h) == IF h \in LocalHosts THEN <<h>> ELSE <<>>
LocalIPs(e) == IfLocal(e.src) \o IfLocal(e.dst)

(* DeviceProfiler.Process calls the aggregator once every local end point  *)
(* has been discovered.                                                    *)
ProfilerStep(hosts) == IF hosts = <<>> THEN "deliver" ELSE "discover"

(* A collector calls DDoSDetector.Process: only a local victim is counted. *)
Process(g, e) ==
  /\ call[g] = Idle
  /\ call' = [call EXCEPT ![g] =
       [at |-> IF e.dst \in LocalHosts THEN "fetch" ELSE ProfilerStep(LocalIPs(e)),
        event |-> e, counters |-> 0, field |-> 1, hosts |-> LocalIPs(e)]]
  /\ UNCHANGED delivered

(* FlowAggregator.Process takes the event and the calls return.            *)
Deliver(g) ==
  /\ At(g, "deliver")
  /\ delivered' = [delivered EXCEPT ![g][call[g].event.tuple] = @ + call[g].event.packets]
  /\ call' = [call EXCEPT ![g] = Idle]
===============================================================================

----------------------------- MODULE MCIngestPath -----------------------------
(* A small instance of IngestPath.  Four loads are explored: two NetFlow      *)
(* packets that hit one victim; a packet with two events, one between two     *)
(* local hosts, whose lookup is repeated and of whose writes two may fail; a  *)
(* flow packet beside the passive capture, whose table has room for one of    *)
(* two flows; syslog messages.                                                *)
EXTENDS IngestPath, TLC

CONSTANTS f1, f2, f3, f4, s1, s2, s3, s4, k0, k1, k2, w1, w2, r1, victim, peer, remote

Syn(packets) == [tuple |-> k0, src |-> remote, dst |-> victim, kind |-> "tcp-syn",
                 packets |-> packets]
Inside == [tuple |-> k0, src |-> peer, dst |-> victim, kind |-> "udp", packets |-> 1]
Outside == [tuple |-> k0, src |-> remote, dst |-> remote, kind |-> "icmp", packets |-> 1]

MCHosts == {victim, peer, remote}
MCLocalHosts == {victim, peer}
MCWorkers == {w1, w2}
MCResolvers == {r1}
WorkerSymmetry == Permutations(MCWorkers)
MCFlowDatagrams == {f1, f2, f3, f4}
MCSyslogDatagrams == {s1, s2, s3, s4}
MCDecoded == f1 :> {{<<Syn(1)>>}, DecodeError} @@ f2 :> {{<<Syn(2)>>}}
             @@ f3 :> {{<<Inside, Outside>>}} @@ f4 :> {{<<Syn(1)>>}}
MCFields == {"PacketsIn", "FlowsIn"}
MCThresholds == [f \in MCFields |-> 1]
MCKeys == {k1, k2}
MCTuples == MCKeys \cup {k0}
MCFlow == [k \in MCKeys |-> [src |-> remote, dst |-> victim, kind |-> "tcp-syn"]]

Nothing == [k \in MCKeys |-> 0]
Load(datagrams, packets, ticks, aging, failures) ==
  [datagrams |-> datagrams, packets |-> packets, ticks |-> ticks, aging |-> aging,
   failures |-> failures]
MCWorkloads == {
  Load({f2, f4}, Nothing, 1, 0, 0),
  Load({f3}, Nothing, 0, 1, 2),
  Load({f4}, k1 :> 2 @@ k2 :> 1, 0, 0, 0),
  Load({f1, s1, s2, s3, s4}, Nothing, 0, 0, 1) }

(* Two syslog messages and nothing else.                                      *)
MCMessages == {Load({s3, s4}, Nothing, 0, 0, 0)}
===============================================================================

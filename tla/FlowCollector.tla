----------------------------- MODULE FlowCollector -----------------------------
(***************************************************************************)
(* The UDP collector (internal/collector/collector.go and                  *)
(* unifi_syslog.go): a listener per socket, the channel of raw packets     *)
(* with its decoding workers, the channel of syslog messages with its      *)
(* worker, and Shutdown.                                                   *)
(*                                                                         *)
(* A datagram is a model value; the network may lose or reorder datagrams, *)
(* so a listener reads any datagram that was not read yet, or never does.  *)
(***************************************************************************)
EXTENDS FlowProcessor

CONSTANTS
  FlowDatagrams,   (* NetFlow and sFlow packets                             *)
  Decoded,         (* the possible outcomes of decoding each: {events}, a   *)
                   (* sequence, or DecodeError                              *)
  SyslogDatagrams,
  Disallowed,      (* those whose sender is not on the allowlist            *)
  Oversized,       (* those longer than 4096 bytes                          *)
  Malformed,       (* those ParseUniFiSyslog refuses                        *)
  RawQueueSize,    (* cap(rawPacketsChan)                                   *)
  SyslogQueueSize  (* cap(syslogChan)                                       *)

DecodeError == {}
ASSUME CollectorAssumption ==
  /\ \A d \in FlowDatagrams : \A outcome \in Decoded[d] :
       Cardinality(outcome) <= 1 /\ \A events \in outcome : events \in Seq(FlowEvent)
  /\ Disallowed \cup Oversized \cup Malformed \subseteq SyslogDatagrams
  /\ RawQueueSize \in Nat \ {0}
  /\ SyslogQueueSize \in Nat \ {0}

Sockets == {"flow", "syslog"}

(* Outcomes of decodeNetFlow or decodeSFlow and normalizeFlowMessage; the  *)
(* sender check and the parser of the syslog listener and worker.          *)
Decode(d) == Decoded[d]
Allows(d) == d \notin Disallowed
Parses(d) == d \notin Malformed

VARIABLES
  unread,            (* datagrams no listener has read                      *)
  listener,          (* what the listener of each socket does               *)
  pushing,           (* the datagram it read and has yet to push            *)
  rawPacketsChan,
  syslogChan,
  channelsClosed,
  worker,            (* "waiting", "forwarding" or "done"                   *)
  pending,           (* decoded events a worker has yet to forward          *)
  syslogWorker,      (* what unifiSyslogWorkerLoop does                     *)
  handled,           (* history: datagrams dealt with, see Handled          *)
  collectorCancelled,(* c.ctx is done                                       *)
  socketsClosed,
  stats              (* the counters under statsMu                          *)

collectorVars == <<unread, listener, pushing, rawPacketsChan, syslogChan, channelsClosed,
                   worker, pending, syslogWorker, handled, collectorCancelled,
                   socketsClosed, stats>>
listenerVars == <<unread, listener, pushing>>
workerVars == <<worker, pending>>
syslogVars == <<syslogWorker>>
stopVars == <<collectorCancelled, socketsClosed, channelsClosed>>

(* Packets forwarded and messages stored; messages turned away before they *)
(* were received, and those of them that were too long.                    *)
Handled == [packets : Nat, messages : Nat, refused : Nat, oversized : Nat]
Counters == [received : Nat, receivedUniFi : Nat, dropped : Nat, droppedUniFi : Nat,
             decodeErrors : Nat, decodeErrorsUniFi : Nat]
NoStats == [received |-> 0, receivedUniFi |-> 0, dropped |-> 0, droppedUniFi |-> 0,
            decodeErrors |-> 0, decodeErrorsUniFi |-> 0]

CollectorTypeOK ==
  /\ unread \subseteq FlowDatagrams \cup SyslogDatagrams
  /\ listener \in [Sockets -> {"reading", "pushing", "done"}]
  /\ pushing \in [Sockets -> SUBSET (FlowDatagrams \cup SyslogDatagrams)]
  /\ rawPacketsChan \in Seq(FlowDatagrams) /\ Len(rawPacketsChan) <= RawQueueSize
  /\ syslogChan \in Seq(SyslogDatagrams) /\ Len(syslogChan) <= SyslogQueueSize
  /\ channelsClosed \in BOOLEAN
  /\ worker \in [Workers -> {"waiting", "forwarding", "done"}]
  /\ pending \in [Workers -> Seq(FlowEvent)]
  /\ syslogWorker \in {"waiting", "saving", "done"}
  /\ handled \in Handled
  /\ collectorCancelled \in BOOLEAN /\ socketsClosed \in BOOLEAN
  /\ stats \in Counters

CollectorInit ==
  /\ listener = [s \in Sockets |-> "reading"]
  /\ pushing = [s \in Sockets |-> {}]
  /\ rawPacketsChan = <<>>
  /\ syslogChan = <<>>
  /\ channelsClosed = FALSE
  /\ worker = [w \in Workers |-> "waiting"]
  /\ pending = [w \in Workers |-> <<>>]
  /\ syslogWorker = "waiting"
  /\ handled = [packets |-> 0, messages |-> 0, refused |-> 0, oversized |-> 0]
  /\ collectorCancelled = FALSE
  /\ socketsClosed = FALSE
  /\ stats = NoStats

-------------------------------------------------------------------------------
(* A drop and a decode error of the syslog listener and worker count in    *)
(* the total and for the source.                                           *)
UniFiDropNotInTotal(st) == [st EXCEPT !.droppedUniFi = @ + 1]
IncrementUniFiDrop(st) == [st EXCEPT !.dropped = @ + 1, !.droppedUniFi = @ + 1]
IncrementUniFiDecodeError(st) ==
  [st EXCEPT !.decodeErrors = @ + 1, !.decodeErrorsUniFi = @ + 1]

(* The listeners.  At the head of its loop a listener returns if the       *)
(* context is done, else blocks in ReadFromUDP until there is a datagram   *)
(* or the socket is closed.                                                *)
HeadOfLoop == IF collectorCancelled THEN "done" ELSE "reading"

Read(s, d) ==
  /\ listener[s] = "reading"
  /\ ~socketsClosed
  /\ d \in unread
  /\ unread' = unread \ {d}

ReceiveFlow(d) ==
  /\ d \in FlowDatagrams
  /\ Read("flow", d)
  /\ stats' = [stats EXCEPT !.received = @ + 1]
  /\ listener' = [listener EXCEPT !["flow"] = "pushing"]
  /\ pushing' = [pushing EXCEPT !["flow"] = {d}]
  /\ UNCHANGED <<chainVars, handled, rawPacketsChan, syslogChan, workerVars, syslogVars, stopVars>>

ReceiveSyslog(d) ==
  /\ d \in SyslogDatagrams
  /\ Read("syslog", d)
  /\ \/ /\ ~Allows(d) \/ d \in Oversized
        /\ stats' = IF ~Allows(d) THEN IncrementUniFiDrop(stats)
                    ELSE IncrementUniFiDecodeError(IncrementUniFiDrop(stats))
        /\ handled' = [handled EXCEPT !.refused = @ + 1,
             !.oversized = IF ~Allows(d) THEN @ ELSE @ + 1]
        /\ listener' = [listener EXCEPT !["syslog"] = HeadOfLoop]
        /\ UNCHANGED pushing
     \/ /\ Allows(d) /\ d \notin Oversized
        /\ stats' = [stats EXCEPT !.received = @ + 1, !.receivedUniFi = @ + 1]
        /\ listener' = [listener EXCEPT !["syslog"] = "pushing"]
        /\ pushing' = [pushing EXCEPT !["syslog"] = {d}]
        /\ UNCHANGED handled
  /\ UNCHANGED <<chainVars, rawPacketsChan, syslogChan, workerVars, syslogVars, stopVars>>

(* The push takes the default branch, and counts a drop, when the channel  *)
(* is full; on a closed channel it panics (see NoSendOnClosedChannel).     *)
PushFlow(d) ==
  /\ d \in pushing["flow"]
  /\ ~channelsClosed
  /\ \/ /\ Len(rawPacketsChan) < RawQueueSize
        /\ rawPacketsChan' = Append(rawPacketsChan, d)
        /\ UNCHANGED stats
     \/ /\ Len(rawPacketsChan) = RawQueueSize
        /\ stats' = [stats EXCEPT !.dropped = @ + 1]
        /\ UNCHANGED rawPacketsChan
  /\ pushing' = [pushing EXCEPT !["flow"] = {}]
  /\ listener' = [listener EXCEPT !["flow"] = HeadOfLoop]
  /\ UNCHANGED <<chainVars, handled, unread, syslogChan, workerVars, syslogVars, stopVars>>

PushSyslog(d) ==
  /\ d \in pushing["syslog"]
  /\ ~channelsClosed
  /\ \/ /\ Len(syslogChan) < SyslogQueueSize
        /\ syslogChan' = Append(syslogChan, d)
        /\ UNCHANGED stats
     \/ /\ Len(syslogChan) = SyslogQueueSize
        /\ stats' = IncrementUniFiDrop(stats)
        /\ UNCHANGED syslogChan
  /\ pushing' = [pushing EXCEPT !["syslog"] = {}]
  /\ listener' = [listener EXCEPT !["syslog"] = HeadOfLoop]
  /\ UNCHANGED <<chainVars, handled, unread, rawPacketsChan, workerVars, syslogVars, stopVars>>

ListenerExit(s) ==
  /\ listener[s] = "reading"
  /\ socketsClosed
  /\ listener' = [listener EXCEPT ![s] = "done"]
  /\ UNCHANGED <<chainVars, handled, unread, pushing, rawPacketsChan, syslogChan, workerVars,
                 syslogVars, stopVars, stats>>

-------------------------------------------------------------------------------
(* workerLoop: a worker ranges over the channel until it is closed and     *)
(* empty; the events of a packet are forwarded one after the other.        *)
TakePacket(w) ==
  /\ worker[w] = "waiting"
  /\ rawPacketsChan # <<>>
  /\ rawPacketsChan' = Tail(rawPacketsChan)
  /\ \E outcome \in Decode(Head(rawPacketsChan)) :
       \/ /\ outcome = DecodeError
          /\ stats' = [stats EXCEPT !.decodeErrors = @ + 1]
          /\ UNCHANGED workerVars
       \/ \E events \in outcome :
            /\ pending' = [pending EXCEPT ![w] = events]
            /\ worker' = [worker EXCEPT ![w] = "forwarding"]
            /\ UNCHANGED stats
  /\ UNCHANGED <<chainVars, handled, listenerVars, syslogChan, syslogVars, stopVars>>

ForwardEvent(w) ==
  /\ worker[w] = "forwarding"
  /\ pending[w] # <<>>
  /\ Process(w, Head(pending[w]))
  /\ pending' = [pending EXCEPT ![w] = Tail(@)]
  /\ UNCHANGED <<handled, listenerVars, rawPacketsChan, syslogChan, worker, syslogVars, stopVars, stats>>

PacketDone(w) ==
  /\ worker[w] = "forwarding"
  /\ pending[w] = <<>>
  /\ ~InChain(w)
  /\ worker' = [worker EXCEPT ![w] = "waiting"]
  /\ handled' = [handled EXCEPT !.packets = @ + 1]
  /\ UNCHANGED <<chainVars, listenerVars, rawPacketsChan, syslogChan, pending, syslogVars,
                 stopVars, stats>>

MayLeaveOnCancel == collectorCancelled
MayLeave == channelsClosed /\ rawPacketsChan = <<>>

WorkerLeaves(w) ==
  /\ worker[w] = "waiting"
  /\ MayLeave
  /\ worker' = [worker EXCEPT ![w] = "done"]
  /\ UNCHANGED <<chainVars, handled, listenerVars, rawPacketsChan, syslogChan, pending, syslogVars,
                 stopVars, stats>>

-------------------------------------------------------------------------------
(* unifiSyslogWorkerLoop: a message is parsed, stored and, if it reports   *)
(* something severe, saved as an anomaly (see AlertPipeline!Report).       *)
TakeMessage ==
  /\ syslogWorker = "waiting"
  /\ syslogChan # <<>>
  /\ syslogChan' = Tail(syslogChan)
  /\ \/ /\ ~Parses(Head(syslogChan))
        /\ stats' = IncrementUniFiDecodeError(stats)
        /\ UNCHANGED syslogWorker
     \/ /\ Parses(Head(syslogChan))
        /\ syslogWorker' = "saving"
        /\ UNCHANGED stats
  /\ UNCHANGED <<chainVars, listenerVars, rawPacketsChan, workerVars, handled, stopVars>>

StoreMessage ==
  /\ syslogWorker = "saving"
  /\ syslogWorker' = "waiting"
  /\ handled' = [handled EXCEPT !.messages = @ + 1]
  /\ UNCHANGED <<chainVars, listenerVars, rawPacketsChan, syslogChan, workerVars,
                 stopVars, stats>>

(* Unlike the other workers it also returns when the context is done.      *)
SyslogWorkerLeaves ==
  /\ syslogWorker = "waiting"
  /\ collectorCancelled \/ (channelsClosed /\ syslogChan = <<>>)
  /\ syslogWorker' = "done"
  /\ UNCHANGED <<chainVars, handled, listenerVars, rawPacketsChan, syslogChan, workerVars,
                 stopVars, stats>>

-------------------------------------------------------------------------------
(* Shutdown, in its order.                                                 *)
CancelCollector ==
  /\ ~collectorCancelled
  /\ collectorCancelled' = TRUE
  /\ UNCHANGED <<handled, listenerVars, rawPacketsChan, syslogChan, workerVars, syslogVars,
                 socketsClosed, channelsClosed, stats>>

CloseListeners ==
  /\ collectorCancelled /\ ~socketsClosed
  /\ socketsClosed' = TRUE
  /\ UNCHANGED <<handled, listenerVars, rawPacketsChan, syslogChan, workerVars, syslogVars,
                 collectorCancelled, channelsClosed, stats>>

ListenersNotAwaited == TRUE
ListenersGone == \A s \in Sockets : listener[s] = "done"

CloseChannels ==
  /\ socketsClosed /\ ~channelsClosed
  /\ ListenersGone
  /\ channelsClosed' = TRUE
  /\ UNCHANGED <<handled, listenerVars, rawPacketsChan, syslogChan, workerVars, syslogVars,
                 collectorCancelled, socketsClosed, stats>>

CollectorGone ==
  /\ channelsClosed
  /\ \A w \in Workers : worker[w] = "done"
  /\ syslogWorker = "done"
===============================================================================

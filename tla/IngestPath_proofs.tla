---------------------------- MODULE IngestPath_proofs ----------------------------
(***************************************************************************)
(* Proofs about the way of a flow from the wire to the aggregator, module  *)
(* IngestPath, for every number of workers, hosts, datagrams, resolvers    *)
(* and captured flows.                                                     *)
(***************************************************************************)
EXTENDS IngestPath, FiniteSetTheorems, SequenceTheorems, TLAPS

-------------------------------------------------------------------------------
(* Where a call is determines what it carries: the hosts it has yet to     *)
(* discover are local, and the counters it adds to are those of its victim. *)
CallSound(c) ==
  /\ c.hosts \in Seq(LocalHosts)
  /\ c.at \in {"discover", "send"} => c.hosts # <<>>
  /\ c.at \in {"fetch", "create", "add"} => c.event.dst \in LocalHosts
  /\ c.at \in {"fetch", "create"} => c.field = 1
  /\ c.at = "add" => c.field \in 1..Len(FieldsOf(c.event))
CountersFetched(c) ==
  c.at = "add" => c.counters = rates[c.event.dst] /\ c.counters # 0
CallsSound == \A g \in Goroutines :
  InChain(g) => CallSound(call[g]) /\ CountersFetched(call[g])

(* Counters are owned: no two hosts share them, and the monitor swaps only *)
(* those of hosts that have some.                                          *)
RatesOwned ==
  /\ \A h1, h2 \in LocalHosts : rates[h1] = rates[h2] /\ rates[h1] # 0 => h1 = h2
  /\ \A h \in LocalHosts : swaps[h] # <<>> => rates[h] # 0

(* The calls and the detector.                                             *)
ChainInv == CallTypeOK /\ DDoSTypeOK /\ CallsSound /\ RatesOwned /\ RatesConserved

(* An event has at least the first two fields, and only tracked ones.      *)
LEMMA FieldsOfTyped ==
  ASSUME NEW e \in FlowEvent
  PROVE  FieldsOf(e) \in Seq(Fields) /\ Len(FieldsOf(e)) \in Nat \ {0}
<1> DEFINE Rest == CASE e.kind = "tcp-syn" -> IfTracked("SYNPacketsIn")
                     [] e.kind = "udp" -> IfTracked("UDPPacketsIn")
                     [] e.kind = "icmp" -> IfTracked("ICMPPacketsIn")
                     [] OTHER -> <<>>
<1>1. \A f : IfTracked(f) \in Seq(Fields)
  BY DEF IfTracked
<1>2. Rest \in Seq(Fields)
  BY <1>1
<1>3. <<"PacketsIn", "FlowsIn">> \in Seq(Fields) /\ Len(<<"PacketsIn", "FlowsIn">>) = 2
  BY FieldAssumption
<1> HIDE DEF Rest
<1>4. FieldsOf(e) = <<"PacketsIn", "FlowsIn">> \o Rest
  BY DEF FieldsOf, Rest
<1> QED BY <1>2, <1>3, <1>4

(* The fields the monitor swaps of a host are tracked, and there are some.  *)
LEMMA FieldOrderTyped == FieldOrder \in Seq(Fields) /\ FieldOrder # <<>>
<1>1. \A f : IfTracked(f) \in Seq(Fields)
  BY DEF IfTracked
<1>2. <<"PacketsIn", "FlowsIn">> \in Seq(Fields) /\ Len(<<"PacketsIn", "FlowsIn">>) = 2
  BY FieldAssumption
<1>3. ASSUME NEW a \in Seq(Fields), NEW b \in Seq(Fields), NEW c \in Seq(Fields),
             NEW d \in Seq(Fields), Len(a) = 2
      PROVE  a \o b \o c \o d \in Seq(Fields) /\ a \o b \o c \o d # <<>>
  <2>1. a \o b \in Seq(Fields) /\ Len(a \o b) >= 2
    <3>1. Len(a \o b) = Len(a) + Len(b) /\ Len(b) \in Nat
      BY <1>3, ConcatProperties, LenProperties
    <3> QED BY <3>1, <1>3
  <2>2. a \o b \o c \in Seq(Fields) /\ Len(a \o b \o c) >= 2
    BY <2>1, <1>3
  <2>3. a \o b \o c \o d \in Seq(Fields) /\ Len(a \o b \o c \o d) >= 2
    BY <2>2, <1>3
  <2> QED BY <2>3
<1> QED BY <1>1, <1>2, <1>3 DEF FieldOrder

(* The local end points of an event.                                       *)
LEMMA LocalIPsTyped ==
  ASSUME NEW e \in FlowEvent
  PROVE  /\ LocalIPs(e) \in Seq(LocalHosts)
         /\ LocalIPs(e) \in Seq(Hosts)
<1>1. \A h : IfLocal(h) \in Seq(LocalHosts) /\ IfLocal(h) \in Seq(Hosts)
  BY HostAssumption DEF IfLocal
<1> QED BY <1>1 DEF LocalIPs

(* A call that went one step and left the counters of every host in place. *)
RatesKept == \A h \in LocalHosts : rates[h] # 0 => rates'[h] = rates[h]
OnlyMoves(g) == \A other \in Goroutines \ {g} : call'[other] = call[other]

(* The calls stay sound when the one that moved is.                        *)
LEMMA OthersSound ==
  ASSUME CallTypeOK, CallsSound, NEW g \in Goroutines, OnlyMoves(g), RatesKept,
         InChain(g)' => CallSound(call'[g]) /\ CountersFetched(call[g])'
  PROVE  CallsSound'
<1> SUFFICES ASSUME NEW other \in Goroutines, InChain(other)'
             PROVE  CallSound(call'[other]) /\ CountersFetched(call[other])'
  BY DEF CallsSound
<1>1. CASE other = g
  BY <1>1
<1>2. CASE other # g
  <2>1. call'[other] = call[other]
    BY <1>2 DEF OnlyMoves
  <2>2. CallSound(call[other]) /\ CountersFetched(call[other])
    BY <2>1 DEF CallsSound, InChain
  <2>3. CountersFetched(call[other])'
    <3> SUFFICES ASSUME call[other].at = "add"
                 PROVE  /\ call[other].counters = rates'[call[other].event.dst]
                        /\ call[other].counters # 0
      BY <2>1 DEF CountersFetched
    <3>1. call[other].event.dst \in LocalHosts
      BY <2>2 DEF CallSound
    <3>2. call[other].counters = rates[call[other].event.dst] /\ call[other].counters # 0
      BY <2>2 DEF CountersFetched
    <3> QED BY <3>1, <3>2 DEF RatesKept
  <2> QED BY <2>1, <2>2, <2>3
<1> QED BY <1>1, <1>2

(* A call in the chain is a record of the type Call.                       *)
LEMMA CallTyped ==
  ASSUME CallTypeOK, NEW g \in Goroutines, call[g].at \in Steps
  PROVE  call[g] \in Call /\ call[g].event \in FlowEvent /\ InChain(g)
<1>1. Idle.at = "idle" /\ call[g] \in Call \cup {Idle}
  BY DEF Idle, CallTypeOK
<1>2. "idle" \notin Steps
  BY DEF Steps
<1>3. call[g] # Idle
  BY <1>1, <1>2
<1> QED BY <1>1, <1>3 DEF Call, InChain

(* Only the call of the goroutine that moved is another.                   *)
LEMMA CallReplaced ==
  ASSUME CallTypeOK, NEW g \in Goroutines, NEW c \in Call,
         call' = [call EXCEPT ![g] = c], UNCHANGED delivered
  PROVE  CallTypeOK' /\ OnlyMoves(g) /\ call'[g] = c
<1>1. call \in [Goroutines -> Call \cup {Idle}]
  BY DEF CallTypeOK
<1>2. /\ call' \in [Goroutines -> Call \cup {Idle}] /\ call'[g] = c
      /\ \A other \in Goroutines \ {g} : call'[other] = call[other]
  BY <1>1
<1>3. delivered' \in [Goroutines -> [Tuples -> Nat]]
  BY DEF CallTypeOK
<1> QED BY <1>2, <1>3 DEF CallTypeOK, OnlyMoves

(* The lookup of the counters.                                             *)
LEMMA FetchStep ==
  ASSUME ChainInv, NEW g \in Goroutines, FetchRates(g)
  PROVE  ChainInv'
<1>1. call[g] \in Call /\ call[g].event \in FlowEvent /\ InChain(g) /\ call[g].at = "fetch"
  BY CallTyped DEF ChainInv, FetchRates, At, Steps
<1>2. CallSound(call[g]) /\ call[g].event.dst \in LocalHosts /\ call[g].field = 1
  BY <1>1 DEF ChainInv, CallsSound, CallSound
<1> DEFINE r == rates[call[g].event.dst]
           c == [call[g] EXCEPT !.at = IF r = 0 THEN "create" ELSE "add", !.counters = r]
<1>3. r \in 0..Len(counters) /\ Len(counters) \in Nat
  BY <1>2 DEF ChainInv, DDoSTypeOK
<1>4. call' = [call EXCEPT ![g] = c]
  BY DEF FetchRates, Victim
<1>5. /\ c \in Call /\ c.hosts = call[g].hosts /\ c.event = call[g].event
      /\ c.field = call[g].field /\ c.counters = r
      /\ c.at = IF r = 0 THEN "create" ELSE "add"
  <2>1. call[g] \in [at : Steps, event : FlowEvent, counters : Nat, field : Nat,
                     hosts : Seq(Hosts)]
    BY <1>1 DEF Call
  <2>2. (IF r = 0 THEN "create" ELSE "add") \in Steps /\ r \in Nat
    BY <1>3 DEF Steps
  <2> QED BY <2>1, <2>2 DEF Call
<1> HIDE DEF c
<1>6. CallTypeOK' /\ OnlyMoves(g) /\ call'[g] = c
  BY <1>4, <1>5, CallReplaced DEF FetchRates, ChainInv
<1>7. UNCHANGED ddosVars /\ RatesKept
  BY DEF FetchRates, RatesKept, ddosVars
<1>8. CallSound(c) /\ CountersFetched(call[g])'
  <2>1. Len(FieldsOf(call[g].event)) \in Nat \ {0}
    BY <1>1, FieldsOfTyped
  <2>2. CallSound(c)
    BY <1>2, <1>5, <2>1 DEF CallSound
  <2>3. CountersFetched(call[g])'
    BY <1>5, <1>6, <1>7 DEF CountersFetched, ddosVars
  <2> QED BY <2>2, <2>3
<1>9. CallsSound'
  BY <1>6, <1>7, <1>8, OthersSound DEF ChainInv
<1> QED
  BY <1>6, <1>7, <1>9 DEF ChainInv, DDoSTypeOK, RatesOwned, RatesConserved, ddosVars
(* The creation of the counters, if they are still missing.                *)
LEMMA CreateStep ==
  ASSUME ChainInv, NEW g \in Goroutines, CreateRates(g)
  PROVE  ChainInv'
<1> DEFINE v == call[g].event.dst
<1>1. call[g] \in Call /\ call[g].event \in FlowEvent /\ InChain(g) /\ call[g].at = "create"
  BY CallTyped DEF ChainInv, CreateRates, At, Steps
<1>2. CallSound(call[g]) /\ v \in LocalHosts /\ call[g].field = 1
  BY <1>1 DEF ChainInv, CallsSound, CallSound
<1>3. /\ rates \in [LocalHosts -> 0..Len(counters)] /\ counters \in Seq(Counts)
      /\ Len(counters) \in Nat /\ uncounted \in [LocalHosts -> [Fields -> Int]]
  BY DEF ChainInv, DDoSTypeOK
<1>4. NoCounts \in Counts
  BY DEF NoCounts, Counts
<1>5. /\ rates' \in [LocalHosts -> 0..Len(counters')] /\ counters' \in Seq(Counts)
      /\ \A h \in LocalHosts \ {v} : rates'[h] = rates[h]
      /\ rates'[v] # 0 /\ RatesKept
      /\ \A h1, h2 \in LocalHosts : rates'[h1] = rates'[h2] /\ rates'[h1] # 0 => h1 = h2
      /\ \A h \in LocalHosts :
           rates[h] # 0 => counters'[rates'[h]] = counters[rates[h]]
      /\ rates[v] = 0 => counters'[rates'[v]] = NoCounts
  <2>1. CASE rates[v] # 0
    <3>1. UNCHANGED <<counters, rates>>
      BY <2>1 DEF CreateRates, Victim, CountersMissing
    <3> QED BY <3>1, <2>1, <1>2, <1>3 DEF RatesKept, ChainInv, RatesOwned
  <2>2. CASE rates[v] = 0
    <3>1. /\ counters' = Append(counters, NoCounts)
          /\ rates' = [rates EXCEPT ![v] = Len(counters')]
      BY <2>2 DEF CreateRates, Victim, CountersMissing
    <3>2. /\ Len(counters') = Len(counters) + 1 /\ counters' \in Seq(Counts)
          /\ counters'[Len(counters) + 1] = NoCounts
          /\ \A i \in 1..Len(counters) : counters'[i] = counters[i]
      BY <3>1, <1>3, <1>4, AppendProperties
    <3>3. /\ rates'[v] = Len(counters) + 1
          /\ \A h \in LocalHosts \ {v} : rates'[h] = rates[h]
          /\ rates' \in [LocalHosts -> 0..Len(counters')]
      BY <3>1, <3>2, <1>2, <1>3
    <3>4. \A h1, h2 \in LocalHosts : rates[h1] = rates[h2] /\ rates[h1] # 0 => h1 = h2
      BY DEF ChainInv, RatesOwned
    <3>5. \A h1, h2 \in LocalHosts : rates'[h1] = rates'[h2] /\ rates'[h1] # 0 => h1 = h2
      BY <3>3, <3>4, <1>2, <1>3
    <3>6. \A h \in LocalHosts : rates[h] # 0 => rates[h] \in 1..Len(counters) /\ h # v
      BY <2>2, <1>3
    <3>7. \A h \in LocalHosts : rates[h] # 0 => counters'[rates'[h]] = counters[rates[h]]
      BY <3>2, <3>3, <3>6
    <3>8. RatesKept
      BY <3>3, <3>6 DEF RatesKept
    <3> QED BY <2>2, <3>2, <3>3, <3>5, <3>7, <3>8, <1>3
  <2> QED BY <2>1, <2>2
<1> DEFINE c == [call[g] EXCEPT !.at = "add", !.counters = rates'[v]]
<1>6. call' = [call EXCEPT ![g] = c]
  BY DEF CreateRates, Victim
<1>7. /\ c \in Call /\ c.hosts = call[g].hosts /\ c.event = call[g].event
      /\ c.field = call[g].field /\ c.counters = rates'[v] /\ c.at = "add"
  <2>1. call[g] \in [at : Steps, event : FlowEvent, counters : Nat, field : Nat,
                     hosts : Seq(Hosts)]
    BY <1>1 DEF Call
  <2>2. Len(counters') \in Nat
    BY <1>5
  <2>3. "add" \in Steps /\ rates'[v] \in Nat
    BY <1>2, <1>5, <2>2 DEF Steps
  <2> QED BY <2>1, <2>3 DEF Call
<1> HIDE DEF c
<1>8. CallTypeOK' /\ OnlyMoves(g) /\ call'[g] = c
  BY <1>6, <1>7 DEF CreateRates, ChainInv, CallTypeOK, OnlyMoves
<1>9. CallSound(c) /\ CountersFetched(call[g])'
  <2>1. Len(FieldsOf(call[g].event)) \in Nat \ {0}
    BY <1>1, FieldsOfTyped
  <2>2. CallSound(c)
    BY <1>2, <1>7, <2>1 DEF CallSound
  <2>3. CountersFetched(call[g])'
    BY <1>5, <1>7, <1>8 DEF CountersFetched
  <2> QED BY <2>2, <2>3
<1>10. CallsSound'
  BY <1>5, <1>8, <1>9, OthersSound DEF ChainInv
<1>11. /\ UNCHANGED <<delivered, monitor, swaps, snapshot, alertDeduplicator,
                      ticksLeft, ddosCancelled, uncounted>>
  BY DEF CreateRates
<1>12. DDoSTypeOK'
  BY <1>5, <1>11 DEF ChainInv, DDoSTypeOK
<1>13. RatesOwned'
  BY <1>5, <1>11 DEF ChainInv, RatesOwned, RatesKept
<1>14. RatesConserved'
  <2> SUFFICES ASSUME NEW h \in LocalHosts
               PROVE  uncounted[h] = IF rates'[h] = 0 THEN NoCounts ELSE counters'[rates'[h]]
    BY <1>11 DEF RatesConserved
  <2>1. uncounted[h] = IF rates[h] = 0 THEN NoCounts ELSE counters[rates[h]]
    BY DEF ChainInv, RatesConserved
  <2> QED BY <2>1, <1>5 DEF RatesKept
<1> QED BY <1>8, <1>10, <1>12, <1>13, <1>14 DEF ChainInv
(* An addition to a counter of the victim.                                 *)
LEMMA AddStep ==
  ASSUME ChainInv, NEW g \in Goroutines, AddToField(g)
  PROVE  ChainInv'
<1> DEFINE e == call[g].event
           i == call[g].field
           n == call[g].counters
           f == FieldsOf(e)[i]
           amount == Amount(e, f)
<1>1. call[g] \in Call /\ e \in FlowEvent /\ InChain(g) /\ call[g].at = "add"
  BY CallTyped DEF ChainInv, AddToField, At, Steps
<1>2. /\ CallSound(call[g]) /\ e.dst \in LocalHosts /\ i \in 1..Len(FieldsOf(e))
      /\ n = rates[e.dst] /\ n # 0
  BY <1>1 DEF ChainInv, CallsSound, CallSound, CountersFetched
<1>3. /\ rates \in [LocalHosts -> 0..Len(counters)] /\ counters \in Seq(Counts)
      /\ Len(counters) \in Nat /\ uncounted \in [LocalHosts -> [Fields -> Int]]
  BY DEF ChainInv, DDoSTypeOK
<1>4. FieldsOf(e) \in Seq(Fields) /\ Len(FieldsOf(e)) \in Nat
  BY <1>1, FieldsOfTyped
<1>5. f \in Fields
  BY <1>2, <1>4
<1>6. amount \in Nat
  BY <1>1 DEF Amount, FlowEvent
<1>7. n \in 1..Len(counters)
  BY <1>2, <1>3
<1>8. /\ counters' = [counters EXCEPT ![n][f] = @ + amount]
      /\ uncounted' = [uncounted EXCEPT ![e.dst][f] = @ + amount]
      /\ UNCHANGED <<delivered, rates, monitor, swaps, snapshot, alertDeduplicator,
                     ticksLeft, ddosCancelled>>
  BY DEF AddToField
<1> DEFINE step == IF i = Len(FieldsOf(e)) THEN ProfilerStep(call[g].hosts) ELSE "add"
           c == [call[g] EXCEPT !.field = i + 1, !.at = step]
<1>9. call' = [call EXCEPT ![g] = c]
  BY DEF AddToField
<1>10. /\ c \in Call /\ c.hosts = call[g].hosts /\ c.event = e
       /\ c.field = i + 1 /\ c.counters = n /\ c.at = step
  <2>1. call[g] \in [at : Steps, event : FlowEvent, counters : Nat, field : Nat,
                     hosts : Seq(Hosts)]
    BY <1>1 DEF Call
  <2>2. step \in Steps /\ i + 1 \in Nat
    BY <1>2, <1>4 DEF Steps, ProfilerStep
  <2> QED BY <2>1, <2>2 DEF Call
<1> HIDE DEF c
<1>11. CallTypeOK' /\ OnlyMoves(g) /\ call'[g] = c
  BY <1>8, <1>9, <1>10 DEF ChainInv, CallTypeOK, OnlyMoves
<1>12. CallSound(c) /\ CountersFetched(call[g])' /\ RatesKept
  <2>1. step = "add" => i + 1 \in 1..Len(FieldsOf(e))
    BY <1>2, <1>4 DEF ProfilerStep
  <2>2. step \in {"deliver", "discover", "add"}
        /\ (step = "discover" => call[g].hosts # <<>>)
    BY DEF ProfilerStep
  <2>3. CallSound(c)
    BY <1>2, <1>10, <2>1, <2>2 DEF CallSound
  <2>4. CountersFetched(call[g])'
    BY <1>2, <1>8, <1>10, <1>11 DEF CountersFetched
  <2> QED BY <2>3, <2>4, <1>8 DEF RatesKept
<1>13. CallsSound'
  BY <1>11, <1>12, OthersSound DEF ChainInv
<1>14. /\ counters' \in Seq(Counts) /\ Len(counters') = Len(counters)
       /\ counters'[n] = [counters[n] EXCEPT ![f] = @ + amount]
       /\ \A m \in 1..Len(counters) : m # n => counters'[m] = counters[m]
  <2>1. counters[n] \in [Fields -> Nat]
    BY <1>3, <1>7 DEF Counts
  <2>2. [counters[n] EXCEPT ![f] = @ + amount] \in Counts
    BY <2>1, <1>5, <1>6 DEF Counts
  <2>3. counters' = [counters EXCEPT ![n] = [counters[n] EXCEPT ![f] = @ + amount]]
    BY <1>8
  <2> HIDE DEF amount, f
  <2> QED BY <2>2, <2>3, <1>3, <1>7, ExceptSeq
<1>15. /\ uncounted' \in [LocalHosts -> [Fields -> Int]]
       /\ uncounted'[e.dst] = [uncounted[e.dst] EXCEPT ![f] = @ + amount]
       /\ \A h \in LocalHosts \ {e.dst} : uncounted'[h] = uncounted[h]
  <2> DEFINE row == [uncounted[e.dst] EXCEPT ![f] = @ + amount]
  <2>1. row \in [Fields -> Int]
    <3>1. \A a \in Nat, r \in [Fields -> Int], x \in Fields :
            [r EXCEPT ![x] = @ + a] \in [Fields -> Int]
      OBVIOUS
    <3>2. uncounted[e.dst] \in [Fields -> Int]
      BY <1>2, <1>3
    <3> HIDE DEF amount, f
    <3> QED BY <3>1, <3>2, <1>5, <1>6
  <2>2. uncounted' = [uncounted EXCEPT ![e.dst] = row]
    BY <1>8
  <2> HIDE DEF row
  <2>3. /\ uncounted' \in [LocalHosts -> [Fields -> Int]]
        /\ uncounted'[e.dst] = row
        /\ \A h \in LocalHosts \ {e.dst} : uncounted'[h] = uncounted[h]
    BY <2>1, <2>2, <1>2, <1>3
  <2> QED BY <2>3 DEF row
<1>16. DDoSTypeOK'
  BY <1>3, <1>8, <1>14, <1>15 DEF ChainInv, DDoSTypeOK
<1>17. RatesOwned'
  BY <1>8 DEF ChainInv, RatesOwned
<1>18. RatesConserved'
  <2> SUFFICES ASSUME NEW h \in LocalHosts
               PROVE  uncounted'[h] = IF rates[h] = 0 THEN NoCounts ELSE counters'[rates[h]]
    <3>1. rates' = rates
      BY <1>8
    <3> QED BY <3>1 DEF RatesConserved
  <2>1. uncounted[h] = IF rates[h] = 0 THEN NoCounts ELSE counters[rates[h]]
    BY DEF ChainInv, RatesConserved
  <2>2. CASE h = e.dst
    <3>1. rates[h] = n /\ n # 0
      BY <2>2, <1>2
    <3>2. uncounted[h] = counters[n]
      BY <2>1, <3>1
    <3>3. uncounted'[h] = [counters[n] EXCEPT ![f] = @ + amount]
      BY <2>2, <3>2, <1>15
    <3> QED BY <3>1, <3>3, <1>14
  <2>3. CASE h # e.dst
    <3>1. rates[h] # 0 => rates[h] # n /\ rates[h] \in 1..Len(counters)
      BY <2>3, <1>2, <1>3 DEF ChainInv, RatesOwned
    <3> QED BY <2>1, <2>3, <3>1, <1>14, <1>15
  <2> QED BY <2>2, <2>3
<1> QED BY <1>11, <1>13, <1>16, <1>17, <1>18 DEF ChainInv
(* A call that moves on without touching the counters.                     *)
LEMMA CallMoves ==
  ASSUME ChainInv, NEW g \in Goroutines, OnlyMoves(g), UNCHANGED ddosVars, CallTypeOK',
         InChain(g)' => CallSound(call'[g]) /\ call'[g].at # "add"
  PROVE  ChainInv'
<1>1. InChain(g)' => CountersFetched(call[g])'
  BY DEF CountersFetched
<1>2. RatesKept
  BY DEF RatesKept, ddosVars
<1>3. CallsSound'
  BY <1>1, <1>2, OthersSound DEF ChainInv
<1> QED BY <1>3 DEF ChainInv, DDoSTypeOK, RatesOwned, RatesConserved, ddosVars

(* The move to the next host, or past the last.                            *)
LEMMA NextHostMoves ==
  ASSUME ChainInv, NEW g \in Goroutines, call[g].at \in {"discover", "send"},
         call' = NextHost(g), UNCHANGED delivered, UNCHANGED ddosVars
  PROVE  ChainInv'
<1>1. call[g] \in Call /\ call[g].event \in FlowEvent /\ InChain(g)
  BY CallTyped DEF ChainInv, Steps
<1>2. CallSound(call[g]) /\ call[g].hosts \in Seq(LocalHosts) /\ call[g].hosts # <<>>
  BY <1>1 DEF ChainInv, CallsSound, CallSound
<1> DEFINE rest == Tail(call[g].hosts)
           c == [call[g] EXCEPT !.hosts = rest, !.at = ProfilerStep(rest)]
<1>3. rest \in Seq(LocalHosts) /\ rest \in Seq(Hosts)
  BY <1>2, HostAssumption
<1>4. call' = [call EXCEPT ![g] = c]
  BY DEF NextHost
<1>5. ProfilerStep(rest) \in {"deliver", "discover"}
      /\ (ProfilerStep(rest) = "discover" => rest # <<>>)
  BY DEF ProfilerStep
<1>6. c \in Call /\ c.hosts = rest /\ c.at = ProfilerStep(rest)
  <2>1. call[g] \in [at : Steps, event : FlowEvent, counters : Nat, field : Nat,
                     hosts : Seq(Hosts)]
    BY <1>1 DEF Call
  <2>2. ProfilerStep(rest) \in Steps
    BY <1>5 DEF Steps
  <2> QED BY <2>1, <2>2, <1>3 DEF Call
<1> HIDE DEF c, rest
<1>7. CallTypeOK' /\ OnlyMoves(g) /\ call'[g] = c
  BY <1>4, <1>6 DEF ChainInv, CallTypeOK, OnlyMoves
<1>8. CallSound(c) /\ c.at # "add"
  BY <1>3, <1>5, <1>6 DEF CallSound
<1> QED BY <1>7, <1>8, CallMoves

(* The discovery of a host, and the queuing of its lookup.                 *)
LEMMA DiscoverStep ==
  ASSUME ChainInv, NEW g \in Goroutines, Discover(g) \/ QueueLookup(g), UNCHANGED ddosVars
  PROVE  ChainInv'
<1>1. /\ call[g].at \in {"discover", "send"} /\ UNCHANGED delivered
      /\ call' = NextHost(g) \/ (call[g].at = "discover"
                                 /\ call' = [call EXCEPT ![g].at = "send"])
  BY DEF Discover, QueueLookup, At
<1>2. CASE call' = NextHost(g)
  BY <1>1, <1>2, NextHostMoves
<1>3. CASE call[g].at = "discover" /\ call' = [call EXCEPT ![g].at = "send"]
  <2>1. call[g] \in Call /\ call[g].event \in FlowEvent /\ InChain(g)
    BY <1>1, CallTyped DEF ChainInv, Steps
  <2>2. CallSound(call[g]) /\ call[g].hosts \in Seq(LocalHosts) /\ call[g].hosts # <<>>
    BY <2>1, <1>3 DEF ChainInv, CallsSound, CallSound
  <2> DEFINE c == [call[g] EXCEPT !.at = "send"]
  <2>3. c \in Call /\ c.hosts = call[g].hosts /\ c.at = "send"
    BY <2>1 DEF Call, Steps
  <2>4. call' = [call EXCEPT ![g] = c]
    BY <1>3
  <2> HIDE DEF c
  <2>5. CallTypeOK' /\ OnlyMoves(g) /\ call'[g] = c
    BY <1>1, <2>3, <2>4 DEF ChainInv, CallTypeOK, OnlyMoves
  <2>6. CallSound(c) /\ c.at # "add"
    BY <2>2, <2>3 DEF CallSound
  <2> QED BY <2>5, <2>6, CallMoves
<1> QED BY <1>1, <1>2, <1>3

(* The end of a call.                                                      *)
LEMMA DeliverStep ==
  ASSUME ChainInv, NEW g \in Goroutines, Deliver(g), UNCHANGED ddosVars
  PROVE  /\ ChainInv'
         /\ call[g].event.tuple \in Tuples /\ call[g].event.packets \in Nat
<1>1. call[g] \in Call /\ call[g].event \in FlowEvent /\ InChain(g)
  BY CallTyped DEF ChainInv, Deliver, At, Steps
<1> DEFINE t == call[g].event.tuple
           p == call[g].event.packets
<1>2. t \in Tuples /\ p \in Nat
  BY <1>1 DEF FlowEvent
<1>3. call \in [Goroutines -> Call \cup {Idle}] /\ delivered \in [Goroutines -> [Tuples -> Nat]]
  BY DEF ChainInv, CallTypeOK
<1>4. delivered' = [delivered EXCEPT ![g][t] = @ + p] /\ call' = [call EXCEPT ![g] = Idle]
  BY DEF Deliver
<1>5. delivered' \in [Goroutines -> [Tuples -> Nat]]
  <2>1. \A a \in Nat, r \in [Tuples -> Nat], x \in Tuples :
          [r EXCEPT ![x] = @ + a] \in [Tuples -> Nat]
    OBVIOUS
  <2>2. delivered[g] \in [Tuples -> Nat]
    BY <1>3
  <2> HIDE DEF t, p
  <2>3. [delivered[g] EXCEPT ![t] = @ + p] \in [Tuples -> Nat]
    BY <2>1, <2>2, <1>2
  <2> QED BY <2>3, <1>3, <1>4
<1>6. CallTypeOK' /\ OnlyMoves(g) /\ call'[g] = Idle
  BY <1>3, <1>4, <1>5 DEF CallTypeOK, OnlyMoves
<1> QED BY <1>2, <1>6, CallMoves DEF InChain

(* The start of a call.                                                    *)
LEMMA ProcessStep ==
  ASSUME ChainInv, NEW g \in Goroutines, NEW e \in FlowEvent, Process(g, e),
         UNCHANGED ddosVars
  PROVE  ChainInv' /\ call'[g].event = e /\ InChain(g)' /\ OnlyMoves(g)
<1> DEFINE step == IF e.dst \in LocalHosts THEN "fetch" ELSE ProfilerStep(LocalIPs(e))
           c == [at |-> step, event |-> e, counters |-> 0, field |-> 1,
                 hosts |-> LocalIPs(e)]
<1>1. call' = [call EXCEPT ![g] = c] /\ UNCHANGED delivered
  BY DEF Process
<1>2. LocalIPs(e) \in Seq(LocalHosts) /\ LocalIPs(e) \in Seq(Hosts)
  BY LocalIPsTyped
<1>3. /\ step \in Steps /\ step \in {"fetch", "discover", "deliver"}
      /\ step = "discover" => LocalIPs(e) # <<>>
      /\ step = "fetch" => e.dst \in LocalHosts
  BY DEF ProfilerStep, Steps
<1>4. /\ c \in Call /\ c.at = step /\ c.event = e /\ c.field = 1
      /\ c.hosts = LocalIPs(e)
  BY <1>2, <1>3 DEF Call
<1> HIDE DEF c, step
<1>5. CallTypeOK' /\ OnlyMoves(g) /\ call'[g] = c
  BY <1>1, <1>4 DEF ChainInv, CallTypeOK, OnlyMoves
<1>6. CallSound(c) /\ c.at # "add"
  BY <1>2, <1>3, <1>4 DEF CallSound
<1>7. c # Idle
  <2>1. Idle.at = "idle" /\ "idle" \notin Steps
    BY DEF Idle, Steps
  <2> QED BY <2>1, <1>3, <1>4
<1> QED BY <1>4, <1>5, <1>6, <1>7, CallMoves DEF InChain
(* A swap takes out of the books what it takes out of the counter.         *)
LEMMA SwapStep ==
  ASSUME ChainInv, NEW h \in LocalHosts, SwapField(h)
  PROVE  ChainInv'
<1> DEFINE f == Head(swaps[h])
           n == rates[h]
           count == counters[n][f]
<1>1. /\ rates \in [LocalHosts -> 0..Len(counters)] /\ counters \in Seq(Counts)
      /\ Len(counters) \in Nat /\ uncounted \in [LocalHosts -> [Fields -> Int]]
      /\ swaps \in [LocalHosts -> Seq(Fields)] /\ snapshot \in [LocalHosts -> Counts]
  BY DEF ChainInv, DDoSTypeOK
<1>2. swaps[h] \in Seq(Fields) /\ swaps[h] # <<>>
  BY <1>1 DEF SwapField
<1>3. f \in Fields /\ Tail(swaps[h]) \in Seq(Fields)
  BY <1>2
<1>4. n # 0 /\ n \in 1..Len(counters)
  BY <1>1, <1>2 DEF ChainInv, RatesOwned
<1>5. counters[n] \in [Fields -> Nat]
  BY <1>1, <1>4 DEF Counts
<1>6. /\ snapshot' = [snapshot EXCEPT ![h][f] = count]
      /\ counters' = [counters EXCEPT ![n][f] = 0]
      /\ uncounted' = [uncounted EXCEPT ![h][f] = @ - count]
      /\ swaps' = [swaps EXCEPT ![h] = Tail(@)]
      /\ UNCHANGED <<chainVars, rates, monitor, alertDeduplicator, ticksLeft, ddosCancelled>>
  BY DEF SwapField
<1>7. count \in Nat
  BY <1>3, <1>5
<1>8. uncounted[h] = counters[n]
  BY <1>4 DEF ChainInv, RatesConserved
<1> DEFINE emptied == [counters[n] EXCEPT ![f] = 0]
<1>9. emptied \in [Fields -> Nat] /\ emptied \in [Fields -> Int] /\ emptied \in Counts
  <2>1. \A r \in [Fields -> Nat], x \in Fields :
          [r EXCEPT ![x] = 0] \in [Fields -> Nat] /\ [r EXCEPT ![x] = 0] \in [Fields -> Int]
    OBVIOUS
  <2> HIDE DEF f, n
  <2> QED BY <2>1, <1>3, <1>5 DEF Counts
<1>10. [uncounted[h] EXCEPT ![f] = @ - count] = emptied
  <2>1. count - count = 0
    BY <1>7
  <2>2. uncounted[h][f] = count
    BY <1>8
  <2> HIDE DEF f, n, count
  <2>3. [uncounted[h] EXCEPT ![f] = @ - count] = [uncounted[h] EXCEPT ![f] = 0]
    BY <2>1, <2>2
  <2> QED BY <2>3, <1>8
<1>11. /\ counters' \in Seq(Counts) /\ Len(counters') = Len(counters)
       /\ counters'[n] = emptied
       /\ \A m \in 1..Len(counters) : m # n => counters'[m] = counters[m]
  <2>1. counters' = [counters EXCEPT ![n] = emptied]
    BY <1>6
  <2> HIDE DEF emptied, n
  <2> QED BY <2>1, <1>1, <1>4, <1>9, ExceptSeq
<1>12. /\ uncounted' \in [LocalHosts -> [Fields -> Int]]
       /\ uncounted'[h] = emptied
       /\ \A k \in LocalHosts \ {h} : uncounted'[k] = uncounted[k]
  <2>1. uncounted' = [uncounted EXCEPT ![h] = [uncounted[h] EXCEPT ![f] = @ - count]]
    BY <1>6
  <2>2. uncounted' = [uncounted EXCEPT ![h] = emptied]
    BY <2>1, <1>10
  <2> HIDE DEF emptied
  <2> QED BY <2>2, <1>1, <1>9
<1>13. snapshot' \in [LocalHosts -> Counts]
  <2>1. \A r \in Counts, x \in Fields, a \in Nat : [r EXCEPT ![x] = a] \in Counts
    BY DEF Counts
  <2>2. snapshot[h] \in Counts
    BY <1>1
  <2> HIDE DEF f, count
  <2>3. [snapshot[h] EXCEPT ![f] = count] \in Counts
    BY <2>1, <2>2, <1>3, <1>7
  <2>4. snapshot' = [snapshot EXCEPT ![h] = [snapshot[h] EXCEPT ![f] = count]]
    BY <1>6
  <2> QED BY <2>3, <2>4, <1>1
<1>14. DDoSTypeOK'
  <2>1. swaps' \in [LocalHosts -> Seq(Fields)]
    BY <1>1, <1>3, <1>6
  <2> QED BY <2>1, <1>1, <1>6, <1>11, <1>12, <1>13 DEF ChainInv, DDoSTypeOK
<1>15. CallTypeOK' /\ CallsSound'
  BY <1>6 DEF ChainInv, CallTypeOK, CallsSound, CountersFetched, InChain, chainVars
<1>16. RatesOwned'
  <2>1. \A k \in LocalHosts \ {h} : swaps'[k] = swaps[k]
    BY <1>1, <1>6
  <2>2. \A k \in LocalHosts : swaps'[k] # <<>> => rates[k] # 0
    BY <2>1, <1>4 DEF ChainInv, RatesOwned
  <2> QED BY <2>2, <1>6 DEF ChainInv, RatesOwned
<1>17. RatesConserved'
  <2> SUFFICES ASSUME NEW k \in LocalHosts
               PROVE  uncounted'[k] = IF rates[k] = 0 THEN NoCounts ELSE counters'[rates[k]]
    BY <1>6 DEF RatesConserved
  <2>1. uncounted[k] = IF rates[k] = 0 THEN NoCounts ELSE counters[rates[k]]
    BY DEF ChainInv, RatesConserved
  <2>2. CASE k = h
    BY <2>2, <1>4, <1>11, <1>12
  <2>3. CASE k # h
    <3>1. rates[k] # 0 => rates[k] # n /\ rates[k] \in 1..Len(counters)
      BY <2>3, <1>1 DEF ChainInv, RatesOwned
    <3> QED BY <2>1, <2>3, <3>1, <1>11, <1>12
  <2> QED BY <2>2, <2>3
<1> QED BY <1>14, <1>15, <1>16, <1>17 DEF ChainInv

(* The other steps of the monitor leave the counters alone.                *)
LEMMA MonitorStep ==
  ASSUME ChainInv,
         BeginWindow \/ UnlockRates \/ Report \/ StopMonitor
         \/ (\E key \in alertDeduplicator : DedupExpires(key))
         \/ (CancelDDoS /\ UNCHANGED chainVars)
  PROVE  ChainInv'
<1>1. UNCHANGED <<chainVars, rates, counters, uncounted>>
  BY DEF BeginWindow, UnlockRates, Report, StopMonitor, DedupExpires, CancelDDoS
<1>2. CallTypeOK' /\ CallsSound' /\ RatesConserved'
  BY <1>1 DEF ChainInv, CallTypeOK, CallsSound, CountersFetched, InChain, RatesConserved,
     chainVars
<1>3. \A h \in LocalHosts : swaps'[h] # <<>> => rates[h] # 0
  BY DEF BeginWindow, UnlockRates, Report, StopMonitor, DedupExpires, CancelDDoS,
     ChainInv, RatesOwned
<1>4. RatesOwned'
  BY <1>1, <1>3 DEF ChainInv, RatesOwned
<1>5. DDoSTypeOK'
  <2>1. CASE BeginWindow
    <3>1. NoCounts \in Counts
      BY DEF NoCounts, Counts
    <3>2. snapshot' \in [LocalHosts -> Counts]
      BY <2>1, <3>1 DEF BeginWindow
    <3>3. swaps' \in [LocalHosts -> Seq(Fields)]
      BY <2>1, FieldOrderTyped DEF BeginWindow
    <3>4. ticksLeft' \in Nat /\ monitor' = "swapping"
          /\ UNCHANGED <<alertDeduplicator, ddosCancelled>>
      BY <2>1 DEF BeginWindow, ChainInv, DDoSTypeOK
    <3> QED BY <1>1, <3>2, <3>3, <3>4 DEF ChainInv, DDoSTypeOK
  <2>2. CASE ~BeginWindow
    <3>1. OverLimit \subseteq LocalHosts \X AlertTypes
      BY FieldAssumption DEF OverLimit, AlertTypes
    <3> QED BY <2>2, <3>1, <1>1 DEF UnlockRates, Report, StopMonitor, DedupExpires, CancelDDoS,
               ChainInv, DDoSTypeOK
  <2> QED BY <2>1, <2>2
<1> QED BY <1>2, <1>4, <1>5 DEF ChainInv

-------------------------------------------------------------------------------
(* A listener holds a datagram exactly while it pushes, and the listeners  *)
(* have returned when the channels are closed.                             *)
ListenersSound ==
  /\ pushing["flow"] \subseteq FlowDatagrams /\ pushing["syslog"] \subseteq SyslogDatagrams
  /\ \A s \in Sockets :
       IF listener[s] = "pushing" THEN \E d \in pushing[s] : pushing[s] = {d}
                                  ELSE pushing[s] = {}
  /\ channelsClosed => ListenersGone

(* A decoding worker holds events and calls the processors only while it   *)
(* forwards a packet, and leaves when the channel is closed and empty.     *)
WorkersSound ==
  \A w \in Workers :
    /\ worker[w] # "forwarding" => pending[w] = <<>> /\ ~InChain(w)
    /\ worker[w] = "done" => channelsClosed /\ rawPacketsChan = <<>>

ListenInv == CollectorTypeOK /\ ListenersSound

(* What a step of the capture, the monitor, the profiler or of main after  *)
(* the collector's Shutdown leaves alone.                                  *)
CollectorActs ==
  \/ \E d \in unread : ReceiveFlow(d) \/ ReceiveSyslog(d)
  \/ \E d \in pushing["flow"] : PushFlow(d)
  \/ \E d \in pushing["syslog"] : PushSyslog(d)
  \/ \E s \in Sockets : ListenerExit(s)
  \/ \E w \in Workers : TakePacket(w) \/ ForwardEvent(w) \/ PacketDone(w) \/ WorkerLeaves(w)
  \/ TakeMessage \/ StoreMessage \/ SyslogWorkerLeaves
  \/ CancelCollector \/ CloseListeners \/ CloseChannels

(* The counters stay counts.                                               *)
LEMMA CountersTyped ==
  ASSUME NEW st \in Counters
  PROVE  /\ [st EXCEPT !.received = @ + 1] \in Counters
         /\ [st EXCEPT !.received = @ + 1, !.receivedUniFi = @ + 1] \in Counters
         /\ [st EXCEPT !.dropped = @ + 1] \in Counters
         /\ [st EXCEPT !.decodeErrors = @ + 1] \in Counters
         /\ IncrementUniFiDrop(st) \in Counters
         /\ IncrementUniFiDecodeError(st) \in Counters
<1>1. /\ st.received + 1 \in Nat /\ st.receivedUniFi + 1 \in Nat
      /\ st.dropped + 1 \in Nat /\ st.droppedUniFi + 1 \in Nat
      /\ st.decodeErrors + 1 \in Nat /\ st.decodeErrorsUniFi + 1 \in Nat
  BY DEF Counters
<1>2. \A n \in Nat :
        /\ [st EXCEPT !.received = n] \in Counters
        /\ [st EXCEPT !.dropped = n] \in Counters
        /\ [st EXCEPT !.decodeErrors = n] \in Counters
  BY DEF Counters
<1>3. \A n, m \in Nat : [st EXCEPT !.received = n, !.receivedUniFi = m] \in Counters
  BY DEF Counters
<1>4. \A n, m \in Nat : [st EXCEPT !.dropped = n, !.droppedUniFi = m] \in Counters
  BY DEF Counters
<1>5. \A n, m \in Nat : [st EXCEPT !.decodeErrors = n, !.decodeErrorsUniFi = m] \in Counters
  BY DEF Counters
<1> QED BY <1>1, <1>2, <1>3, <1>4, <1>5 DEF IncrementUniFiDrop, IncrementUniFiDecodeError

(* So does the history of what was handled.                                *)
LEMMA HandledTyped ==
  ASSUME NEW hd \in Handled
  PROVE  /\ [hd EXCEPT !.packets = @ + 1] \in Handled
         /\ [hd EXCEPT !.messages = @ + 1] \in Handled
         /\ [hd EXCEPT !.refused = @ + 1, !.oversized = @] \in Handled
         /\ [hd EXCEPT !.refused = @ + 1, !.oversized = @ + 1] \in Handled
<1>1. /\ hd.packets + 1 \in Nat /\ hd.messages + 1 \in Nat /\ hd.refused + 1 \in Nat
      /\ hd.oversized \in Nat /\ hd.oversized + 1 \in Nat
  BY DEF Handled
<1>2. \A n \in Nat : /\ [hd EXCEPT !.packets = n] \in Handled
                     /\ [hd EXCEPT !.messages = n] \in Handled
  BY DEF Handled
<1>3. \A n, m \in Nat : [hd EXCEPT !.refused = n, !.oversized = m] \in Handled
  BY DEF Handled
<1> QED BY <1>1, <1>2, <1>3

(* The listeners: what they hold, and the types of the collector.          *)
LEMMA ListenStep ==
  ASSUME ListenInv, CollectorActs
  PROVE  ListenInv'
<1> USE DEF ListenInv
<1> USE DEF listenerVars, workerVars, syslogVars, stopVars
<1>a. stats \in Counters /\ handled \in Handled
  BY DEF CollectorTypeOK
<1>b. HeadOfLoop \in {"reading", "done"}
  BY DEF HeadOfLoop
<1>1. ASSUME NEW d \in unread, ReceiveFlow(d) PROVE ListenInv'
  <2>1. listener["flow"] = "reading" /\ ~socketsClosed /\ d \in FlowDatagrams
    BY <1>1 DEF ReceiveFlow, Read
  <2>2. stats' \in Counters
    BY <1>1, <1>a, CountersTyped DEF ReceiveFlow
  <2>3. CollectorTypeOK'
    BY <1>1, <2>1, <2>2 DEF ReceiveFlow, Read, CollectorTypeOK, Sockets
  <2>4. ListenersSound'
    BY <1>1, <2>1 DEF ReceiveFlow, Read, CollectorTypeOK, ListenersSound, ListenersGone, Sockets
  <2> QED BY <2>3, <2>4
<1>2. ASSUME NEW d \in unread, ReceiveSyslog(d) PROVE ListenInv'
  <2>1. /\ listener["syslog"] = "reading" /\ ~socketsClosed /\ d \in SyslogDatagrams
        /\ unread' = unread \ {d}
        /\ UNCHANGED <<rawPacketsChan, syslogChan, workerVars, syslogVars, stopVars>>
    BY <1>2 DEF ReceiveSyslog, Read
  <2>2. CASE ~Allows(d) \/ d \in Oversized
    <3>1. /\ stats' = IF ~Allows(d) THEN IncrementUniFiDrop(stats)
                      ELSE IncrementUniFiDecodeError(IncrementUniFiDrop(stats))
          /\ handled' = [handled EXCEPT !.refused = @ + 1,
               !.oversized = IF ~Allows(d) THEN @ ELSE @ + 1]
          /\ listener' = [listener EXCEPT !["syslog"] = HeadOfLoop]
          /\ UNCHANGED pushing
      BY <1>2, <2>2 DEF ReceiveSyslog
    <3>2. stats' \in Counters
      BY <3>1, <1>a, CountersTyped
    <3>4. handled' \in Handled
      <4>1. CASE Allows(d)
        BY <3>1, <4>1, <1>a, HandledTyped
      <4>2. CASE ~Allows(d)
        BY <3>1, <4>2, <1>a, HandledTyped
      <4> QED BY <4>1, <4>2
    <3>5. CollectorTypeOK'
      BY <2>1, <3>1, <3>2, <3>4, <1>b DEF CollectorTypeOK, Sockets
    <3>6. ListenersSound'
      BY <2>1, <3>1, <1>b DEF CollectorTypeOK, ListenersSound, ListenersGone, Sockets
    <3> QED BY <3>5, <3>6
  <2>3. CASE Allows(d) /\ d \notin Oversized
    <3>1. /\ stats' = [stats EXCEPT !.received = @ + 1, !.receivedUniFi = @ + 1]
          /\ listener' = [listener EXCEPT !["syslog"] = "pushing"]
          /\ pushing' = [pushing EXCEPT !["syslog"] = {d}]
          /\ UNCHANGED handled
      BY <1>2, <2>3 DEF ReceiveSyslog
    <3>2. stats' \in Counters
      BY <3>1, <1>a, CountersTyped
    <3>3. CollectorTypeOK'
      BY <2>1, <3>1, <3>2 DEF CollectorTypeOK, Sockets
    <3>4. ListenersSound'
      BY <2>1, <3>1 DEF CollectorTypeOK, ListenersSound, ListenersGone, Sockets
    <3> QED BY <3>3, <3>4
  <2> QED BY <2>2, <2>3
<1>3. ASSUME NEW d \in pushing["flow"], PushFlow(d) PROVE ListenInv'
  <2>1. d \in FlowDatagrams
    BY <1>3 DEF ListenersSound
  <2>2. stats' \in Counters
    BY <1>3, <1>a, CountersTyped DEF PushFlow
  <2>3. rawPacketsChan' \in Seq(FlowDatagrams) /\ Len(rawPacketsChan') <= RawQueueSize
    <3>1. rawPacketsChan \in Seq(FlowDatagrams) /\ Len(rawPacketsChan) <= RawQueueSize /\ RawQueueSize \in Nat
      BY CollectorAssumption DEF CollectorTypeOK
    <3>2. CASE rawPacketsChan' = Append(rawPacketsChan, d) /\ Len(rawPacketsChan) < RawQueueSize
      <4>1. Append(rawPacketsChan, d) \in Seq(FlowDatagrams)
            /\ Len(Append(rawPacketsChan, d)) = Len(rawPacketsChan) + 1
        BY <3>1, <2>1, AppendProperties
      <4>2. Len(rawPacketsChan) \in Nat
        BY <3>1
      <4> QED BY <3>1, <3>2, <4>1, <4>2
    <3> QED BY <1>3, <3>1, <3>2 DEF PushFlow
  <2>4. CollectorTypeOK'
    BY <1>3, <2>2, <2>3, <1>b DEF PushFlow, CollectorTypeOK, Sockets
  <2>5. ListenersSound'
    BY <1>3, <1>b DEF PushFlow, CollectorTypeOK, ListenersSound, ListenersGone, Sockets
  <2> QED BY <2>4, <2>5
<1>4. ASSUME NEW d \in pushing["syslog"], PushSyslog(d) PROVE ListenInv'
  <2>1. d \in SyslogDatagrams
    BY <1>4 DEF ListenersSound
  <2>2. stats' \in Counters
    BY <1>4, <1>a, CountersTyped DEF PushSyslog
  <2>3. syslogChan' \in Seq(SyslogDatagrams) /\ Len(syslogChan') <= SyslogQueueSize
    <3>1. syslogChan \in Seq(SyslogDatagrams) /\ Len(syslogChan) <= SyslogQueueSize /\ SyslogQueueSize \in Nat
      BY CollectorAssumption DEF CollectorTypeOK
    <3>2. CASE syslogChan' = Append(syslogChan, d) /\ Len(syslogChan) < SyslogQueueSize
      <4>1. Append(syslogChan, d) \in Seq(SyslogDatagrams)
            /\ Len(Append(syslogChan, d)) = Len(syslogChan) + 1
        BY <3>1, <2>1, AppendProperties
      <4>2. Len(syslogChan) \in Nat
        BY <3>1
      <4> QED BY <3>1, <3>2, <4>1, <4>2
    <3> QED BY <1>4, <3>1, <3>2 DEF PushSyslog
  <2>4. CollectorTypeOK'
    BY <1>4, <2>2, <2>3, <1>b DEF PushSyslog, CollectorTypeOK, Sockets
  <2>5. ListenersSound'
    BY <1>4, <1>b DEF PushSyslog, CollectorTypeOK, ListenersSound, ListenersGone, Sockets
  <2> QED BY <2>4, <2>5
<1>5. ASSUME NEW s \in Sockets, ListenerExit(s) PROVE ListenInv'
  BY <1>5 DEF ListenerExit, CollectorTypeOK, ListenersSound, ListenersGone, Sockets
<1>6. ASSUME NEW w \in Workers, TakePacket(w) PROVE ListenInv'
  <2>1. Head(rawPacketsChan) \in FlowDatagrams /\ Tail(rawPacketsChan) \in Seq(FlowDatagrams)
        /\ Len(Tail(rawPacketsChan)) <= RawQueueSize
    BY <1>6, CollectorAssumption DEF TakePacket, CollectorTypeOK
  <2>2. \A outcome \in Decode(Head(rawPacketsChan)) : \A events \in outcome : events \in Seq(FlowEvent)
    BY <2>1, CollectorAssumption DEF Decode
  <2>5. stats' \in Counters
    BY <1>6, <1>a, CountersTyped DEF TakePacket
  <2>6. worker' \in [Workers -> {"waiting", "forwarding", "done"}]
        /\ pending' \in [Workers -> Seq(FlowEvent)]
    BY <1>6, <2>2 DEF TakePacket, CollectorTypeOK
  <2>3. CollectorTypeOK'
    BY <1>6, <2>1, <2>5, <2>6 DEF TakePacket, CollectorTypeOK
  <2>4. ListenersSound'
    BY <1>6 DEF TakePacket, ListenersSound, ListenersGone
  <2> QED BY <2>3, <2>4
<1>7. ASSUME NEW w \in Workers, ForwardEvent(w) PROVE ListenInv'
  <2>1. Tail(pending[w]) \in Seq(FlowEvent)
    BY <1>7 DEF ForwardEvent, CollectorTypeOK
  <2>2. CollectorTypeOK'
    BY <1>7, <2>1 DEF ForwardEvent, CollectorTypeOK
  <2>3. ListenersSound'
    BY <1>7 DEF ForwardEvent, ListenersSound, ListenersGone
  <2> QED BY <2>2, <2>3
<1>8. ASSUME NEW w \in Workers, PacketDone(w) \/ WorkerLeaves(w) PROVE ListenInv'
  <2>3. handled' \in Handled
    BY <1>8, <1>a, HandledTyped DEF PacketDone, WorkerLeaves
  <2>1. CollectorTypeOK'
    BY <1>8, <2>3 DEF PacketDone, WorkerLeaves, CollectorTypeOK
  <2>2. ListenersSound'
    BY <1>8 DEF PacketDone, WorkerLeaves, ListenersSound, ListenersGone
  <2> QED BY <2>1, <2>2
<1>9. ASSUME TakeMessage \/ StoreMessage \/ SyslogWorkerLeaves PROVE ListenInv'
  <2>1. syslogChan # <<>> => /\ Tail(syslogChan) \in Seq(SyslogDatagrams)
                             /\ Len(Tail(syslogChan)) <= SyslogQueueSize
    BY CollectorAssumption DEF CollectorTypeOK
  <2>4. stats' \in Counters /\ handled' \in Handled
    BY <1>9, <1>a, CountersTyped, HandledTyped DEF TakeMessage, StoreMessage, SyslogWorkerLeaves
  <2>2. CollectorTypeOK'
    BY <1>9, <2>1, <2>4 DEF TakeMessage, StoreMessage, SyslogWorkerLeaves, CollectorTypeOK
  <2>3. ListenersSound'
    BY <1>9 DEF TakeMessage, StoreMessage, SyslogWorkerLeaves, ListenersSound, ListenersGone
  <2> QED BY <2>2, <2>3
<1>10. ASSUME CancelCollector \/ CloseListeners \/ CloseChannels PROVE ListenInv'
  <2>1. CollectorTypeOK'
    BY <1>10 DEF CancelCollector, CloseListeners, CloseChannels, CollectorTypeOK
  <2>2. ListenersSound'
    BY <1>10 DEF CancelCollector, CloseListeners, CloseChannels, ListenersSound, ListenersGone
  <2> QED BY <2>1, <2>2
<1> QED BY <1>1, <1>2, <1>3, <1>4, <1>5, <1>6, <1>7, <1>8, <1>9, <1>10 DEF CollectorActs

(* The decoding workers, in the steps of the collector.                    *)
LEMMA WorkersStep ==
  ASSUME CallTypeOK, ListenInv, WorkersSound, CollectorActs,
         \A w \in Workers : ForwardEvent(w) => OnlyMoves(w),
         (\A w \in Workers : ~ForwardEvent(w)) => UNCHANGED chainVars
  PROVE  WorkersSound'
<1> USE DEF listenerVars, workerVars, syslogVars, stopVars
<1> SUFFICES ASSUME NEW v \in Workers
             PROVE  /\ worker'[v] # "forwarding" => pending'[v] = <<>> /\ ~InChain(v)'
                    /\ worker'[v] = "done" => channelsClosed' /\ rawPacketsChan' = <<>>
  BY DEF WorkersSound
<1>0. /\ worker[v] # "forwarding" => pending[v] = <<>> /\ ~InChain(v)
      /\ worker[v] = "done" => channelsClosed /\ rawPacketsChan = <<>>
      /\ worker \in [Workers -> {"waiting", "forwarding", "done"}]
      /\ pending \in [Workers -> Seq(FlowEvent)]
  BY DEF WorkersSound, ListenInv, CollectorTypeOK
<1>1. CASE \E w \in Workers : ForwardEvent(w)
  <2>1. PICK w \in Workers : OnlyMoves(w) /\ ForwardEvent(w)
    BY <1>1
  <2>2. UNCHANGED <<worker, rawPacketsChan, channelsClosed>> /\ worker[w] = "forwarding"
        /\ pending' = [pending EXCEPT ![w] = Tail(@)]
    BY <2>1 DEF ForwardEvent
  <2>3. v # w => call'[v] = call[v] /\ pending'[v] = pending[v]
    BY <2>1, <2>2, <1>0 DEF OnlyMoves, Goroutines
  <2> QED BY <1>0, <2>2, <2>3 DEF InChain
<1>2. CASE \A w \in Workers : ~ForwardEvent(w)
  <2>1. InChain(v)' = InChain(v)
    BY <1>2 DEF InChain, chainVars
  <2>2. ASSUME NEW w \in Workers, TakePacket(w)
        PROVE  /\ worker'[v] # "forwarding" => pending'[v] = <<>> /\ ~InChain(v)'
               /\ worker'[v] = "done" => channelsClosed' /\ rawPacketsChan' = <<>>
    BY <2>1, <2>2, <1>0 DEF TakePacket
  <2>4. ASSUME NEW w \in Workers, PacketDone(w)
        PROVE  /\ worker'[v] # "forwarding" => pending'[v] = <<>> /\ ~InChain(v)'
               /\ worker'[v] = "done" => channelsClosed' /\ rawPacketsChan' = <<>>
    BY <2>1, <2>4, <1>0 DEF PacketDone
  <2>5. ASSUME NEW w \in Workers, WorkerLeaves(w)
        PROVE  /\ worker'[v] # "forwarding" => pending'[v] = <<>> /\ ~InChain(v)'
               /\ worker'[v] = "done" => channelsClosed' /\ rawPacketsChan' = <<>>
    BY <2>1, <2>5, <1>0 DEF WorkerLeaves, MayLeave
  <2>6. ASSUME NEW d, ReceiveFlow(d) \/ ReceiveSyslog(d) \/ PushSyslog(d) \/ ListenerExit(d)
        PROVE  UNCHANGED <<worker, pending, rawPacketsChan, channelsClosed>>
    BY <2>6 DEF ReceiveFlow, ReceiveSyslog, PushSyslog, ListenerExit
  <2>7. ASSUME NEW d, PushFlow(d)
        PROVE  UNCHANGED <<worker, pending, channelsClosed>> /\ ~channelsClosed
    BY <2>7 DEF PushFlow
  <2>8. ASSUME TakeMessage \/ StoreMessage \/ SyslogWorkerLeaves \/ CancelCollector
               \/ CloseListeners \/ CloseChannels
        PROVE  UNCHANGED <<worker, pending, rawPacketsChan>>
               /\ (channelsClosed => channelsClosed')
    BY <2>8 DEF TakeMessage, StoreMessage, SyslogWorkerLeaves, CancelCollector,
       CloseListeners, CloseChannels
  <2> QED BY <2>1, <2>2, <2>4, <2>5, <2>6, <2>7, <2>8, <1>0, <1>2 DEF CollectorActs
<1> QED BY <1>1, <1>2

(* The books: datagrams read and where they are, with the datagram in the  *)
(* hand of a listener counted by what the listener does.                   *)
Holds(s) == IF listener[s] = "pushing" THEN 1 ELSE 0
FlowsReceived == stats.received - stats.receivedUniFi
FlowsUnderWay == Holds("flow") + Len(rawPacketsChan) + Cardinality(Forwarding)
FlowsDone == (stats.dropped - stats.droppedUniFi)
             + (stats.decodeErrors - stats.decodeErrorsUniFi) + handled.packets
MessagesUnderWay == Holds("syslog") + Len(syslogChan) + Busy(syslogWorker = "saving")
MessagesDone == (stats.droppedUniFi - handled.refused)
                + (stats.decodeErrorsUniFi - handled.oversized) + handled.messages
FlowBooks == FlowsReceived = FlowsUnderWay + FlowsDone
MessageBooks == stats.receivedUniFi = MessagesUnderWay + MessagesDone
Books == FlowBooks /\ MessageBooks /\ IsFiniteSet(Forwarding)

(* With one datagram at most in a hand, the books are the accounts.        *)
LEMMA BooksAreAccounts ==
  ASSUME ListenInv, IsFiniteSet(Forwarding)
  PROVE  FlowBooks /\ MessageBooks <=> DatagramsAccounted
<1>1. ASSUME NEW s \in Sockets PROVE Cardinality(pushing[s]) = Holds(s)
  BY FS_EmptySet, FS_Singleton DEF ListenInv, ListenersSound, Holds
<1>2. ASSUME NEW h \in Int, NEW l \in Int, NEW c \in Int, NEW d \in Int, NEW e \in Int,
             NEW p \in Int
      PROVE  (h + l + c) + (d + e + p) = h + l + d + e + c + p
  OBVIOUS
<1>3. stats \in Counters /\ handled \in Handled
  BY DEF ListenInv, CollectorTypeOK
<1>4. /\ stats.dropped - stats.droppedUniFi \in Int
      /\ stats.decodeErrors - stats.decodeErrorsUniFi \in Int
      /\ stats.droppedUniFi - handled.refused \in Int
      /\ stats.decodeErrorsUniFi - handled.oversized \in Int
      /\ handled.packets \in Int /\ handled.messages \in Int
  BY <1>3 DEF Counters, Handled
<1>5. /\ Len(rawPacketsChan) \in Int /\ Len(syslogChan) \in Int
      /\ Cardinality(Forwarding) \in Int
      /\ Holds("flow") \in Int /\ Holds("syslog") \in Int
      /\ Busy(syslogWorker = "saving") \in Int
  BY FS_CardinalityType DEF ListenInv, CollectorTypeOK, Holds, Busy
<1>6. FlowBooks <=> FlowPacketsAccounted
  <2>1. FlowsUnderWay + FlowsDone =
          Holds("flow") + Len(rawPacketsChan) + (stats.dropped - stats.droppedUniFi)
          + (stats.decodeErrors - stats.decodeErrorsUniFi) + Cardinality(Forwarding)
          + handled.packets
    BY <1>2, <1>4, <1>5 DEF FlowsUnderWay, FlowsDone
  <2>2. Cardinality(pushing["flow"]) = Holds("flow")
    BY <1>1 DEF Sockets
  <2> QED BY <2>1, <2>2 DEF FlowBooks, FlowsReceived, FlowPacketsAccounted
<1>7. MessageBooks <=> MessagesAccounted
  <2>1. MessagesUnderWay + MessagesDone =
          Holds("syslog") + Len(syslogChan) + (stats.droppedUniFi - handled.refused)
          + (stats.decodeErrorsUniFi - handled.oversized) + Busy(syslogWorker = "saving")
          + handled.messages
    BY <1>2, <1>4, <1>5 DEF MessagesUnderWay, MessagesDone
  <2>2. Cardinality(pushing["syslog"]) = Holds("syslog")
    BY <1>1 DEF Sockets
  <2> QED BY <2>1, <2>2 DEF MessageBooks, MessagesAccounted
<1> QED BY <1>6, <1>7 DEF DatagramsAccounted

(* A worker that starts or ends a packet is one more or one less.          *)
LEMMA ForwardingStarts ==
  ASSUME CollectorTypeOK, IsFiniteSet(Forwarding), NEW w \in Workers,
         worker[w] # "forwarding", worker' = [worker EXCEPT ![w] = "forwarding"]
  PROVE  IsFiniteSet(Forwarding)' /\ Cardinality(Forwarding)' = Cardinality(Forwarding) + 1
<1>1. Forwarding' = Forwarding \cup {w} /\ w \notin Forwarding
  BY DEF Forwarding, CollectorTypeOK
<1> QED BY <1>1, FS_AddElement

(* When one worker stops forwarding, there is one fewer that does.         *)
LEMMA ForwardingEnds ==
  ASSUME CollectorTypeOK, IsFiniteSet(Forwarding), NEW w \in Workers,
         worker[w] = "forwarding", worker' = [worker EXCEPT ![w] = "waiting"]
  PROVE  IsFiniteSet(Forwarding)' /\ Cardinality(Forwarding)' = Cardinality(Forwarding) - 1
<1>1. Forwarding' = Forwarding \ {w} /\ w \in Forwarding
  BY DEF Forwarding, CollectorTypeOK
<1> QED BY <1>1, FS_RemoveElement

(* While no worker starts or stops forwarding, there are as many as        *)
(* before.                                                                 *)
LEMMA ForwardingStays ==
  ASSUME CollectorTypeOK, IsFiniteSet(Forwarding),
         \A w \in Workers : worker'[w] = "forwarding" <=> worker[w] = "forwarding"
  PROVE  IsFiniteSet(Forwarding)' /\ Cardinality(Forwarding)' = Cardinality(Forwarding)
<1>1. Forwarding' = Forwarding
  BY DEF Forwarding
<1> QED BY <1>1

(* The books balance after every step of the collector.                    *)
LEMMA BooksStep ==
  ASSUME ListenInv, Books, CollectorActs
  PROVE  Books'
<1> USE DEF listenerVars, workerVars, syslogVars, stopVars
<1>a. /\ stats \in Counters /\ handled \in Handled
      /\ listener \in [Sockets -> {"reading", "pushing", "done"}]
      /\ rawPacketsChan \in Seq(FlowDatagrams) /\ syslogChan \in Seq(SyslogDatagrams)
      /\ worker \in [Workers -> {"waiting", "forwarding", "done"}]
      /\ CollectorTypeOK /\ IsFiniteSet(Forwarding)
  BY DEF ListenInv, CollectorTypeOK, Books
<1>b. /\ Len(rawPacketsChan) \in Nat /\ Len(syslogChan) \in Nat
      /\ Cardinality(Forwarding) \in Nat
      /\ Holds("flow") \in 0..1 /\ Holds("syslog") \in 0..1
      /\ Busy(syslogWorker = "saving") \in 0..1
  BY <1>a, FS_CardinalityType DEF Holds, Busy
<1>c. /\ stats.received \in Nat /\ stats.receivedUniFi \in Nat
      /\ stats.dropped \in Nat /\ stats.droppedUniFi \in Nat
      /\ stats.decodeErrors \in Nat /\ stats.decodeErrorsUniFi \in Nat
  BY <1>a DEF Counters
<1>d. /\ handled.packets \in Nat /\ handled.messages \in Nat
      /\ handled.refused \in Nat /\ handled.oversized \in Nat
  BY <1>a DEF Handled
<1>e. /\ FlowsReceived \in Int /\ FlowsUnderWay \in Int /\ FlowsDone \in Int
      /\ MessagesUnderWay \in Int /\ MessagesDone \in Int
  <2>1. FlowsReceived \in Int
    BY <1>c DEF FlowsReceived
  <2>2. FlowsUnderWay \in Int /\ MessagesUnderWay \in Int
    BY <1>b DEF FlowsUnderWay, MessagesUnderWay
  <2>3. FlowsDone \in Int
    BY <1>c, <1>d DEF FlowsDone
  <2>4. MessagesDone \in Int
    BY <1>c, <1>d DEF MessagesDone
  <2> QED BY <2>1, <2>2, <2>3, <2>4
<1>f. FlowsReceived = FlowsUnderWay + FlowsDone
      /\ stats.receivedUniFi = MessagesUnderWay + MessagesDone
  BY DEF Books, FlowBooks, MessageBooks
<1>1. ASSUME NEW d \in unread, ReceiveFlow(d) PROVE Books'
  <2>1. /\ listener["flow"] = "reading" /\ listener' = [listener EXCEPT !["flow"] = "pushing"]
        /\ stats' = [stats EXCEPT !.received = @ + 1]
        /\ UNCHANGED <<handled, rawPacketsChan, syslogChan, worker, syslogWorker>>
    BY <1>1 DEF ReceiveFlow, Read
  <2>2. Holds("flow") = 0 /\ Holds("flow")' = 1 /\ Holds("syslog")' = Holds("syslog")
    BY <2>1, <1>a DEF Holds, Sockets
  <2>3. IsFiniteSet(Forwarding)' /\ Cardinality(Forwarding)' = Cardinality(Forwarding)
    BY <2>1, <1>a, ForwardingStays
  <2>4. FlowsReceived' = FlowsReceived + 1 /\ UNCHANGED <<FlowsDone, MessagesDone>>
        /\ stats'.receivedUniFi = stats.receivedUniFi
    BY <2>1, <1>a, <1>c DEF Counters, FlowsReceived, FlowsDone, MessagesDone
  <2>5. FlowsUnderWay' = FlowsUnderWay + 1
    BY <2>1, <2>2, <2>3, <1>b DEF FlowsUnderWay
  <2>6. MessagesUnderWay' = MessagesUnderWay
    BY <2>1, <2>2 DEF MessagesUnderWay
  <2> QED BY <2>3, <2>4, <2>5, <2>6, <1>c, <1>e, <1>f DEF Books, FlowBooks, MessageBooks
<1>2. ASSUME NEW d \in unread, ReceiveSyslog(d) PROVE Books'
  <2>1. /\ listener["syslog"] = "reading"
        /\ UNCHANGED <<rawPacketsChan, syslogChan, worker, syslogWorker>>
    BY <1>2 DEF ReceiveSyslog, Read
  <2>2. IsFiniteSet(Forwarding)' /\ Cardinality(Forwarding)' = Cardinality(Forwarding)
    BY <2>1, <1>a, ForwardingStays
  <2>3. CASE ~Allows(d)
    <3>1. /\ stats' = IncrementUniFiDrop(stats)
          /\ handled' = [handled EXCEPT !.refused = @ + 1, !.oversized = @]
          /\ listener' = [listener EXCEPT !["syslog"] = HeadOfLoop]
      BY <1>2, <2>3 DEF ReceiveSyslog
    <3>2. UNCHANGED <<Holds("flow"), Holds("syslog")>>
      BY <2>1, <3>1, <1>a DEF Holds, Sockets, HeadOfLoop
    <3>3. UNCHANGED <<FlowsReceived, FlowsDone, MessagesDone, stats.receivedUniFi>>
      BY <3>1, <1>a, <1>c, <1>d DEF Counters, Handled, FlowsReceived, FlowsDone,
         MessagesDone, IncrementUniFiDrop
    <3>4. UNCHANGED <<FlowsUnderWay, MessagesUnderWay>>
      BY <2>1, <2>2, <3>2 DEF FlowsUnderWay, MessagesUnderWay
    <3> QED BY <2>2, <3>3, <3>4, <1>f DEF Books, FlowBooks, MessageBooks
  <2>4. CASE Allows(d) /\ d \in Oversized
    <3>1. /\ stats' = IncrementUniFiDecodeError(IncrementUniFiDrop(stats))
          /\ handled' = [handled EXCEPT !.refused = @ + 1, !.oversized = @ + 1]
          /\ listener' = [listener EXCEPT !["syslog"] = HeadOfLoop]
      BY <1>2, <2>4 DEF ReceiveSyslog
    <3>2. UNCHANGED <<Holds("flow"), Holds("syslog")>>
      BY <2>1, <3>1, <1>a DEF Holds, Sockets, HeadOfLoop
    <3>3. UNCHANGED <<FlowsReceived, FlowsDone, MessagesDone, stats.receivedUniFi>>
      BY <3>1, <1>a, <1>c, <1>d DEF Counters, Handled, FlowsReceived, FlowsDone,
         MessagesDone, IncrementUniFiDrop, IncrementUniFiDecodeError
    <3>4. UNCHANGED <<FlowsUnderWay, MessagesUnderWay>>
      BY <2>1, <2>2, <3>2 DEF FlowsUnderWay, MessagesUnderWay
    <3> QED BY <2>2, <3>3, <3>4, <1>f DEF Books, FlowBooks, MessageBooks
  <2>5. CASE Allows(d) /\ d \notin Oversized
    <3>1. /\ stats' = [stats EXCEPT !.received = @ + 1, !.receivedUniFi = @ + 1]
          /\ listener' = [listener EXCEPT !["syslog"] = "pushing"]
          /\ UNCHANGED handled
      BY <1>2, <2>5 DEF ReceiveSyslog
    <3>2. Holds("flow")' = Holds("flow") /\ Holds("syslog") = 0 /\ Holds("syslog")' = 1
      BY <2>1, <3>1, <1>a DEF Holds, Sockets
    <3>3. /\ UNCHANGED <<FlowsReceived, FlowsDone, MessagesDone>>
          /\ stats'.receivedUniFi = stats.receivedUniFi + 1
      BY <3>1, <1>a, <1>c, <1>d DEF Counters, FlowsReceived, FlowsDone, MessagesDone
    <3>4. MessagesUnderWay' = MessagesUnderWay + 1
      BY <2>1, <3>2, <1>b DEF MessagesUnderWay
    <3>5. FlowsUnderWay' = FlowsUnderWay
      BY <2>1, <2>2, <3>2 DEF FlowsUnderWay
    <3> QED BY <2>2, <3>3, <3>4, <3>5, <1>c, <1>e, <1>f DEF Books, FlowBooks, MessageBooks
  <2> QED BY <2>3, <2>4, <2>5
<1>3. ASSUME NEW d \in pushing["flow"], PushFlow(d) PROVE Books'
  <2>1. /\ listener' = [listener EXCEPT !["flow"] = HeadOfLoop]
        /\ UNCHANGED <<handled, syslogChan, worker, syslogWorker>>
    BY <1>3 DEF PushFlow
  <2>2. Holds("flow") = 1 /\ Holds("flow")' = 0 /\ Holds("syslog")' = Holds("syslog")
    <3>1. pushing["flow"] # {} /\ "flow" \in Sockets
      BY <1>3 DEF Sockets
    <3>2. listener["flow"] = "pushing"
      BY <3>1 DEF ListenInv, ListenersSound
    <3> QED BY <2>1, <3>2, <1>a DEF Holds, Sockets, HeadOfLoop
  <2>3. IsFiniteSet(Forwarding)' /\ Cardinality(Forwarding)' = Cardinality(Forwarding)
    BY <2>1, <1>a, ForwardingStays
  <2>4. CASE rawPacketsChan' = Append(rawPacketsChan, d) /\ UNCHANGED stats
    <3>1. Len(rawPacketsChan') = Len(rawPacketsChan) + 1
      BY <2>4, <1>a
    <3>2. UNCHANGED <<FlowsReceived, FlowsDone, MessagesDone, stats.receivedUniFi>>
      BY <2>1, <2>4 DEF FlowsReceived, FlowsDone, MessagesDone
    <3>3. FlowsUnderWay' = FlowsUnderWay
      BY <2>2, <2>3, <3>1, <1>b DEF FlowsUnderWay
    <3>4. MessagesUnderWay' = MessagesUnderWay
      BY <2>1, <2>2 DEF MessagesUnderWay
    <3> QED BY <2>3, <3>2, <3>3, <3>4, <1>f DEF Books, FlowBooks, MessageBooks
  <2>5. CASE stats' = [stats EXCEPT !.dropped = @ + 1] /\ UNCHANGED rawPacketsChan
    <3>1. FlowsUnderWay' = FlowsUnderWay - 1
      BY <2>2, <2>3, <2>5, <1>b DEF FlowsUnderWay
    <3>2. FlowsDone' = FlowsDone + 1
      <4>1. /\ stats'.dropped = stats.dropped + 1 /\ stats'.droppedUniFi = stats.droppedUniFi
            /\ stats'.decodeErrors = stats.decodeErrors
            /\ stats'.decodeErrorsUniFi = stats.decodeErrorsUniFi /\ handled' = handled
        BY <2>1, <2>5, <1>c DEF Counters
      <4>2. /\ stats.dropped \in Nat /\ stats.droppedUniFi \in Nat /\ stats.decodeErrors \in Nat
            /\ stats.decodeErrorsUniFi \in Nat /\ handled.packets \in Nat
        BY <1>c, <1>d DEF Counters
      <4> QED BY <4>1, <4>2 DEF FlowsDone
    <3>3. UNCHANGED <<FlowsReceived, MessagesDone, stats.receivedUniFi>>
      BY <2>1, <2>5, <1>a DEF Counters, FlowsReceived, MessagesDone
    <3>4. MessagesUnderWay' = MessagesUnderWay
      BY <2>1, <2>2 DEF MessagesUnderWay
    <3> QED BY <2>3, <3>1, <3>2, <3>3, <3>4, <1>e, <1>f DEF Books, FlowBooks, MessageBooks
  <2> QED BY <1>3, <2>4, <2>5 DEF PushFlow
<1>4. ASSUME NEW d \in pushing["syslog"], PushSyslog(d) PROVE Books'
  <2>1. /\ listener' = [listener EXCEPT !["syslog"] = HeadOfLoop]
        /\ UNCHANGED <<handled, rawPacketsChan, worker, syslogWorker>>
    BY <1>4 DEF PushSyslog
  <2>2. Holds("syslog") = 1 /\ Holds("syslog")' = 0 /\ Holds("flow")' = Holds("flow")
    <3>1. pushing["syslog"] # {} /\ "syslog" \in Sockets
      BY <1>4 DEF Sockets
    <3>2. listener["syslog"] = "pushing"
      BY <3>1 DEF ListenInv, ListenersSound
    <3> QED BY <2>1, <3>2, <1>a DEF Holds, Sockets, HeadOfLoop
  <2>3. IsFiniteSet(Forwarding)' /\ Cardinality(Forwarding)' = Cardinality(Forwarding)
    BY <2>1, <1>a, ForwardingStays
  <2>4. FlowsUnderWay' = FlowsUnderWay
    BY <2>1, <2>2, <2>3 DEF FlowsUnderWay
  <2>5. CASE syslogChan' = Append(syslogChan, d) /\ UNCHANGED stats
    <3>1. Len(syslogChan') = Len(syslogChan) + 1
      BY <2>5, <1>a
    <3>2. UNCHANGED <<FlowsReceived, FlowsDone, MessagesDone, stats.receivedUniFi>>
      BY <2>1, <2>5 DEF FlowsReceived, FlowsDone, MessagesDone
    <3>3. MessagesUnderWay' = MessagesUnderWay
      BY <2>1, <2>2, <3>1, <1>b DEF MessagesUnderWay
    <3> QED BY <2>3, <2>4, <3>2, <3>3, <1>f DEF Books, FlowBooks, MessageBooks
  <2>6. CASE stats' = IncrementUniFiDrop(stats) /\ UNCHANGED syslogChan
    <3>1. MessagesUnderWay' = MessagesUnderWay - 1
      BY <2>1, <2>2, <2>6, <1>b DEF MessagesUnderWay
    <3>2. MessagesDone' = MessagesDone + 1
      <4>1. /\ stats'.droppedUniFi = stats.droppedUniFi + 1
            /\ stats'.decodeErrorsUniFi = stats.decodeErrorsUniFi
        BY <2>6, <1>a DEF Counters, IncrementUniFiDrop
      <4> QED BY <4>1, <2>1, <1>c, <1>d DEF MessagesDone
    <3>3. UNCHANGED <<FlowsReceived, FlowsDone, stats.receivedUniFi>>
      BY <2>1, <2>6, <1>a, <1>c, <1>d DEF Counters, FlowsReceived, FlowsDone, IncrementUniFiDrop
    <3> QED BY <2>3, <2>4, <3>1, <3>2, <3>3, <1>e, <1>f DEF Books, FlowBooks, MessageBooks
  <2> QED BY <1>4, <2>5, <2>6 DEF PushSyslog
<1>5. ASSUME NEW s \in Sockets, ListenerExit(s) PROVE Books'
  <2>1. /\ listener[s] = "reading" /\ listener' = [listener EXCEPT ![s] = "done"]
        /\ UNCHANGED <<handled, rawPacketsChan, syslogChan, worker, syslogWorker, stats>>
    BY <1>5 DEF ListenerExit
  <2>2. UNCHANGED <<Holds("flow"), Holds("syslog")>>
    BY <2>1, <1>a DEF Holds, Sockets
  <2>3. IsFiniteSet(Forwarding)' /\ Cardinality(Forwarding)' = Cardinality(Forwarding)
    BY <2>1, <1>a, ForwardingStays
  <2>4. UNCHANGED <<FlowsReceived, FlowsDone, MessagesDone, FlowsUnderWay, MessagesUnderWay>>
    BY <2>1, <2>2, <2>3
       DEF FlowsReceived, FlowsDone, MessagesDone, FlowsUnderWay, MessagesUnderWay
  <2> QED BY <2>1, <2>3, <2>4, <1>f DEF Books, FlowBooks, MessageBooks
<1>6. ASSUME NEW w \in Workers, TakePacket(w) PROVE Books'
  <2>1. /\ worker[w] = "waiting" /\ rawPacketsChan # <<>>
        /\ rawPacketsChan' = Tail(rawPacketsChan)
        /\ UNCHANGED <<handled, listener, syslogChan, syslogWorker>>
    BY <1>6 DEF TakePacket
  <2>2. Len(rawPacketsChan') = Len(rawPacketsChan) - 1
    BY <2>1, <1>a
  <2>3. UNCHANGED <<Holds("flow"), Holds("syslog")>>
    BY <2>1 DEF Holds
  <2>4. MessagesUnderWay' = MessagesUnderWay
    BY <2>1, <2>3 DEF MessagesUnderWay
  <2>5. CASE stats' = [stats EXCEPT !.decodeErrors = @ + 1] /\ UNCHANGED workerVars
    <3>1. IsFiniteSet(Forwarding)' /\ Cardinality(Forwarding)' = Cardinality(Forwarding)
      BY <2>5, <1>a, ForwardingStays
    <3>2. FlowsUnderWay' = FlowsUnderWay - 1
      BY <2>2, <2>3, <3>1, <1>b DEF FlowsUnderWay
    <3>3. FlowsDone' = FlowsDone + 1
      <4>1. /\ stats'.decodeErrors = stats.decodeErrors + 1
            /\ UNCHANGED <<stats.dropped, stats.droppedUniFi, stats.decodeErrorsUniFi>>
        BY <2>5, <1>a DEF Counters
      <4>2. FlowsDone' = (stats.dropped - stats.droppedUniFi)
                         + ((stats.decodeErrors + 1) - stats.decodeErrorsUniFi) + handled.packets
        BY <4>1, <2>1 DEF FlowsDone
      <4> QED BY <4>2, <1>c, <1>d DEF FlowsDone
    <3>4. UNCHANGED <<FlowsReceived, MessagesDone, stats.receivedUniFi>>
      BY <2>1, <2>5, <1>a DEF Counters, FlowsReceived, MessagesDone
    <3> QED BY <2>4, <3>1, <3>2, <3>3, <3>4, <1>e, <1>f DEF Books, FlowBooks, MessageBooks
  <2>6. CASE worker' = [worker EXCEPT ![w] = "forwarding"] /\ UNCHANGED stats
    <3>1. IsFiniteSet(Forwarding)' /\ Cardinality(Forwarding)' = Cardinality(Forwarding) + 1
      BY <2>1, <2>6, <1>a, ForwardingStarts
    <3>2. FlowsUnderWay' = FlowsUnderWay
      BY <2>2, <2>3, <3>1, <1>b DEF FlowsUnderWay
    <3>3. UNCHANGED <<FlowsReceived, FlowsDone, MessagesDone, stats.receivedUniFi>>
      BY <2>1, <2>6 DEF FlowsReceived, FlowsDone, MessagesDone
    <3> QED BY <2>4, <3>1, <3>2, <3>3, <1>f DEF Books, FlowBooks, MessageBooks
  <2> QED BY <1>6, <2>5, <2>6 DEF TakePacket
<1>7. ASSUME NEW w \in Workers, PacketDone(w) PROVE Books'
  <2>1. /\ worker[w] = "forwarding" /\ worker' = [worker EXCEPT ![w] = "waiting"]
        /\ handled' = [handled EXCEPT !.packets = @ + 1]
        /\ UNCHANGED <<listener, rawPacketsChan, syslogChan, syslogWorker, stats>>
    BY <1>7 DEF PacketDone
  <2>2. UNCHANGED <<Holds("flow"), Holds("syslog")>>
    BY <2>1 DEF Holds
  <2>3. IsFiniteSet(Forwarding)' /\ Cardinality(Forwarding)' = Cardinality(Forwarding) - 1
    BY <2>1, <1>a, ForwardingEnds
  <2>4. FlowsUnderWay' = FlowsUnderWay - 1
    BY <2>1, <2>2, <2>3, <1>b DEF FlowsUnderWay
  <2>5. FlowsDone' = FlowsDone + 1
    <3>1. handled'.packets = handled.packets + 1
      BY <2>1, <1>a DEF Handled
    <3> QED BY <3>1, <2>1, <1>c, <1>d DEF FlowsDone
  <2>6. UNCHANGED <<FlowsReceived, MessagesDone, MessagesUnderWay, stats.receivedUniFi>>
    BY <2>1, <2>2, <1>a DEF Handled, FlowsReceived, MessagesDone, MessagesUnderWay
  <2> QED BY <2>3, <2>4, <2>5, <2>6, <1>e, <1>f DEF Books, FlowBooks, MessageBooks
<1>8. ASSUME NEW w \in Workers, ForwardEvent(w) \/ WorkerLeaves(w) PROVE Books'
  <2>1. UNCHANGED <<handled, listener, rawPacketsChan, syslogChan, syslogWorker, stats>>
    BY <1>8 DEF ForwardEvent, WorkerLeaves
  <2>2. \A v \in Workers : worker'[v] = "forwarding" <=> worker[v] = "forwarding"
    BY <1>8, <1>a DEF ForwardEvent, WorkerLeaves
  <2>3. IsFiniteSet(Forwarding)' /\ Cardinality(Forwarding)' = Cardinality(Forwarding)
    BY <2>2, <1>a, ForwardingStays
  <2>4. UNCHANGED <<FlowsReceived, FlowsDone, MessagesDone, FlowsUnderWay, MessagesUnderWay>>
    BY <2>1, <2>3
       DEF FlowsReceived, FlowsDone, MessagesDone, FlowsUnderWay, MessagesUnderWay, Holds
  <2> QED BY <2>1, <2>3, <2>4, <1>f DEF Books, FlowBooks, MessageBooks
<1>9. ASSUME TakeMessage PROVE Books'
  <2>1. /\ syslogWorker = "waiting" /\ syslogChan # <<>> /\ syslogChan' = Tail(syslogChan)
        /\ UNCHANGED <<handled, listener, rawPacketsChan, worker>>
    BY <1>9 DEF TakeMessage
  <2>2. Len(syslogChan') = Len(syslogChan) - 1
    BY <2>1, <1>a
  <2>3. UNCHANGED <<Holds("flow"), Holds("syslog")>>
    BY <2>1 DEF Holds
  <2>4. IsFiniteSet(Forwarding)' /\ Cardinality(Forwarding)' = Cardinality(Forwarding)
    BY <2>1, <1>a, ForwardingStays
  <2>5. FlowsUnderWay' = FlowsUnderWay
    BY <2>1, <2>3, <2>4 DEF FlowsUnderWay
  <2>6. CASE stats' = IncrementUniFiDecodeError(stats) /\ UNCHANGED syslogWorker
    <3>1. MessagesUnderWay' = MessagesUnderWay - 1
      BY <2>1, <2>2, <2>3, <2>6, <1>b DEF MessagesUnderWay
    <3>2. MessagesDone' = MessagesDone + 1
      <4>1. /\ stats'.decodeErrorsUniFi = stats.decodeErrorsUniFi + 1
            /\ stats'.droppedUniFi = stats.droppedUniFi
        BY <2>6, <1>a DEF Counters, IncrementUniFiDecodeError
      <4>2. MessagesDone' = (stats.droppedUniFi - handled.refused)
                            + ((stats.decodeErrorsUniFi + 1) - handled.oversized)
                            + handled.messages
        BY <4>1, <2>1 DEF MessagesDone
      <4> QED BY <4>2, <1>c, <1>d DEF MessagesDone
    <3>3. UNCHANGED <<FlowsReceived, FlowsDone, stats.receivedUniFi>>
      BY <2>1, <2>6, <1>a, <1>c, <1>d
         DEF Counters, FlowsReceived, FlowsDone, IncrementUniFiDecodeError
    <3> QED BY <2>4, <2>5, <3>1, <3>2, <3>3, <1>e, <1>f DEF Books, FlowBooks, MessageBooks
  <2>7. CASE syslogWorker' = "saving" /\ UNCHANGED stats
    <3>1. MessagesUnderWay' = MessagesUnderWay
      BY <2>1, <2>2, <2>3, <2>7, <1>b DEF MessagesUnderWay, Busy
    <3>2. UNCHANGED <<FlowsReceived, FlowsDone, MessagesDone, stats.receivedUniFi>>
      BY <2>1, <2>7 DEF FlowsReceived, FlowsDone, MessagesDone
    <3> QED BY <2>4, <2>5, <3>1, <3>2, <1>f DEF Books, FlowBooks, MessageBooks
  <2> QED BY <1>9, <2>6, <2>7 DEF TakeMessage
<1>10. ASSUME StoreMessage PROVE Books'
  <2>1. /\ syslogWorker = "saving" /\ syslogWorker' = "waiting"
        /\ handled' = [handled EXCEPT !.messages = @ + 1]
        /\ UNCHANGED <<listener, rawPacketsChan, syslogChan, worker, stats>>
    BY <1>10 DEF StoreMessage
  <2>2. UNCHANGED <<Holds("flow"), Holds("syslog")>>
    BY <2>1 DEF Holds
  <2>3. IsFiniteSet(Forwarding)' /\ Cardinality(Forwarding)' = Cardinality(Forwarding)
    BY <2>1, <1>a, ForwardingStays
  <2>4. MessagesUnderWay' = MessagesUnderWay - 1
    BY <2>1, <2>2, <1>b DEF MessagesUnderWay, Busy
  <2>5. MessagesDone' = MessagesDone + 1
    <3>1. /\ handled'.messages = handled.messages + 1
          /\ UNCHANGED <<handled.refused, handled.oversized>>
      BY <2>1, <1>a DEF Handled
    <3> QED BY <3>1, <2>1, <1>c, <1>d DEF MessagesDone
  <2>6. UNCHANGED <<FlowsReceived, FlowsDone, FlowsUnderWay, stats.receivedUniFi>>
    BY <2>1, <2>2, <2>3, <1>a DEF Handled, FlowsReceived, FlowsDone, FlowsUnderWay
  <2> QED BY <2>3, <2>4, <2>5, <2>6, <1>e, <1>f DEF Books, FlowBooks, MessageBooks
<1>11. ASSUME SyslogWorkerLeaves \/ CancelCollector \/ CloseListeners \/ CloseChannels
       PROVE  Books'
  <2>1. /\ UNCHANGED <<handled, listener, rawPacketsChan, syslogChan, worker, stats>>
        /\ syslogWorker' = "saving" <=> syslogWorker = "saving"
    BY <1>11 DEF SyslogWorkerLeaves, CancelCollector, CloseListeners, CloseChannels
  <2>2. IsFiniteSet(Forwarding)' /\ Cardinality(Forwarding)' = Cardinality(Forwarding)
    BY <2>1, <1>a, ForwardingStays
  <2>3. UNCHANGED <<FlowsReceived, FlowsDone, MessagesDone, FlowsUnderWay, MessagesUnderWay>>
    BY <2>1, <2>2
       DEF FlowsReceived, FlowsDone, MessagesDone, FlowsUnderWay, MessagesUnderWay, Holds, Busy
  <2> QED BY <2>1, <2>2, <2>3, <1>f DEF Books, FlowBooks, MessageBooks
<1> QED
  BY <1>1, <1>2, <1>3, <1>4, <1>5, <1>6, <1>7, <1>8, <1>9, <1>10, <1>11 DEF CollectorActs

-------------------------------------------------------------------------------
(* A step of a call other than its last stays with its event.              *)
LEMMA CarriesOn ==
  ASSUME CallTypeOK, NEW g \in Goroutines,
         FetchRates(g) \/ CreateRates(g) \/ AddToField(g) \/ Discover(g) \/ QueueLookup(g)
  PROVE  /\ OnlyMoves(g) /\ InChain(g) /\ InChain(g)'
         /\ call'[g].event = call[g].event /\ UNCHANGED delivered
<1>1. call[g].at \in Steps /\ UNCHANGED delivered
  BY DEF FetchRates, CreateRates, AddToField, Discover, QueueLookup, At, Steps
<1>2. call[g] \in Call /\ InChain(g)
  BY <1>1, CallTyped
<1>3. call \in [Goroutines -> Call \cup {Idle}]
  BY DEF CallTypeOK
<1>4. \A hosts : ProfilerStep(hosts) # "idle"
  BY DEF ProfilerStep
<1>5. /\ OnlyMoves(g) /\ call'[g].event = call[g].event /\ call'[g].at # "idle"
  <2>1. CASE FetchRates(g)
    BY <2>1, <1>2, <1>3 DEF FetchRates, OnlyMoves, Call
  <2>2. CASE CreateRates(g)
    BY <2>2, <1>2, <1>3 DEF CreateRates, OnlyMoves, Call
  <2>3. CASE AddToField(g)
    BY <2>3, <1>2, <1>3, <1>4 DEF AddToField, OnlyMoves, Call
  <2>4. ASSUME call' = NextHost(g)
        PROVE  /\ OnlyMoves(g) /\ call'[g].event = call[g].event /\ call'[g].at # "idle"
    BY <2>4, <1>2, <1>3, <1>4 DEF NextHost, OnlyMoves, Call
  <2>5. CASE Discover(g)
    BY <2>4, <2>5, <1>2, <1>3 DEF Discover, OnlyMoves, Call
  <2>6. CASE QueueLookup(g)
    BY <2>4, <2>6 DEF QueueLookup
  <2> QED BY <2>1, <2>2, <2>3, <2>5, <2>6
<1>6. Idle.at = "idle"
  BY DEF Idle
<1>7. InChain(g)'
  BY <1>5, <1>6 DEF InChain
<1> QED BY <1>1, <1>2, <1>5, <1>7

(* The loops of the capture and of main emit only in their turn, and main  *)
(* takes what is left when the loops have ended.                           *)
EmittersSound ==
  /\ evictor # "emitting" => StillToEmit(Evictor) = {} /\ ~InChain(Evictor)
  /\ pcapStop # "flushing" => StillToEmit(Main) = {} /\ ~InChain(Main)
  /\ pcapStop \in {"flushing", "returned"} => LoopsGone /\ ActiveKeys = {}

PcapInv == PcapTypeOK /\ IsFiniteSet(ActiveKeys) /\ EmittersSound /\ PacketsConserved

PcapActs ==
  \/ \E k \in Keys : Capture(k)
  \/ \E keys \in SUBSET ActiveKeys : Evict(keys)
  \/ \E g \in Emitters, k \in Keys : Emit(g, k)
  \/ CaptureExit \/ EmitReturns \/ EvictorExit
  \/ StopCapture \/ FlushRest \/ PcapReturns

(* The types of the capture; its table never holds more than MaxActive.    *)
LEMMA PcapTyped ==
  ASSUME PcapTypeOK, IsFiniteSet(ActiveKeys), PcapActs
  PROVE  PcapTypeOK' /\ IsFiniteSet(ActiveKeys)'
<1>a. /\ toCapture \in [Keys -> Nat] /\ active \in [Keys -> Nat]
      /\ captured \in [Keys -> Nat] /\ overflow \in [Keys -> Nat]
      /\ batch \in [Emitters -> [Keys -> Nat]]
      /\ Cardinality(ActiveKeys) <= MaxActive /\ Cardinality(ActiveKeys) \in Nat
      /\ MaxActive \in Nat
  BY FS_CardinalityType, PcapAssumption DEF PcapTypeOK
<1>1. ASSUME NEW k \in Keys, Capture(k) PROVE PcapTypeOK' /\ IsFiniteSet(ActiveKeys)'
  <2>1. /\ toCapture' \in [Keys -> Nat] /\ captured' \in [Keys -> Nat]
        /\ active' \in [Keys -> Nat] /\ overflow' \in [Keys -> Nat]
    BY <1>1, <1>a DEF Capture
  <2>2. IsFiniteSet(ActiveKeys') /\ Cardinality(ActiveKeys') <= MaxActive
    <3>1. CASE ActiveKeys' = ActiveKeys
      BY <3>1, <1>a
    <3>2. CASE ActiveKeys' # ActiveKeys
      <4>1. active' = [active EXCEPT ![k] = @ + 1] /\ HasRoomFor(k) /\ active[k] = 0
        BY <3>2, <1>1, <1>a DEF Capture, ActiveKeys
      <4>2. ActiveKeys' = ActiveKeys \cup {k} /\ k \notin ActiveKeys
        BY <4>1, <1>a DEF ActiveKeys
      <4>3. Cardinality(ActiveKeys) < MaxActive
        BY <4>1 DEF HasRoomFor
      <4>4. IsFiniteSet(ActiveKeys') /\ Cardinality(ActiveKeys') = Cardinality(ActiveKeys) + 1
        BY <4>2, FS_AddElement
      <4> QED BY <4>3, <4>4, <1>a
    <3> QED BY <3>1, <3>2
  <2>3. UNCHANGED <<capturing, evictor, batch, pcapStop>>
    BY <1>1 DEF Capture
  <2> QED BY <2>1, <2>2, <2>3 DEF PcapTypeOK
<1>2. ASSUME NEW g \in Emitters, NEW keys \in SUBSET ActiveKeys, TakeOut(g, keys)
      PROVE  /\ batch' \in [Emitters -> [Keys -> Nat]] /\ active' \in [Keys -> Nat]
             /\ IsFiniteSet(ActiveKeys') /\ Cardinality(ActiveKeys') <= MaxActive
  <2>1. /\ batch' \in [Emitters -> [Keys -> Nat]] /\ active' \in [Keys -> Nat]
        /\ \A k \in Keys : active'[k] = IF k \in keys THEN 0 ELSE active[k]
    BY <1>2, <1>a DEF TakeOut
  <2>2. ActiveKeys' \subseteq ActiveKeys
    BY <2>1, <1>a DEF ActiveKeys
  <2>3. IsFiniteSet(ActiveKeys') /\ Cardinality(ActiveKeys') <= Cardinality(ActiveKeys)
    BY <2>2, FS_Subset
  <2>4. Cardinality(ActiveKeys') \in Nat
    BY <2>3, FS_CardinalityType
  <2> QED BY <2>1, <2>3, <2>4, <1>a
<1>3. ASSUME NEW keys \in SUBSET ActiveKeys, Evict(keys)
      PROVE  PcapTypeOK' /\ IsFiniteSet(ActiveKeys)'
  BY <1>2, <1>3 DEF Evict, Emitters, PcapTypeOK
<1>4. ASSUME NEW g \in Emitters, NEW k \in Keys, Emit(g, k)
      PROVE  PcapTypeOK' /\ IsFiniteSet(ActiveKeys)'
  <2>1. batch' \in [Emitters -> [Keys -> Nat]]
    <3>1. batch[g] \in [Keys -> Nat]
      BY <1>a
    <3>2. [batch[g] EXCEPT ![k] = 0] \in [Keys -> Nat]
      BY <3>1
    <3>3. batch' = [batch EXCEPT ![g] = [batch[g] EXCEPT ![k] = 0]]
      BY <1>4 DEF Emit
    <3> QED BY <3>2, <3>3, <1>a
  <2>2. UNCHANGED <<toCapture, active, capturing, evictor, pcapStop, captured, overflow, ActiveKeys>>
    BY <1>4 DEF Emit, ActiveKeys
  <2> QED BY <2>1, <2>2 DEF PcapTypeOK
<1>5. ASSUME CaptureExit \/ EmitReturns \/ EvictorExit \/ StopCapture \/ PcapReturns
      PROVE  PcapTypeOK' /\ IsFiniteSet(ActiveKeys)'
  <2>1. UNCHANGED <<toCapture, active, batch, captured, overflow, ActiveKeys>>
    BY <1>5 DEF CaptureExit, EmitReturns, EvictorExit, StopCapture, PcapReturns, ActiveKeys
  <2>2. /\ capturing' \in BOOLEAN /\ evictor' \in {"ticking", "emitting", "done"}
        /\ pcapStop' \in {"running", "stopped", "flushing", "returned"}
    BY <1>5 DEF CaptureExit, EmitReturns, EvictorExit, StopCapture, PcapReturns, PcapTypeOK
  <2> QED BY <2>1, <2>2 DEF PcapTypeOK
<1>6. ASSUME FlushRest PROVE PcapTypeOK' /\ IsFiniteSet(ActiveKeys)'
  BY <1>2, <1>6 DEF FlushRest, Emitters, PcapTypeOK
<1> QED BY <1>1, <1>3, <1>4, <1>5, <1>6 DEF PcapActs

(* What is emitted is a flow event.                                        *)
LEMMA EventTyped ==
  ASSUME PcapTypeOK, NEW g \in Emitters, NEW k \in Keys
  PROVE  EventOf(k, batch[g][k]) \in FlowEvent
<1>1. batch[g][k] \in Nat
  BY DEF PcapTypeOK
<1> QED BY <1>1, PcapAssumption DEF EventOf, FlowEvent

(* The steps of the capture, but for the calls it makes.                   *)
QuietPcapActs ==
  \/ \E k \in Keys : Capture(k)
  \/ \E keys \in SUBSET ActiveKeys : Evict(keys)
  \/ CaptureExit \/ EmitReturns \/ EvictorExit
  \/ StopCapture \/ FlushRest \/ PcapReturns

(* Who may emit, and when.                                                 *)
LEMMA EmittersStep ==
  ASSUME PcapTypeOK, EmittersSound, QuietPcapActs, UNCHANGED chainVars
  PROVE  EmittersSound'
<1>1. InChain(Evictor)' = InChain(Evictor) /\ InChain(Main)' = InChain(Main)
  BY DEF InChain, chainVars
<1>2. /\ batch \in [Emitters -> [Keys -> Nat]] /\ active \in [Keys -> Nat]
      /\ Evictor # Main /\ Evictor \in Emitters /\ Main \in Emitters
  BY DEF PcapTypeOK, Emitters, Evictor, Main
<1>3. ASSUME NEW k \in Keys, Capture(k) PROVE EmittersSound'
  BY <1>1, <1>3 DEF Capture, EmittersSound, StillToEmit, LoopsGone
<1>4. ASSUME NEW g \in Emitters, NEW keys, TakeOut(g, keys)
      PROVE  \A other \in Emitters \ {g} : StillToEmit(other)' = StillToEmit(other)
  BY <1>2, <1>4 DEF TakeOut, StillToEmit
<1>5. ASSUME NEW keys \in SUBSET ActiveKeys, Evict(keys) PROVE EmittersSound'
  <2>1. StillToEmit(Main)' = StillToEmit(Main)
    BY <1>2, <1>4, <1>5 DEF Evict
  <2>2. evictor = "ticking" /\ evictor' = "emitting" /\ UNCHANGED <<capturing, pcapStop>>
    BY <1>5 DEF Evict
  <2> QED BY <1>1, <2>1, <2>2 DEF EmittersSound, LoopsGone
<1>6. ASSUME CaptureExit \/ EmitReturns \/ EvictorExit \/ StopCapture \/ PcapReturns
      PROVE  EmittersSound'
  <2>1. UNCHANGED <<batch, active>>
    BY <1>6 DEF CaptureExit, EmitReturns, EvictorExit, StopCapture, PcapReturns
  <2>2. /\ StillToEmit(Evictor)' = StillToEmit(Evictor)
        /\ StillToEmit(Main)' = StillToEmit(Main) /\ ActiveKeys' = ActiveKeys
    BY <2>1 DEF StillToEmit, ActiveKeys
  <2> QED BY <1>1, <1>6, <2>2 DEF CaptureExit, EmitReturns, EvictorExit, StopCapture,
          PcapReturns, EmittersSound, LoopsGone
<1>7. ASSUME FlushRest PROVE EmittersSound'
  <2>1. StillToEmit(Evictor)' = StillToEmit(Evictor)
    BY <1>2, <1>4, <1>7 DEF FlushRest
  <2>2. ActiveKeys' = {}
    BY <1>2, <1>7 DEF FlushRest, TakeOut, ActiveKeys
  <2>3. pcapStop' = "flushing" /\ LoopsGone /\ UNCHANGED <<capturing, evictor>>
    BY <1>7 DEF FlushRest
  <2> QED BY <1>1, <2>1, <2>2, <2>3 DEF EmittersSound, LoopsGone
<1> QED BY <1>3, <1>5, <1>6, <1>7 DEF QuietPcapActs

(* What an emitter took out of the table is in its batch, in its hand, or  *)
(* delivered: for each key a natural number.                               *)
LEMMA TakenOutTyped ==
  ASSUME PcapTypeOK, CallTypeOK, NEW g \in Emitters, NEW k \in Keys
  PROVE  /\ TakenOut(g, k) \in Nat /\ batch[g][k] \in Nat /\ PacketsInHand(g, k) \in Nat
         /\ delivered[g][k] \in Nat
<1>1. g \in Goroutines /\ k \in Tuples
  BY PcapAssumption DEF Goroutines, Emitters
<1>2. batch[g][k] \in Nat /\ delivered[g][k] \in Nat
  BY <1>1 DEF PcapTypeOK, CallTypeOK
<1>3. PacketsInHand(g, k) \in Nat
  BY <1>1 DEF PacketsInHand, InChain, CallTypeOK, Call, FlowEvent
<1> QED BY <1>2, <1>3 DEF TakenOut

(* A flow that moves from the table to a batch is counted once.            *)
LEMMA ConservedByPcap ==
  ASSUME PcapTypeOK, CallTypeOK, EmittersSound, PacketsConserved, QuietPcapActs,
         UNCHANGED chainVars
  PROVE  PacketsConserved'
<1> SUFFICES ASSUME NEW k \in Keys
             PROVE  captured'[k] = overflow'[k] + active'[k] + TakenOut(Evictor, k)'
                                   + TakenOut(Main, k)'
  BY DEF PacketsConserved
<1>1. /\ captured[k] = overflow[k] + active[k] + TakenOut(Evictor, k) + TakenOut(Main, k)
      /\ captured \in [Keys -> Nat] /\ overflow \in [Keys -> Nat]
      /\ active \in [Keys -> Nat] /\ batch \in [Emitters -> [Keys -> Nat]]
      /\ Evictor \in Emitters /\ Main \in Emitters /\ Evictor # Main
  BY DEF PacketsConserved, PcapTypeOK, Emitters, Evictor, Main
<1>2. /\ TakenOut(Evictor, k) \in Nat /\ TakenOut(Main, k) \in Nat
      /\ captured[k] \in Nat /\ overflow[k] \in Nat /\ active[k] \in Nat
  BY <1>1, TakenOutTyped
<1>3. \A g \in Emitters : PacketsInHand(g, k)' = PacketsInHand(g, k)
                         /\ delivered'[g][k] = delivered[g][k]
  BY DEF PacketsInHand, InChain, chainVars
<1>4. ASSUME NEW g \in Emitters, UNCHANGED batch[g]
      PROVE  TakenOut(g, k)' = TakenOut(g, k)
  BY <1>3, <1>4 DEF TakenOut
<1>5. ASSUME NEW key \in Keys, Capture(key)
      PROVE  captured'[k] = overflow'[k] + active'[k] + TakenOut(Evictor, k)'
                            + TakenOut(Main, k)'
  <2>1. TakenOut(Evictor, k)' = TakenOut(Evictor, k) /\ TakenOut(Main, k)' = TakenOut(Main, k)
    BY <1>1, <1>4, <1>5 DEF Capture
  <2>2. CASE key # k
    <3>1. captured'[k] = captured[k] /\ overflow'[k] = overflow[k] /\ active'[k] = active[k]
      BY <1>1, <1>5, <2>2 DEF Capture
    <3> QED BY <1>1, <2>1, <3>1
  <2>3. CASE key = k
    <3>1. /\ captured'[k] = captured[k] + 1
          /\ \/ active'[k] = active[k] + 1 /\ overflow'[k] = overflow[k]
             \/ overflow'[k] = overflow[k] + 1 /\ active'[k] = active[k]
      BY <1>1, <1>5, <2>3 DEF Capture
    <3> QED BY <1>1, <1>2, <2>1, <3>1
  <2> QED BY <2>2, <2>3
<1>6. ASSUME NEW g \in Emitters, NEW keys, TakeOut(g, keys), StillToEmit(g) = {}
      PROVE  /\ TakenOut(g, k)' + active'[k] = TakenOut(g, k) + active[k]
             /\ active'[k] \in Nat /\ TakenOut(g, k)' \in Nat
             /\ \A other \in Emitters \ {g} : TakenOut(other, k)' = TakenOut(other, k)
  <2>1. batch[g][k] = 0
    BY <1>1, <1>6 DEF StillToEmit
  <2>2. /\ batch'[g][k] = IF k \in keys THEN active[k] ELSE 0
        /\ active'[k] = IF k \in keys THEN 0 ELSE active[k]
        /\ \A other \in Emitters \ {g} : batch'[other] = batch[other]
    BY <1>1, <1>6 DEF TakeOut
  <2>3. PacketsInHand(g, k) \in Nat /\ delivered[g][k] \in Nat
    BY TakenOutTyped
  <2>4. \A other \in Emitters \ {g} : TakenOut(other, k)' = TakenOut(other, k)
    BY <2>2, <1>4
  <2> QED BY <2>1, <2>2, <2>3, <2>4, <1>2, <1>3 DEF TakenOut
<1>m. ASSUME NEW o \in Nat, NEW a \in Nat, NEW t \in Nat, NEW m \in Nat,
             NEW a2 \in Nat, NEW t2 \in Nat, t2 + a2 = t + a
      PROVE  o + a + t + m = o + a2 + t2 + m /\ o + a + m + t = o + a2 + m + t2
  BY <1>m
<1>7. ASSUME \E keys \in SUBSET ActiveKeys : Evict(keys)
      PROVE  captured'[k] = overflow'[k] + active'[k] + TakenOut(Evictor, k)'
                            + TakenOut(Main, k)'
  <2>1. /\ UNCHANGED <<captured, overflow>> /\ TakenOut(Main, k)' = TakenOut(Main, k)
        /\ TakenOut(Evictor, k)' + active'[k] = TakenOut(Evictor, k) + active[k]
        /\ active'[k] \in Nat /\ TakenOut(Evictor, k)' \in Nat
    BY <1>1, <1>6, <1>7 DEF Evict, EmittersSound
  <2>2. overflow[k] + active[k] + TakenOut(Evictor, k) + TakenOut(Main, k)
          = overflow[k] + active'[k] + TakenOut(Evictor, k)' + TakenOut(Main, k)
    BY <2>1, <1>2, <1>m
  <2> QED BY <2>1, <2>2, <1>1
<1>8. ASSUME FlushRest
      PROVE  captured'[k] = overflow'[k] + active'[k] + TakenOut(Evictor, k)'
                            + TakenOut(Main, k)'
  <2>1. /\ UNCHANGED <<captured, overflow>> /\ TakenOut(Evictor, k)' = TakenOut(Evictor, k)
        /\ TakenOut(Main, k)' + active'[k] = TakenOut(Main, k) + active[k]
        /\ active'[k] \in Nat /\ TakenOut(Main, k)' \in Nat
    BY <1>1, <1>6, <1>8 DEF FlushRest, EmittersSound
  <2>2. overflow[k] + active[k] + TakenOut(Evictor, k) + TakenOut(Main, k)
          = overflow[k] + active'[k] + TakenOut(Evictor, k) + TakenOut(Main, k)'
    BY <2>1, <1>2, <1>m
  <2> QED BY <2>1, <2>2, <1>1
<1>9. ASSUME CaptureExit \/ EmitReturns \/ EvictorExit \/ StopCapture \/ PcapReturns
      PROVE  captured'[k] = overflow'[k] + active'[k] + TakenOut(Evictor, k)'
                            + TakenOut(Main, k)'
  <2>1. UNCHANGED <<captured, overflow, active, batch>>
    BY <1>9 DEF CaptureExit, EmitReturns, EvictorExit, StopCapture, PcapReturns
  <2>2. TakenOut(Evictor, k)' = TakenOut(Evictor, k) /\ TakenOut(Main, k)' = TakenOut(Main, k)
    BY <1>1, <1>4, <2>1
  <2> QED BY <1>1, <2>1, <2>2
<1> QED BY <1>5, <1>7, <1>8, <1>9 DEF QuietPcapActs

(* An emitted flow leaves the batch for the hand of its emitter.           *)
LEMMA EmitStep ==
  ASSUME PcapTypeOK, CallTypeOK, EmittersSound, PacketsConserved,
         NEW g \in Emitters, NEW key \in Keys, Emit(g, key),
         OnlyMoves(g), InChain(g)', call'[g].event = EventOf(key, batch[g][key])
  PROVE  EmittersSound' /\ PacketsConserved'
<1>1. /\ batch \in [Emitters -> [Keys -> Nat]] /\ batch[g][key] > 0
      /\ call[g] = Idle /\ UNCHANGED delivered
      /\ batch' = [batch EXCEPT ![g] = [batch[g] EXCEPT ![key] = 0]]
      /\ UNCHANGED <<active, capturing, evictor, pcapStop, captured, overflow>>
  BY DEF PcapTypeOK, Emit, Process
<1>2. /\ Evictor # Main /\ Evictor \in Emitters /\ Main \in Emitters
      /\ \A other \in Emitters \ {g} : call'[other] = call[other] /\ batch'[other] = batch[other]
  BY <1>1 DEF Emitters, Evictor, Main, OnlyMoves, Goroutines
<1>3. StillToEmit(g) # {}
  BY <1>1 DEF StillToEmit
<1>4. EmittersSound'
  <2>1. ActiveKeys' = ActiveKeys
    BY <1>1 DEF ActiveKeys
  <2>2. \A other \in Emitters \ {g} : StillToEmit(other)' = StillToEmit(other)
                                    /\ InChain(other)' = InChain(other)
    BY <1>2 DEF StillToEmit, InChain
  <2> QED BY <1>1, <1>2, <1>3, <2>1, <2>2 DEF EmittersSound, LoopsGone, Emitters
<1>5. ASSUME NEW e \in Emitters, NEW k \in Keys PROVE TakenOut(e, k)' = TakenOut(e, k)
  <2>1. CASE e # g
    BY <1>1, <1>2, <2>1 DEF TakenOut, PacketsInHand, InChain
  <2>2. CASE e = g /\ k # key
    <3>1. call'[g].event.tuple # k
      BY <2>2 DEF EventOf
    <3>2. batch'[g][k] = batch[g][k]
      BY <1>1, <2>2
    <3> QED BY <1>1, <2>2, <3>1, <3>2 DEF TakenOut, PacketsInHand, InChain
  <2>3. CASE e = g /\ k = key
    <3>1. PacketsInHand(g, key)' = batch[g][key] /\ PacketsInHand(g, key) = 0
      BY <1>1 DEF PacketsInHand, EventOf, InChain
    <3>2. batch'[g][key] = 0
      BY <1>1
    <3>3. batch[g][key] \in Nat /\ delivered[g][key] \in Nat /\ delivered'[g][key] = delivered[g][key]
      BY <1>1, TakenOutTyped
    <3> QED BY <2>3, <3>1, <3>2, <3>3 DEF TakenOut
  <2> QED BY <2>1, <2>2, <2>3
<1> QED BY <1>1, <1>2, <1>4, <1>5 DEF PacketsConserved

(* The steps of a call keep the packets of its event, in hand or           *)
(* delivered.                                                              *)
LEMMA HandStep ==
  ASSUME PcapTypeOK, CallTypeOK, EmittersSound, PacketsConserved,
         NEW g \in Goroutines, UNCHANGED pcapVars, OnlyMoves(g), InChain(g),
         \/ Deliver(g)
         \/ InChain(g)' /\ call'[g].event = call[g].event /\ UNCHANGED delivered
  PROVE  EmittersSound' /\ PacketsConserved'
<1>1. \A e \in Emitters : e \in Goroutines /\ (InChain(e)' => InChain(e))
  BY DEF OnlyMoves, InChain, Emitters, Goroutines
<1>2. \A e \in Emitters : StillToEmit(e)' = StillToEmit(e)
  BY DEF StillToEmit, pcapVars
<1>3. ActiveKeys' = ActiveKeys
  BY DEF ActiveKeys, pcapVars
<1>4. EmittersSound'
  BY <1>1, <1>2, <1>3 DEF EmittersSound, LoopsGone, pcapVars, Emitters
<1>5. ASSUME NEW e \in Emitters, NEW k \in Keys PROVE TakenOut(e, k)' = TakenOut(e, k)
  <2>1. /\ batch[e][k] \in Nat /\ PacketsInHand(e, k) \in Nat /\ delivered[e][k] \in Nat
        /\ batch'[e][k] = batch[e][k]
    BY TakenOutTyped DEF pcapVars
  <2>2. CASE UNCHANGED delivered /\ InChain(g)' /\ call'[g].event = call[g].event
    <3>1. PacketsInHand(e, k)' = PacketsInHand(e, k)
      BY <1>1, <2>2 DEF PacketsInHand, InChain, OnlyMoves
    <3> QED BY <2>1, <2>2, <3>1 DEF TakenOut
  <2>3. CASE Deliver(g)
    <3>1. CASE e # g
      <4>1. call'[e] = call[e] /\ delivered'[e] = delivered[e]
        BY <1>1, <2>3, <3>1 DEF OnlyMoves, Deliver, CallTypeOK
      <4> QED BY <2>1, <4>1 DEF TakenOut, PacketsInHand, InChain
    <3>2. CASE e = g
      <4> DEFINE t == call[g].event.tuple
                 p == call[g].event.packets
      <4>1. call'[g] = Idle /\ PacketsInHand(e, k)' = 0
        BY <2>3, <3>2 DEF Deliver, CallTypeOK, PacketsInHand, InChain
      <4>2. delivered'[g] = [delivered[g] EXCEPT ![t] = @ + p] /\ k \in Tuples
            /\ delivered[g] \in [Tuples -> Nat]
        BY <2>3, PcapAssumption DEF Deliver, CallTypeOK
      <4>3. CASE t = k
        <5>1. delivered'[g][k] = delivered[g][k] + PacketsInHand(g, k)
          BY <4>2, <4>3 DEF PacketsInHand
        <5> QED BY <3>2, <4>1, <5>1, <2>1 DEF TakenOut
      <4>4. CASE t # k
        <5>1. delivered'[g][k] = delivered[g][k] /\ PacketsInHand(g, k) = 0
          BY <4>2, <4>4 DEF PacketsInHand
        <5> QED BY <3>2, <4>1, <5>1, <2>1 DEF TakenOut
      <4> QED BY <4>3, <4>4
    <3> QED BY <3>1, <3>2
  <2> QED BY <2>2, <2>3
<1> QED BY <1>4, <1>5 DEF PacketsConserved, pcapVars, Emitters

-------------------------------------------------------------------------------
(* Every name on its way to the devices table is one a lookup answered, or *)
(* none; and once a lookup has answered, the row has a name, or a resolver *)
(* is about to write the answer, or has failed to.                         *)
Named(h) == devices[h] # {} /\ NoName \notin devices[h]
Saving(d, h, name) ==
  resolver[d].at = "saving" /\ resolver[d].ip = h /\ resolver[d].hostname = name
Reaches(h, name) == Named(h) \/ \E d \in Resolvers : Saving(d, h, name)
NamesSound ==
  /\ \A h \in LocalHosts : CachedName(h) \cup devices[h] \subseteq answered[h] \cup {NoName}
  /\ \A u \in upserts : u.hostname \subseteq answered[u.ip] \cup {NoName}
  /\ \A d \in Resolvers : resolver[d].at = "saving" =>
                            resolver[d].hostname \in answered[resolver[d].ip]
  /\ \A h \in LocalHosts : \A name \in answered[h] \ unsaved[h] : Reaches(h, name)
CacheSingle == \A h \in LocalHosts : dnsCache[h] = {} \/ \E e \in dnsCache[h] : dnsCache[h] = {e}

ProfilerInv == ProfilerTypeOK /\ CacheSingle /\ NamesSound

ProfilerActs ==
  \/ \E h \in LocalHosts : EntryExpires(h)
  \/ \E u \in upserts : ReadCachedName(u) \/ UpsertDevice(u)
  \/ \E d \in Resolvers :
       \/ TakeLookup(d) \/ SaveName(d) \/ ResolverExit(d)
       \/ \E name \in HostNames : Answer(d, name)

(* What a resolver carries.                                                *)
LEMMA ResolverTyped ==
  ASSUME ProfilerTypeOK, NEW d \in Resolvers
  PROVE  /\ resolver[d].at \in {"looking", "saving"} => resolver[d].ip \in LocalHosts
         /\ resolver[d].at = "saving" => resolver[d].hostname \in Names
<1>1. resolver[d] \in Resolver
  BY DEF ProfilerTypeOK
<1> QED BY <1>1 DEF Resolver

(* A set of one or no entry has at most one.                               *)
LEMMA SingleCounts ==
  ASSUME NEW S, S = {} \/ \E e \in S : S = {e}
  PROVE  Cardinality(S) <= 1
<1>1. CASE S = {}
  BY <1>1, FS_EmptySet
<1>2. CASE \E e \in S : S = {e}
  <2>1. PICK e : S = {e}
    BY <1>2
  <2>2. Cardinality({e}) = 1
    BY FS_Singleton
  <2> QED BY <2>1, <2>2
<1> QED BY <1>1, <1>2

(* The states a resolver may be put into.                                  *)
LEMMA ResolverStates ==
  /\ Waiting \in Resolver /\ [at |-> "done"] \in Resolver
  /\ \A h \in LocalHosts : [at |-> "looking", ip |-> h] \in Resolver
  /\ \A h \in LocalHosts, n \in Names :
       [at |-> "saving", ip |-> h, hostname |-> n] \in Resolver
BY DEF Waiting, Resolver

(* The types of the profiler.                                              *)
LEMMA ProfilerTyped ==
  ASSUME ProfilerTypeOK, CacheSingle, ProfilerActs
  PROVE  ProfilerTypeOK' /\ CacheSingle'
<1>a. /\ dnsCache \in [LocalHosts -> SUBSET Entry]
      /\ lookupQueue \in Seq(LocalHosts) /\ Len(lookupQueue) <= LookupQueueSize
      /\ resolver \in [Resolvers -> Resolver] /\ upserts \subseteq Upsert
      /\ devices \in [LocalHosts -> SUBSET HostNames]
      /\ answered \in [LocalHosts -> SUBSET Names] /\ LookupQueueSize \in Nat
      /\ unsaved \in [LocalHosts -> SUBSET Names] /\ failuresLeft \in Nat
  BY ProfilerAssumption DEF ProfilerTypeOK
<1>1. ASSUME NEW h \in LocalHosts, NEW new \in SUBSET Entry,
             new = {} \/ \E e \in new : new = {e},
             dnsCache' = [dnsCache EXCEPT ![h] = new]
      PROVE  /\ dnsCache' \in [LocalHosts -> SUBSET Entry] /\ CacheSingle'
             /\ \A k \in LocalHosts : Cardinality(dnsCache'[k]) <= 1
  <2>1. \A k \in LocalHosts : dnsCache'[k] = {} \/ \E e \in dnsCache'[k] : dnsCache'[k] = {e}
    BY <1>1, <1>a DEF CacheSingle
  <2>2. \A k \in LocalHosts : Cardinality(dnsCache'[k]) <= 1
    BY <2>1, SingleCounts
  <2> QED BY <2>1, <2>2, <1>1, <1>a DEF CacheSingle
<1>2. ASSUME NEW h \in LocalHosts, NEW name \in HostNames
      PROVE  Upserted(h, name) \in [LocalHosts -> SUBSET HostNames]
  BY <1>2, <1>a DEF Upserted
<1>3. ASSUME NEW h \in LocalHosts, EntryExpires(h) PROVE ProfilerTypeOK' /\ CacheSingle'
  <2> DEFINE new == {[e EXCEPT !.fresh = FALSE] : e \in dnsCache[h]}
  <2>1. dnsCache' = [dnsCache EXCEPT ![h] = new]
    BY <1>3 DEF EntryExpires
  <2>2. new \in SUBSET Entry
    <3>1. dnsCache[h] \subseteq Entry
      BY <1>a
    <3>2. \A e \in Entry : [e EXCEPT !.fresh = FALSE] \in Entry
      BY DEF Entry
    <3> QED BY <3>1, <3>2
  <2>3. new = {} \/ \E e \in new : new = {e}
    <3>1. CASE dnsCache[h] = {}
      BY <3>1
    <3>2. CASE \E e \in dnsCache[h] : dnsCache[h] = {e}
      <4>1. PICK e \in dnsCache[h] : dnsCache[h] = {e}
        BY <3>2
      <4>2. new = {[e EXCEPT !.fresh = FALSE]}
        BY <4>1
      <4> QED BY <4>2
    <3> QED BY <3>1, <3>2 DEF CacheSingle
  <2> HIDE DEF new
  <2>4. /\ dnsCache' \in [LocalHosts -> SUBSET Entry] /\ CacheSingle'
        /\ \A k \in LocalHosts : Cardinality(dnsCache'[k]) <= 1
    BY <2>1, <2>2, <2>3, <1>1
  <2>5. agingLeft' \in Nat
    BY <1>3 DEF EntryExpires, ProfilerTypeOK
  <2> QED BY <1>3, <2>4, <2>5 DEF EntryExpires, ProfilerTypeOK
<1>4. ASSUME NEW u \in upserts, ReadCachedName(u) PROVE ProfilerTypeOK' /\ CacheSingle'
  <2>1. u.ip \in LocalHosts /\ u \in [ip : LocalHosts, for : FlowEvent, by : Goroutines,
                                      hostname : SUBSET HostNames]
    BY <1>a DEF Upsert
  <2>2. CachedName(u.ip) \subseteq HostNames
    BY <2>1, <1>a DEF CachedName, Entry
  <2>3. [u EXCEPT !.hostname = CachedName(u.ip)] \in Upsert
    BY <2>1, <2>2 DEF Upsert
  <2>4. upserts' \subseteq Upsert
    BY <1>4, <2>3, <1>a DEF ReadCachedName
  <2> QED BY <1>4, <2>4 DEF ReadCachedName, ProfilerTypeOK, CacheSingle
<1>5. ASSUME NEW u \in upserts, UpsertDevice(u) PROVE ProfilerTypeOK' /\ CacheSingle'
  <2>1. u.ip \in LocalHosts /\ u.hostname \subseteq HostNames
    BY <1>a DEF Upsert
  <2>2. devices' \in [LocalHosts -> SUBSET HostNames]
    BY <1>5, <2>1, <1>2, <1>a DEF UpsertDevice
  <2>3. upserts' \subseteq Upsert /\ failuresLeft' \in Nat
    BY <1>5, <1>a DEF UpsertDevice, WriteFails
  <2>4. UNCHANGED <<dnsCache, lookupQueue, lookupClosed, profilerCancelled, resolver,
                    storeClosed, agingLeft, answered, unsaved>>
    BY <1>5 DEF UpsertDevice
  <2> QED BY <2>2, <2>3, <2>4 DEF ProfilerTypeOK, CacheSingle
<1>6. ASSUME NEW d \in Resolvers, TakeLookup(d) PROVE ProfilerTypeOK' /\ CacheSingle'
  <2>1. Head(lookupQueue) \in LocalHosts /\ Tail(lookupQueue) \in Seq(LocalHosts)
        /\ Len(Tail(lookupQueue)) <= LookupQueueSize
    BY <1>6, <1>a DEF TakeLookup
  <2>2. resolver' \in [Resolvers -> Resolver]
    BY <1>6, <2>1, <1>a, ResolverStates DEF TakeLookup
  <2> QED BY <1>6, <2>1, <2>2 DEF TakeLookup, ProfilerTypeOK, CacheSingle
<1>7. ASSUME NEW d \in Resolvers, NEW name \in HostNames, Answer(d, name)
      PROVE  ProfilerTypeOK' /\ CacheSingle'
  <2>1. resolver[d].ip \in LocalHosts
    BY <1>7, ResolverTyped DEF Answer
  <2> DEFINE new == {[hostname |-> name, fresh |-> TRUE]}
  <2>2. new \in SUBSET Entry /\ \E e \in new : new = {e}
    BY DEF Entry
  <2>3. dnsCache' = [dnsCache EXCEPT ![resolver[d].ip] = new]
    BY <1>7 DEF Answer
  <2> HIDE DEF new
  <2>4. /\ dnsCache' \in [LocalHosts -> SUBSET Entry] /\ CacheSingle'
        /\ \A k \in LocalHosts : Cardinality(dnsCache'[k]) <= 1
    BY <2>1, <2>2, <2>3, <1>1
  <2>5. resolver' \in [Resolvers -> Resolver]
    BY <1>7, <2>1, <1>a, ResolverStates DEF Answer, HostNames
  <2>6. answered' \in [LocalHosts -> SUBSET Names]
    BY <1>7, <2>1, <1>a DEF Answer, HostNames
  <2> QED BY <1>7, <2>4, <2>5, <2>6 DEF Answer, ProfilerTypeOK
<1>8. ASSUME NEW d \in Resolvers, SaveName(d) PROVE ProfilerTypeOK' /\ CacheSingle'
  <2>1. /\ resolver[d].ip \in LocalHosts /\ resolver[d].hostname \in HostNames
        /\ resolver[d].hostname \in Names
    BY <1>8, ResolverTyped DEF SaveName, HostNames
  <2>2. devices' \in [LocalHosts -> SUBSET HostNames]
    BY <1>8, <2>1, <1>2, <1>a DEF SaveName
  <2>3. resolver' \in [Resolvers -> Resolver]
    BY <1>8, <1>a, ResolverStates DEF SaveName
  <2>4. unsaved' \in [LocalHosts -> SUBSET Names]
    BY <1>8, <2>1, <1>a DEF SaveName
  <2>5. failuresLeft' \in Nat
    BY <1>8, <1>a DEF SaveName, WriteFails
  <2>6. UNCHANGED <<dnsCache, lookupQueue, lookupClosed, profilerCancelled, upserts,
                    storeClosed, agingLeft, answered>>
    BY <1>8 DEF SaveName
  <2> QED BY <2>2, <2>3, <2>4, <2>5, <2>6 DEF ProfilerTypeOK, CacheSingle
<1>9. ASSUME NEW d \in Resolvers, ResolverExit(d) PROVE ProfilerTypeOK' /\ CacheSingle'
  <2>1. resolver' \in [Resolvers -> Resolver]
    BY <1>9, <1>a, ResolverStates DEF ResolverExit
  <2> QED BY <1>9, <2>1 DEF ResolverExit, ProfilerTypeOK, CacheSingle
<1> QED BY <1>3, <1>4, <1>5, <1>6, <1>7, <1>8, <1>9 DEF ProfilerActs

(* The names, when the rows and the answers stay.                          *)
LEMMA NamesKept ==
  ASSUME NamesSound, UNCHANGED <<devices, answered, unsaved>>,
         \A h \in LocalHosts : CachedName(h)' \subseteq CachedName(h) \cup {NoName},
         \A u \in upserts' : u.hostname \subseteq answered[u.ip] \cup {NoName},
         \A d \in Resolvers : resolver'[d] = resolver[d]
                              \/ (resolver[d].at # "saving" /\ resolver'[d].at # "saving")
  PROVE  NamesSound'
<1>1. \A h \in LocalHosts : CachedName(h)' \cup devices'[h] \subseteq answered'[h] \cup {NoName}
  BY DEF NamesSound
<1>2. \A d \in Resolvers : resolver'[d].at = "saving" =>
                             resolver'[d].hostname \in answered'[resolver'[d].ip]
  BY DEF NamesSound
<1>3. ASSUME NEW h \in LocalHosts, NEW name \in (answered[h] \ unsaved[h])'
      PROVE  Reaches(h, name)'
  <2>1. Named(h) \/ \E d \in Resolvers : Saving(d, h, name)
    BY <1>3 DEF NamesSound, Reaches
  <2>2. CASE Named(h)
    BY <2>2 DEF Named, Reaches
  <2>3. CASE \E d \in Resolvers : Saving(d, h, name)
    BY <2>3 DEF Saving, Reaches
  <2> QED BY <2>1, <2>2, <2>3
<1> QED BY <1>1, <1>2, <1>3 DEF NamesSound

(* A name that was answered for a host goes into its row, or stays out     *)
(* because the row has one: a registration that knows no name wipes        *)
(* nothing out.                                                            *)
LEMMA UpsertedKeepsNames ==
  ASSUME NamesSound, ProfilerTypeOK, NEW h \in LocalHosts, NEW name \in HostNames,
         name \in answered[h] \cup {NoName}, devices' = Upserted(h, name)
  PROVE  /\ \A k \in LocalHosts : devices'[k] \subseteq answered[k] \cup {NoName}
         /\ \A k \in LocalHosts : Named(k) => Named(k)'
         /\ name # NoName => Named(h)'
<1>1. devices \in [LocalHosts -> SUBSET HostNames]
  BY DEF ProfilerTypeOK
<1>2. \A k \in LocalHosts : devices[k] \subseteq answered[k] \cup {NoName}
  BY DEF NamesSound
<1>3. CASE name = NoName /\ devices[h] # {}
  BY <1>2, <1>3 DEF Upserted, Named
<1>4. CASE ~(name = NoName /\ devices[h] # {})
  BY <1>1, <1>2, <1>4 DEF Upserted, Named
<1> QED BY <1>3, <1>4

(* The discovery of a host and the queuing of its lookup.                  *)
LEMMA DiscoverNames ==
  ASSUME ChainInv, ProfilerInv, NEW g \in Goroutines, Discover(g) \/ QueueLookup(g)
  PROVE  ProfilerInv'
<1> USE DEF ProfilerInv
<1>a. /\ call[g] \in Call /\ call[g].event \in FlowEvent
      /\ call[g].hosts \in Seq(LocalHosts) /\ call[g].hosts # <<>>
  <2>1. call[g].at \in {"discover", "send"}
    BY DEF Discover, QueueLookup, At
  <2>2. call[g] \in Call /\ call[g].event \in FlowEvent /\ InChain(g)
    BY <2>1, CallTyped DEF ChainInv, Steps
  <2>3. CallSound(call[g])
    BY <2>2 DEF ChainInv, CallsSound
  <2> QED BY <2>1, <2>2, <2>3 DEF CallSound
<1> DEFINE h == Head(call[g].hosts)
<1>b. h \in LocalHosts
  BY <1>a
<1>c. /\ dnsCache \in [LocalHosts -> SUBSET Entry] /\ upserts \subseteq Upsert
      /\ lookupQueue \in Seq(LocalHosts) /\ Len(lookupQueue) <= LookupQueueSize
      /\ LookupQueueSize \in Nat
  BY ProfilerAssumption DEF ProfilerTypeOK
<1>1. CASE Discover(g)
  <2> DEFINE new == [ip |-> h, for |-> call[g].event, by |-> g, hostname |-> {}]
             entry == [hostname |-> IF CachedName(h) = {} THEN NoName
                                    ELSE CHOOSE n \in CachedName(h) : TRUE,
                       fresh |-> TRUE]
  <2>1. /\ upserts' = upserts \cup {new}
        /\ \/ dnsCache' = [dnsCache EXCEPT ![h] = {entry}]
           \/ UNCHANGED dnsCache
        /\ UNCHANGED <<lookupQueue, lookupClosed, profilerCancelled, resolver,
                       devices, storeClosed, agingLeft, failuresLeft, answered, unsaved>>
    BY <1>1 DEF Discover
  <2>2. new \in Upsert
    BY <1>a, <1>b DEF Upsert
  <2>3. upserts' \subseteq Upsert
    BY <2>1, <2>2, <1>c
  <2>4. entry \in Entry /\ entry.hostname \in CachedName(h) \cup {NoName}
    <3>1. CachedName(h) \subseteq HostNames
      BY <1>b, <1>c DEF CachedName, Entry
    <3>2. CASE CachedName(h) = {}
      BY <3>2 DEF Entry, HostNames
    <3>3. CASE CachedName(h) # {}
      <4>1. (CHOOSE n \in CachedName(h) : TRUE) \in CachedName(h)
        BY <3>3
      <4> QED BY <3>1, <3>3, <4>1 DEF Entry
    <3> QED BY <3>2, <3>3
  <2> HIDE DEF entry, new
  <2>5. /\ dnsCache' \in [LocalHosts -> SUBSET Entry]
        /\ \A k \in LocalHosts : dnsCache'[k] = dnsCache[k]
                                 \/ (k = h /\ dnsCache'[k] = {entry})
    BY <2>1, <2>4, <1>b, <1>c
  <2>6. CacheSingle' /\ \A k \in LocalHosts : Cardinality(dnsCache'[k]) <= 1
    <3>1. \A k \in LocalHosts : dnsCache'[k] = {} \/ \E e \in dnsCache'[k] : dnsCache'[k] = {e}
      BY <2>5 DEF CacheSingle
    <3> QED BY <3>1, SingleCounts DEF CacheSingle
  <2>7. ProfilerTypeOK'
    BY <2>1, <2>3, <2>5, <2>6 DEF ProfilerTypeOK
  <2>8. \A k \in LocalHosts : CachedName(k)' \subseteq CachedName(k) \cup {NoName}
    BY <2>4, <2>5 DEF CachedName
  <2>9. \A u \in upserts' : u.hostname \subseteq answered[u.ip] \cup {NoName}
    BY <2>1 DEF NamesSound, new
  <2>10. NamesSound'
    BY <2>1, <2>8, <2>9, NamesKept
  <2> QED BY <2>6, <2>7, <2>10
<1>2. CASE QueueLookup(g)
  <2>1. /\ lookupQueue' = IF Len(lookupQueue) < LookupQueueSize
                         THEN Append(lookupQueue, h) ELSE lookupQueue
        /\ UNCHANGED <<dnsCache, lookupClosed, profilerCancelled, resolver,
                       upserts, devices, storeClosed, agingLeft, failuresLeft, answered, unsaved>>
    BY <1>2 DEF QueueLookup
  <2>2. lookupQueue' \in Seq(LocalHosts) /\ Len(lookupQueue') <= LookupQueueSize
    BY <2>1, <1>b, <1>c, AppendProperties
  <2>3. ProfilerTypeOK' /\ CacheSingle'
    BY <2>1, <2>2 DEF ProfilerTypeOK, CacheSingle
  <2>4. NamesSound'
    BY <2>1 DEF NamesSound, Named, Saving, Reaches, CachedName
  <2> QED BY <2>3, <2>4
<1> QED BY <1>1, <1>2

(* The names, in the steps of the registrations and the resolvers.         *)
LEMMA NamesStep ==
  ASSUME ProfilerInv, ProfilerActs
  PROVE  NamesSound'
<1> USE DEF ProfilerInv
<1>a. /\ dnsCache \in [LocalHosts -> SUBSET Entry] /\ upserts \subseteq Upsert
      /\ resolver \in [Resolvers -> Resolver]
      /\ devices \in [LocalHosts -> SUBSET HostNames]
      /\ answered \in [LocalHosts -> SUBSET Names]
      /\ unsaved \in [LocalHosts -> SUBSET Names]
  BY DEF ProfilerTypeOK
<1>1. ASSUME NEW h \in LocalHosts, EntryExpires(h) PROVE NamesSound'
  <2>1. \A k \in LocalHosts : CachedName(k)' \subseteq CachedName(k)
    <3>1. \A e \in Entry : [e EXCEPT !.fresh = FALSE].hostname = e.hostname
      BY DEF Entry
    <3>2. \A k \in LocalHosts : dnsCache[k] \subseteq Entry
      BY <1>a
    <3>3. /\ dnsCache'[h] = {[e EXCEPT !.fresh = FALSE] : e \in dnsCache[h]}
          /\ \A k \in LocalHosts \ {h} : dnsCache'[k] = dnsCache[k]
      BY <1>1, <1>a DEF EntryExpires
    <3>4. ASSUME NEW e \in dnsCache'[h] PROVE e.hostname \in CachedName(h)
      <4>1. PICK old \in dnsCache[h] : e = [old EXCEPT !.fresh = FALSE]
        BY <3>3, <3>4
      <4>2. old \in Entry
        BY <3>2, <4>1
      <4>3. e.hostname = old.hostname
        BY <3>1, <4>1, <4>2
      <4> QED BY <4>1, <4>3 DEF CachedName
    <3>5. CachedName(h)' \subseteq CachedName(h)
      BY <3>4 DEF CachedName
    <3>6. \A k \in LocalHosts \ {h} : CachedName(k)' = CachedName(k)
      BY <3>3 DEF CachedName
    <3> QED BY <3>5, <3>6
  <2> QED BY <1>1, <2>1, NamesKept DEF EntryExpires, NamesSound
<1>2. ASSUME NEW u \in upserts, ReadCachedName(u) PROVE NamesSound'
  <2>1. u.ip \in LocalHosts /\ u \in [ip : LocalHosts, for : FlowEvent, by : Goroutines,
                                      hostname : SUBSET HostNames]
    BY <1>a DEF Upsert
  <2> DEFINE v == [u EXCEPT !.hostname = CachedName(u.ip)]
  <2>2. v.ip = u.ip /\ v.hostname = CachedName(u.ip)
    BY <2>1
  <2> HIDE DEF v
  <2>3. upserts' = (upserts \ {u}) \cup {v}
    BY <1>2 DEF ReadCachedName, v
  <2>4. \A x \in upserts' : x.hostname \subseteq answered[x.ip] \cup {NoName}
    BY <2>1, <2>2, <2>3 DEF NamesSound
  <2> QED BY <1>2, <2>4, NamesKept DEF ReadCachedName, CachedName
<1>3. ASSUME NEW h \in LocalHosts, NEW name \in HostNames,
             name \in answered[h] \cup {NoName}, devices' = Upserted(h, name),
             UNCHANGED <<dnsCache, answered>>, upserts' \subseteq upserts,
             \A k \in LocalHosts : unsaved[k] \subseteq unsaved'[k] \cup {name} /\
                                   (k # h \/ name = NoName => unsaved'[k] = unsaved[k]),
             \A d \in Resolvers : resolver'[d] = resolver[d]
                \/ (/\ resolver'[d].at # "saving"
                    /\ resolver[d].at = "saving" => resolver[d].ip = h /\ name # NoName)
      PROVE  NamesSound'
  <2>1. /\ \A k \in LocalHosts : devices'[k] \subseteq answered[k] \cup {NoName}
        /\ \A k \in LocalHosts : Named(k) => Named(k)'
        /\ name # NoName => Named(h)'
    BY <1>3, UpsertedKeepsNames
  <2>2. \A k \in LocalHosts : CachedName(k)' = CachedName(k)
    BY <1>3 DEF CachedName
  <2>3. \A k \in LocalHosts : CachedName(k)' \cup devices'[k] \subseteq answered'[k] \cup {NoName}
    BY <1>3, <2>1, <2>2 DEF NamesSound
  <2>4. \A u \in upserts' : u.hostname \subseteq answered'[u.ip] \cup {NoName}
    BY <1>3 DEF NamesSound
  <2>5. \A d \in Resolvers : resolver'[d].at = "saving" =>
                               resolver'[d].hostname \in answered'[resolver'[d].ip]
    BY <1>3 DEF NamesSound
  <2>6. ASSUME NEW k \in LocalHosts, NEW n \in (answered[k] \ unsaved[k])'
        PROVE  Reaches(k, n)'
    <3>1. CASE k = h /\ name # NoName
      BY <2>1, <3>1 DEF Reaches
    <3>2. CASE k # h \/ name = NoName
      <4>1. n \in answered[k] \ unsaved[k]
        BY <1>3, <2>6, <3>2
      <4>2. Named(k) \/ \E d \in Resolvers : Saving(d, k, n)
        BY <4>1 DEF NamesSound, Reaches
      <4>3. ASSUME NEW d \in Resolvers, Saving(d, k, n) PROVE Saving(d, k, n)'
        BY <1>3, <3>2, <4>3 DEF Saving
      <4> QED BY <2>1, <4>2, <4>3 DEF Reaches
    <3> QED BY <3>1, <3>2
  <2> QED BY <2>3, <2>4, <2>5, <2>6 DEF NamesSound
<1>5. ASSUME NEW u \in upserts, UpsertDevice(u) PROVE NamesSound'
  <2>1. u.ip \in LocalHosts /\ u.hostname \subseteq HostNames
    BY <1>a DEF Upsert
  <2>2. u.hostname \subseteq answered[u.ip] \cup {NoName}
    BY DEF NamesSound
  <2>3. /\ upserts' \subseteq upserts
        /\ UNCHANGED <<dnsCache, answered, unsaved, resolver>>
    BY <1>5 DEF UpsertDevice
  <2>4. CASE UNCHANGED devices
    <3>1. \A x \in upserts' : x.hostname \subseteq answered[x.ip] \cup {NoName}
      BY <2>3 DEF NamesSound
    <3> QED BY <2>3, <2>4, <3>1, NamesKept DEF CachedName
  <2>5. CASE \E name \in u.hostname : devices' = Upserted(u.ip, name)
    <3>1. PICK name \in u.hostname : devices' = Upserted(u.ip, name)
      BY <2>5
    <3> QED BY <1>3, <2>1, <2>2, <2>3, <3>1
  <2> QED BY <1>5, <2>4, <2>5 DEF UpsertDevice
<1>6. ASSUME NEW d \in Resolvers, SaveName(d) PROVE NamesSound'
  <2> DEFINE h == resolver[d].ip
             name == resolver[d].hostname
  <2>1. resolver[d].at = "saving" /\ h \in LocalHosts /\ name \in Names
    BY <1>6, ResolverTyped DEF SaveName
  <2>2. name \in HostNames /\ name # NoName /\ name \in answered[h]
    BY <2>1, ProfilerAssumption DEF HostNames, NamesSound
  <2>3. /\ UNCHANGED <<dnsCache, answered, upserts>>
        /\ resolver'[d].at # "saving"
        /\ \A other \in Resolvers \ {d} : resolver'[other] = resolver[other]
    BY <1>6, <1>a DEF SaveName, Waiting
  <2>4. \/ /\ devices' = Upserted(h, name)
           /\ unsaved' = [unsaved EXCEPT ![h] = @ \ {name}]
        \/ /\ UNCHANGED devices
           /\ unsaved' = [unsaved EXCEPT ![h] = @ \cup {name}]
    BY <1>6 DEF SaveName
  <2> HIDE DEF h, name
  <2>5. CASE devices' = Upserted(h, name) /\ unsaved' = [unsaved EXCEPT ![h] = @ \ {name}]
    <3>1. \A k \in LocalHosts : unsaved[k] \subseteq unsaved'[k] \cup {name} /\
                                (k # h \/ name = NoName => unsaved'[k] = unsaved[k])
      BY <2>1, <2>2, <2>5, <1>a
    <3>2. \A e \in Resolvers : resolver'[e] = resolver[e]
            \/ (/\ resolver'[e].at # "saving"
                /\ resolver[e].at = "saving" => resolver[e].ip = h /\ name # NoName)
      BY <2>2, <2>3 DEF h
    <3> QED BY <1>3, <2>1, <2>2, <2>3, <2>5, <3>1, <3>2
  <2>6. CASE UNCHANGED devices /\ unsaved' = [unsaved EXCEPT ![h] = @ \cup {name}]
    <3>1. \A k \in LocalHosts : CachedName(k)' = CachedName(k)
      BY <2>3 DEF CachedName
    <3>2. /\ \A k \in LocalHosts : unsaved[k] \subseteq unsaved'[k]
          /\ name \in unsaved'[h]
      BY <2>1, <2>6, <1>a
    <3>3. ASSUME NEW k \in LocalHosts, NEW n \in (answered[k] \ unsaved[k])'
          PROVE  Reaches(k, n)'
      <4>1. n \in answered[k] \ unsaved[k] /\ ~(k = h /\ n = name)
        BY <2>3, <3>2, <3>3
      <4>2. Named(k) \/ \E e \in Resolvers : Saving(e, k, n)
        BY <4>1 DEF NamesSound, Reaches
      <4>3. ASSUME NEW e \in Resolvers, Saving(e, k, n) PROVE Saving(e, k, n)'
        BY <2>3, <4>1, <4>3 DEF Saving, h, name
      <4> QED BY <2>6, <4>2, <4>3 DEF Reaches, Named
    <3> QED BY <2>3, <2>6, <3>1, <3>3 DEF NamesSound
  <2> QED BY <2>4, <2>5, <2>6
<1>7. ASSUME NEW d \in Resolvers, TakeLookup(d) \/ ResolverExit(d) PROVE NamesSound'
  <2>1. /\ UNCHANGED <<dnsCache, answered, unsaved, upserts, devices>>
        /\ resolver[d].at # "saving" /\ resolver'[d].at # "saving"
        /\ \A other \in Resolvers \ {d} : resolver'[other] = resolver[other]
    BY <1>7, <1>a DEF TakeLookup, ResolverExit, Waiting
  <2> QED BY <2>1, NamesKept DEF NamesSound, CachedName
<1>8. ASSUME NEW d \in Resolvers, NEW name \in HostNames, Answer(d, name)
      PROVE  NamesSound'
  <2>a. resolver[d].ip \in LocalHosts /\ resolver[d].at = "looking"
    BY <1>8, ResolverTyped DEF Answer
  <2>1. PICK h \in LocalHosts : h = resolver[d].ip
    BY <2>a
  <2>2. /\ dnsCache' = [dnsCache EXCEPT ![h] = {[hostname |-> name, fresh |-> TRUE]}]
        /\ answered' = [answered EXCEPT ![h] = @ \cup ({name} \ {NoName})]
        /\ resolver' = [resolver EXCEPT ![d] =
             IF name = NoName THEN Waiting
             ELSE [at |-> "saving", ip |-> h, hostname |-> name]]
        /\ UNCHANGED <<upserts, devices, unsaved>>
    BY <1>8, <2>1 DEF Answer
  <2>3. /\ answered'[h] = answered[h] \cup ({name} \ {NoName})
        /\ \A k \in LocalHosts \ {h} : answered'[k] = answered[k] /\ dnsCache'[k] = dnsCache[k]
        /\ \A k \in LocalHosts : answered[k] \subseteq answered'[k]
        /\ CachedName(h)' = {name}
    <3>1. /\ answered'[h] = answered[h] \cup ({name} \ {NoName})
          /\ \A k \in LocalHosts \ {h} : answered'[k] = answered[k] /\ dnsCache'[k] = dnsCache[k]
          /\ dnsCache'[h] = {[hostname |-> name, fresh |-> TRUE]}
      BY <2>1, <2>2, <1>a
    <3>2. [hostname |-> name, fresh |-> TRUE].hostname = name
      OBVIOUS
    <3>3. CachedName(h)' = {name}
      BY <3>1, <3>2 DEF CachedName
    <3> QED BY <3>1, <3>3, <1>a
  <2>4. /\ \A other \in Resolvers \ {d} : resolver'[other] = resolver[other]
        /\ resolver'[d] = IF name = NoName THEN Waiting
                          ELSE [at |-> "saving", ip |-> h, hostname |-> name]
    BY <2>2, <1>a
  <2>5. \A k \in LocalHosts : CachedName(k)' \cup devices'[k] \subseteq answered'[k] \cup {NoName}
    <3>1. \A k \in LocalHosts \ {h} : CachedName(k)' = CachedName(k)
      BY <2>3 DEF CachedName
    <3>2. \A k \in LocalHosts : CachedName(k) \cup devices[k] \subseteq answered[k] \cup {NoName}
      BY DEF NamesSound
    <3>3. {name} \subseteq answered'[h] \cup {NoName}
      BY <2>3
    <3>4. CachedName(h)' \cup devices'[h] \subseteq answered'[h] \cup {NoName}
      BY <2>2, <2>3, <3>2, <3>3
    <3>5. \A k \in LocalHosts \ {h} : answered'[k] = answered[k] /\ devices'[k] = devices[k]
      BY <2>2, <2>3
    <3> QED BY <3>1, <3>2, <3>4, <3>5
  <2>6. \A u \in upserts' : u.hostname \subseteq answered'[u.ip] \cup {NoName}
    <3>1. \A u \in upserts : u.ip \in LocalHosts
      BY <1>a DEF Upsert
    <3> QED BY <2>2, <2>3, <3>1 DEF NamesSound
  <2>7. \A e \in Resolvers : resolver'[e].at = "saving" =>
                               resolver'[e].hostname \in answered'[resolver'[e].ip]
    <3>1. resolver'[d].at = "saving" =>
            resolver'[d].hostname \in answered'[resolver'[d].ip]
      BY <2>a, <2>1, <2>3, <2>4 DEF Waiting
    <3>2. ASSUME NEW e \in Resolvers \ {d}, resolver[e].at = "saving"
          PROVE  resolver[e].hostname \in answered'[resolver[e].ip]
      <4>1. resolver[e].ip \in LocalHosts
        BY <3>2, ResolverTyped
      <4> QED BY <3>2, <4>1, <2>3 DEF NamesSound
    <3> QED BY <3>1, <3>2, <2>4
  <2>8. ASSUME NEW k \in LocalHosts, NEW n \in (answered[k] \ unsaved[k])'
        PROVE  Reaches(k, n)'
    <3>1. CASE k = h /\ n = name /\ name # NoName
      BY <3>1, <2>4 DEF Reaches, Saving
    <3>2. CASE ~(k = h /\ n = name /\ name # NoName)
      <4>1. n \in answered[k] \ unsaved[k]
        BY <3>2, <2>2, <2>3, <2>8
      <4>2. Named(k) \/ \E e \in Resolvers : Saving(e, k, n)
        BY <4>1 DEF NamesSound, Reaches
      <4>3. Named(k) => Named(k)'
        BY <2>2 DEF Named
      <4>4. ASSUME NEW e \in Resolvers, Saving(e, k, n) PROVE Saving(e, k, n)'
        BY <4>4, <2>a, <2>1, <2>4 DEF Saving
      <4> QED BY <4>2, <4>3, <4>4 DEF Reaches
    <3> QED BY <3>1, <3>2
  <2> QED BY <2>5, <2>6, <2>7, <2>8 DEF NamesSound
<1> QED BY <1>1, <1>2, <1>5, <1>6, <1>7, <1>8 DEF ProfilerActs

(* Closing the lookup channel, and the repository, keeps the names.        *)
LEMMA ClosingKeepsNames ==
  ASSUME ProfilerInv,
         \/ CloseLookups /\ UNCHANGED <<agingLeft, failuresLeft>>
         \/ /\ storeClosed' = TRUE
            /\ UNCHANGED <<dnsCache, lookupQueue, lookupClosed, profilerCancelled, resolver,
                           upserts, devices, agingLeft, failuresLeft, answered, unsaved>>
  PROVE  ProfilerInv'
<1> USE DEF ProfilerInv
<1>1. /\ UNCHANGED <<dnsCache, lookupQueue, resolver, upserts, devices, agingLeft,
                      failuresLeft, answered, unsaved>>
      /\ storeClosed' \in BOOLEAN /\ lookupClosed' \in BOOLEAN /\ profilerCancelled' \in BOOLEAN
  BY DEF CloseLookups, ProfilerTypeOK
<1>2. ProfilerTypeOK' /\ CacheSingle'
  BY <1>1 DEF ProfilerTypeOK, CacheSingle
<1>3. NamesSound'
  BY <1>1, NamesKept DEF NamesSound, CachedName
<1> QED BY <1>2, <1>3

-------------------------------------------------------------------------------
(* How far main is: the capture has returned before it stops the collector *)
(* and the collector before it stops the detector; the lookup channel is   *)
(* closed after both.                                                      *)
StopInv ==
  /\ stopping \in Stopping
  /\ stopping \in {"collector", "detector", "profiler", "aggregator", "stopped"} =>
       pcapStop = "returned"
  /\ stopping \in {"detector", "profiler", "aggregator", "stopped"} => CollectorGone
  /\ lookupClosed => stopping \in {"profiler", "aggregator", "stopped"}

(* The inductive invariant of the whole path.                              *)
IngestInv ==
  /\ ChainInv
  /\ ListenInv /\ WorkersSound /\ Books
  /\ PcapInv
  /\ ProfilerInv
  /\ StopInv

(* A collector that is gone stays gone.                                    *)
LEMMA GoneStaysGone ==
  ASSUME CollectorTypeOK, CollectorGone, CollectorActs
  PROVE  CollectorGone'
<1>1. /\ worker \in [Workers -> {"waiting", "forwarding", "done"}]
      /\ channelsClosed /\ syslogWorker = "done" /\ \A w \in Workers : worker[w] = "done"
  BY DEF CollectorTypeOK, CollectorGone
<1>2. \A w \in Workers : ~(TakePacket(w) \/ ForwardEvent(w) \/ PacketDone(w) \/ WorkerLeaves(w))
  BY <1>1 DEF TakePacket, ForwardEvent, PacketDone, WorkerLeaves
<1>3. ~TakeMessage /\ ~StoreMessage /\ ~SyslogWorkerLeaves /\ ~CloseChannels
  BY <1>1 DEF TakeMessage, StoreMessage, SyslogWorkerLeaves, CloseChannels
<1>4. CASE \/ \E d \in unread : ReceiveFlow(d) \/ ReceiveSyslog(d)
           \/ \E d \in pushing["flow"] : PushFlow(d)
           \/ \E d \in pushing["syslog"] : PushSyslog(d)
           \/ \E s \in Sockets : ListenerExit(s)
  <2>1. UNCHANGED <<worker, syslogWorker, channelsClosed>>
    BY <1>4 DEF ReceiveFlow, ReceiveSyslog, PushFlow, PushSyslog,
       ListenerExit, workerVars, syslogVars, stopVars
  <2> QED BY <1>1, <2>1 DEF CollectorGone
<1>5. CASE CancelCollector \/ CloseListeners
  BY <1>1, <1>5 DEF CancelCollector, CloseListeners, workerVars, syslogVars, CollectorGone
<1> QED BY <1>2, <1>3, <1>4, <1>5 DEF CollectorActs

(* Once capture and collector are gone, nobody is in the chain.            *)
LEMMA NobodyCalls ==
  ASSUME IngestInv, stopping \in {"detector", "profiler", "aggregator", "stopped"}
  PROVE  /\ \A g \in Goroutines : ~InChain(g)
         /\ rawPacketsChan = <<>> /\ \A w \in Workers : pending[w] = <<>>
         /\ ActiveKeys = {} /\ \A g \in Emitters : StillToEmit(g) = {}
<1>1. CollectorGone /\ pcapStop = "returned" /\ EmittersSound /\ WorkersSound
  BY DEF IngestInv, StopInv, PcapInv
<1>2. \A w \in Workers : ~InChain(w) /\ pending[w] = <<>> /\ rawPacketsChan = <<>>
  BY <1>1 DEF WorkersSound, CollectorGone
<1>3. /\ ~InChain(Evictor) /\ ~InChain(Main) /\ ActiveKeys = {}
      /\ StillToEmit(Evictor) = {} /\ StillToEmit(Main) = {}
  BY <1>1 DEF EmittersSound, LoopsGone
<1>4. Workers # {}
  BY WorkerAssumption
<1> QED BY <1>2, <1>3, <1>4 DEF Goroutines, Emitters

(* What a component that did not move keeps.                               *)
LEMMA ChainUntouched ==
  ASSUME ChainInv, UNCHANGED <<chainVars, ddosVars>>
  PROVE  ChainInv'
<1>1. /\ UNCHANGED <<call, delivered>>
      /\ UNCHANGED <<rates, counters, monitor, swaps, snapshot, alertDeduplicator,
                     ticksLeft, ddosCancelled, uncounted>>
  BY DEF chainVars, ddosVars
<1>2. CallTypeOK' /\ DDoSTypeOK'
  BY <1>1 DEF ChainInv, CallTypeOK, DDoSTypeOK
<1>3. CallsSound'
  BY <1>1 DEF ChainInv, CallsSound, CallSound, CountersFetched, InChain
<1>4. RatesOwned' /\ RatesConserved'
  BY <1>1 DEF ChainInv, RatesOwned, RatesConserved
<1> QED BY <1>2, <1>3, <1>4 DEF ChainInv
(* What is known of the collector stays true while others move.            *)
LEMMA CollectorUntouched ==
  ASSUME ListenInv, WorkersSound, Books, UNCHANGED collectorVars,
         \A w \in Workers : InChain(w)' => InChain(w)
  PROVE  ListenInv' /\ WorkersSound' /\ Books'
<1>1. UNCHANGED <<unread, listener, pushing, rawPacketsChan, syslogChan, channelsClosed,
                  worker, pending, syslogWorker, handled, collectorCancelled,
                  socketsClosed, stats>>
  BY DEF collectorVars
<1>2. CollectorTypeOK'
  BY <1>1 DEF ListenInv, CollectorTypeOK
<1>3. ListenersSound'
  BY <1>1 DEF ListenInv, ListenersSound, ListenersGone
<1>4. WorkersSound'
  BY <1>1 DEF WorkersSound
<1>5. Books'
  BY <1>1 DEF Books, FlowBooks, MessageBooks, Forwarding, FlowsReceived, FlowsUnderWay,
     FlowsDone, MessagesUnderWay, MessagesDone, Holds, Busy
<1> QED BY <1>2, <1>3, <1>4, <1>5 DEF ListenInv
(* What is known of the capture stays true while others move.              *)
LEMMA PcapUntouched ==
  ASSUME PcapInv, UNCHANGED pcapVars, UNCHANGED delivered,
         \A g \in Emitters : call'[g] = call[g]
  PROVE  PcapInv'
<1>1. UNCHANGED <<toCapture, active, capturing, evictor, batch, pcapStop, captured, overflow>>
  BY DEF pcapVars
<1>2. PcapTypeOK' /\ IsFiniteSet(ActiveKeys)'
  BY <1>1 DEF PcapInv, PcapTypeOK, ActiveKeys
<1>3. call'[Evictor] = call[Evictor] /\ call'[Main] = call[Main]
  BY DEF Emitters
<1>4. EmittersSound'
  BY <1>1, <1>3 DEF PcapInv, EmittersSound, StillToEmit, InChain, LoopsGone, ActiveKeys
<1>5. PacketsConserved'
  BY <1>1, <1>3 DEF PcapInv, PacketsConserved, TakenOut, PacketsInHand, InChain
<1> QED BY <1>2, <1>4, <1>5 DEF PcapInv
(* What is known of the profiler stays true while others move.             *)
LEMMA ProfilerUntouched ==
  ASSUME ProfilerInv, UNCHANGED profilerVars
  PROVE  ProfilerInv'
<1>1. UNCHANGED <<dnsCache, lookupQueue, lookupClosed, profilerCancelled, resolver,
                  upserts, devices, storeClosed, agingLeft, failuresLeft, answered, unsaved>>
  BY DEF profilerVars
<1>2. ProfilerTypeOK' /\ CacheSingle'
  BY <1>1 DEF ProfilerInv, ProfilerTypeOK, CacheSingle
<1>3. NamesSound'
  BY <1>1 DEF ProfilerInv, NamesSound, Named, Saving, Reaches, CachedName
<1> QED BY <1>2, <1>3 DEF ProfilerInv
(* What is known of the order of stopping stays true while others move.    *)
LEMMA StopUntouched ==
  ASSUME StopInv, UNCHANGED <<stopping, pcapStop, collectorVars, lookupClosed>>
  PROVE  StopInv'
BY DEF StopInv, CollectorGone, collectorVars

(* A step of a call.                                                       *)
LEMMA ChainKeeps ==
  ASSUME IngestInv, NEW g \in Goroutines, Chain(g)
  PROVE  IngestInv'
<1>a. /\ ChainInv /\ ListenInv /\ WorkersSound /\ Books /\ PcapInv /\ ProfilerInv /\ StopInv
      /\ CallTypeOK /\ PcapTypeOK /\ EmittersSound /\ PacketsConserved
  BY DEF IngestInv, ChainInv, PcapInv
<1>1. /\ UNCHANGED <<collectorVars, pcapVars, stopping>>
      /\ \/ UNCHANGED profilerVars
         \/ (Discover(g) \/ QueueLookup(g)) /\ UNCHANGED ddosVars
  BY DEF Chain
<1>2. /\ OnlyMoves(g) /\ InChain(g) /\ ChainInv'
      /\ \/ Deliver(g)
         \/ InChain(g)' /\ call'[g].event = call[g].event /\ UNCHANGED delivered
  <2>1. CASE Deliver(g) /\ UNCHANGED ddosVars
    <3>1. OnlyMoves(g) /\ InChain(g)
      BY <2>1, <1>a DEF Deliver, At, OnlyMoves, InChain, Idle, CallTypeOK
    <3> QED BY <1>a, <2>1, <3>1, DeliverStep
  <2>2. CASE FetchRates(g) \/ CreateRates(g) \/ AddToField(g)
    BY <1>a, <2>2, CarriesOn, FetchStep, CreateStep, AddStep
  <2>3. CASE (Discover(g) \/ QueueLookup(g)) /\ UNCHANGED ddosVars
    BY <1>a, <2>3, CarriesOn, DiscoverStep
  <2> QED BY <2>1, <2>2, <2>3 DEF Chain
<1>3. EmittersSound' /\ PacketsConserved'
  BY <1>a, <1>1, <1>2, HandStep
<1>4. PcapInv'
  BY <1>a, <1>1, <1>3 DEF PcapInv, PcapTypeOK, ActiveKeys, pcapVars
<1>5. \A w \in Workers : InChain(w)' => InChain(w)
  BY <1>2 DEF OnlyMoves, InChain, Goroutines
<1>6. ListenInv' /\ WorkersSound' /\ Books'
  BY <1>a, <1>1, <1>5, CollectorUntouched
<1>7. ProfilerInv' /\ (UNCHANGED lookupClosed)
  <2>1. CASE UNCHANGED profilerVars
    BY <1>a, <2>1, ProfilerUntouched DEF profilerVars
  <2>2. CASE Discover(g) \/ QueueLookup(g)
    BY <1>a, <2>2, DiscoverNames DEF Discover, QueueLookup
  <2> QED BY <1>1, <2>1, <2>2
<1>8. StopInv'
  BY <1>a, <1>1, <1>7, StopUntouched DEF pcapVars
<1> QED BY <1>2, <1>4, <1>6, <1>7, <1>8 DEF IngestInv

(* A step of the collector, or of main that stops it.                      *)
LEMMA CollectorKeeps ==
  ASSUME IngestInv,
         \/ Collector
         \/ StopFlowCollector
  PROVE  IngestInv'
<1>a. /\ ChainInv /\ ListenInv /\ WorkersSound /\ Books /\ PcapInv /\ ProfilerInv /\ StopInv
      /\ CallTypeOK /\ CollectorTypeOK
  BY DEF IngestInv, ChainInv, ListenInv
<1>1. /\ CollectorActs
      /\ UNCHANGED <<pcapVars, ddosVars, profilerVars, stopping>>
  BY DEF Collector, StopFlowCollector, CollectorActs
<1>2. (\A w \in Workers : ~ForwardEvent(w)) => UNCHANGED chainVars
  <2>1. CASE StopFlowCollector
    BY <2>1 DEF StopFlowCollector
  <2>2. CASE Collector
    BY <2>2 DEF Collector, ReceiveFlow, ReceiveSyslog, PushFlow, PushSyslog, ListenerExit,
       TakePacket, PacketDone, WorkerLeaves, TakeMessage, StoreMessage, SyslogWorkerLeaves
  <2> QED BY <2>1, <2>2
<1>3. ASSUME NEW w \in Workers, ForwardEvent(w)
      PROVE  ChainInv' /\ OnlyMoves(w) /\ UNCHANGED delivered
  <2>1. Head(pending[w]) \in FlowEvent
    BY <1>a, <1>3 DEF ForwardEvent, CollectorTypeOK
  <2>2. w \in Goroutines
    BY DEF Goroutines
  <2>3. Process(w, Head(pending[w]))
    BY <1>3 DEF ForwardEvent
  <2> QED BY <1>a, <1>1, <2>1, <2>2, <2>3, ProcessStep DEF Process
<1>4. /\ ChainInv' /\ (UNCHANGED delivered)
      /\ \A g \in Emitters : call'[g] = call[g]
  <2>1. CASE \E w \in Workers : ForwardEvent(w)
    <3>1. PICK w \in Workers : ForwardEvent(w)
      BY <2>1
    <3>2. \A g \in Emitters : g \in Goroutines \ {w}
      BY WorkerAssumption DEF Emitters, Goroutines
    <3> QED BY <1>3, <3>1, <3>2 DEF OnlyMoves
  <2>2. CASE UNCHANGED chainVars
    BY <1>a, <1>1, <2>2, ChainUntouched DEF chainVars
  <2> QED BY <1>2, <2>1, <2>2
<1>5. ListenInv' /\ Books'
  BY <1>a, <1>1, ListenStep, BooksStep
<1>6. WorkersSound'
  BY <1>a, <1>1, <1>2, <1>3, WorkersStep
<1>7. PcapInv' /\ ProfilerInv'
  BY <1>a, <1>1, <1>4, PcapUntouched, ProfilerUntouched
<1>8. StopInv'
  <2>1. UNCHANGED <<stopping, pcapStop, lookupClosed>>
    BY <1>1 DEF pcapVars, profilerVars
  <2>2. CollectorGone => CollectorGone'
    BY <1>a, <1>1, GoneStaysGone
  <2> QED BY <1>a, <2>1, <2>2 DEF StopInv
<1> QED BY <1>4, <1>5, <1>6, <1>7, <1>8 DEF IngestInv

(* A step of the capture, or of main that stops it: what main has stopped  *)
(* no longer depends on it.                                                *)
LEMMA PcapKeeps ==
  ASSUME IngestInv, Pcap \/ StopPcapCollector
  PROVE  IngestInv'
<1>a. /\ ChainInv /\ ListenInv /\ WorkersSound /\ Books /\ PcapInv /\ ProfilerInv /\ StopInv
      /\ CallTypeOK /\ PcapTypeOK /\ EmittersSound /\ PacketsConserved
      /\ IsFiniteSet(ActiveKeys)
  BY DEF IngestInv, ChainInv, PcapInv
<1>1. PcapActs /\ UNCHANGED <<collectorVars, ddosVars, profilerVars>>
  BY DEF Pcap, StopPcapCollector, PcapActs
<1>2. PcapTypeOK' /\ IsFiniteSet(ActiveKeys)'
  BY <1>a, <1>1, PcapTyped
<1>3. /\ ChainInv' /\ EmittersSound' /\ PacketsConserved'
      /\ \A w \in Workers : InChain(w)' => InChain(w)
  <2>1. CASE QuietPcapActs /\ UNCHANGED chainVars
    BY <1>a, <1>1, <2>1, EmittersStep, ConservedByPcap, ChainUntouched DEF chainVars, InChain
  <2>2. CASE \E g \in Emitters, k \in Keys : Emit(g, k)
    <3>1. PICK g \in Emitters, k \in Keys : Emit(g, k)
      BY <2>2
    <3>2. EventOf(k, batch[g][k]) \in FlowEvent /\ g \in Goroutines
      BY <1>a, EventTyped DEF Emitters, Goroutines
    <3>3. /\ ChainInv' /\ OnlyMoves(g) /\ InChain(g)'
          /\ call'[g].event = EventOf(k, batch[g][k])
      BY <1>a, <1>1, <3>1, <3>2, ProcessStep DEF Emit
    <3>4. EmittersSound' /\ PacketsConserved'
      BY <1>a, <3>1, <3>3, EmitStep
    <3>5. \A w \in Workers : w \in Goroutines \ {g}
      BY WorkerAssumption DEF Emitters, Goroutines
    <3> QED BY <3>3, <3>4, <3>5 DEF OnlyMoves, InChain
  <2>3. \/ QuietPcapActs /\ UNCHANGED chainVars
        \/ \E g \in Emitters, k \in Keys : Emit(g, k)
    BY DEF Pcap, StopPcapCollector, QuietPcapActs, Capture, Evict, CaptureExit, EmitReturns,
       EvictorExit
  <2> QED BY <2>1, <2>2, <2>3
<1>4. ListenInv' /\ WorkersSound' /\ Books' /\ ProfilerInv'
  BY <1>a, <1>1, <1>3, CollectorUntouched, ProfilerUntouched
<1>5. StopInv'
  <2>1. CASE Pcap
    <3>1. UNCHANGED <<stopping, pcapStop>>
      BY <2>1 DEF Pcap, Capture, Evict, Emit, CaptureExit, EmitReturns, EvictorExit
    <3> QED BY <1>a, <1>1, <3>1, StopUntouched DEF profilerVars
  <2>2. CASE StopPcapCollector
    <3>1. /\ stopping \in {"no", "capture"} /\ (UNCHANGED lookupClosed)
          /\ \/ stopping' = "capture"
             \/ stopping' = "collector" /\ pcapStop' = "returned"
      BY <1>1, <2>2 DEF StopPcapCollector, PcapReturns, profilerVars
    <3> QED BY <1>a, <3>1 DEF StopInv, Stopping
  <2> QED BY <2>1, <2>2
<1> QED BY <1>2, <1>3, <1>4, <1>5 DEF IngestInv, PcapInv

(* A step of the monitor, or of main that cancels it.                      *)
LEMMA MonitorKeeps ==
  ASSUME IngestInv, Monitor \/ StopDDoSDetector
  PROVE  IngestInv'
<1>a. /\ ChainInv /\ ListenInv /\ WorkersSound /\ Books /\ PcapInv /\ ProfilerInv /\ StopInv
  BY DEF IngestInv
<1>1. UNCHANGED <<chainVars, collectorVars, pcapVars, profilerVars>>
  BY DEF Monitor, StopDDoSDetector, BeginWindow, SwapField, UnlockRates, Report,
     StopMonitor, DedupExpires
<1>2. ChainInv'
  BY <1>a, SwapStep, MonitorStep DEF Monitor, StopDDoSDetector
<1>3. /\ ListenInv' /\ WorkersSound' /\ Books' /\ PcapInv' /\ ProfilerInv'
  BY <1>a, <1>1, CollectorUntouched, PcapUntouched, ProfilerUntouched DEF chainVars, InChain
<1>4. UNCHANGED <<pcapStop, collectorVars, lookupClosed>>
  BY <1>1 DEF pcapVars, profilerVars
<1>5. StopInv'
  <2>1. CASE StopDDoSDetector
    BY <1>a, <1>4, <2>1 DEF StopDDoSDetector, StopInv, CollectorGone, collectorVars, Stopping
  <2>2. CASE Monitor
    BY <1>a, <1>4, <2>2, StopUntouched DEF Monitor
  <2> QED BY <2>1, <2>2
<1> QED BY <1>2, <1>3, <1>5 DEF IngestInv

(* A step of the profiler, or of main from the profiler's Shutdown on.     *)
LEMMA ProfilerKeeps ==
  ASSUME IngestInv, Profiler \/ StopProfiler \/ StopAggregator \/ CloseStore
  PROVE  IngestInv'
<1>a. /\ ChainInv /\ ListenInv /\ WorkersSound /\ Books /\ PcapInv /\ ProfilerInv /\ StopInv
  BY DEF IngestInv
<1>1. UNCHANGED <<chainVars, collectorVars, pcapVars, ddosVars>>
  BY DEF Profiler, StopProfiler, StopAggregator, CloseStore, EntryExpires, ReadCachedName,
     UpsertDevice, TakeLookup, SaveName, ResolverExit, Answer
<1>2. ChainInv' /\ ListenInv' /\ WorkersSound' /\ Books' /\ PcapInv'
  BY <1>a, <1>1, ChainUntouched, CollectorUntouched, PcapUntouched DEF chainVars, InChain
<1>3. ProfilerInv'
  <2>1. CASE Profiler
    <3>1. ProfilerActs
      BY <2>1 DEF Profiler, ProfilerActs
    <3> QED BY <1>a, <3>1, ProfilerTyped, NamesStep DEF ProfilerInv
  <2>2. CASE StopProfiler \/ CloseStore
    BY <1>a, <2>2, ClosingKeepsNames DEF StopProfiler, CloseStore
  <2>3. CASE StopAggregator
    BY <1>a, <2>3, ProfilerUntouched DEF StopAggregator
  <2> QED BY <2>1, <2>2, <2>3
<1>4. StopInv'
  <2>1. CASE Profiler
    <3>1. UNCHANGED <<stopping, lookupClosed>>
      BY <2>1 DEF Profiler, EntryExpires, ReadCachedName,
         UpsertDevice, TakeLookup, SaveName, ResolverExit, Answer
    <3> QED BY <1>a, <1>1, <3>1, StopUntouched DEF pcapVars
  <2>2. CASE StopProfiler \/ StopAggregator \/ CloseStore
    <3>1. /\ stopping' \in {"profiler", "aggregator", "stopped"}
          /\ stopping \in {"detector", "profiler", "aggregator"}
      BY <2>2 DEF StopProfiler, StopAggregator, CloseStore
    <3>2. pcapStop' = pcapStop /\ UNCHANGED collectorVars
      BY <1>1 DEF pcapVars
    <3> QED BY <1>a, <3>1, <3>2 DEF StopInv, CollectorGone, collectorVars, Stopping
  <2> QED BY <2>1, <2>2
<1> QED BY <1>2, <1>3, <1>4 DEF IngestInv

-------------------------------------------------------------------------------
(* The process starts in the invariant: nobody calls, nothing is queued.   *)
LEMMA IngestStarts == IngestInit => IngestInv
<1> SUFFICES ASSUME IngestInit PROVE IngestInv
  OBVIOUS
<1> USE DEF IngestInit
<1>a. PICK load \in Workloads :
        /\ unread = load.datagrams /\ toCapture = load.packets
        /\ ticksLeft = load.ticks /\ agingLeft = load.aging
        /\ failuresLeft = load.failures
  OBVIOUS
<1>b. /\ unread \subseteq FlowDatagrams \cup SyslogDatagrams
      /\ toCapture \in [Keys -> Nat] /\ ticksLeft \in Nat /\ agingLeft \in Nat
      /\ failuresLeft \in Nat
  BY <1>a, WorkloadAssumption
<1>1. ChainInv
  <2>1. \A g \in Goroutines : call[g] = Idle
    BY DEF ChainInit
  <2>2. CallTypeOK
    BY DEF ChainInit, CallTypeOK
  <2>3. DDoSTypeOK
    <3>1. NoCounts \in Counts /\ NoCounts \in [Fields -> Int]
      BY DEF NoCounts, Counts
    <3>2. NoSwaps \in [LocalHosts -> Seq(Fields)]
      BY DEF NoSwaps
    <3>3. counters = <<>> /\ counters \in Seq(Counts) /\ Len(counters) = 0
      BY DEF DDoSInit
    <3>4. rates \in [LocalHosts -> 0..Len(counters)]
      BY <3>3 DEF DDoSInit
    <3>5. /\ monitor = "waiting" /\ swaps = NoSwaps /\ alertDeduplicator = {}
          /\ ddosCancelled = FALSE
          /\ snapshot \in [LocalHosts -> Counts] /\ uncounted \in [LocalHosts -> [Fields -> Int]]
      BY <3>1 DEF DDoSInit
    <3> QED BY <1>b, <3>2, <3>3, <3>4, <3>5 DEF DDoSTypeOK
  <2>4. CallsSound
    BY <2>1 DEF CallsSound, InChain
  <2>5. RatesOwned /\ RatesConserved
    BY DEF DDoSInit, RatesOwned, RatesConserved, NoSwaps
  <2> QED BY <2>2, <2>3, <2>4, <2>5 DEF ChainInv
<1>2. ListenInv
  <2>1. CollectorTypeOK
    <3>1. NoStats \in Counters
          /\ [packets |-> 0, messages |-> 0, refused |-> 0, oversized |-> 0] \in Handled
      BY DEF Handled, Counters, NoStats
    <3>2. /\ listener \in [Sockets -> {"reading", "pushing", "done"}]
          /\ pushing \in [Sockets -> SUBSET (FlowDatagrams \cup SyslogDatagrams)]
          /\ worker \in [Workers -> {"waiting", "forwarding", "done"}]
          /\ pending \in [Workers -> Seq(FlowEvent)]
      BY DEF CollectorInit
    <3>3. /\ rawPacketsChan = <<>> /\ syslogChan = <<>> /\ channelsClosed = FALSE
          /\ syslogWorker = "waiting" /\ collectorCancelled = FALSE /\ socketsClosed = FALSE
          /\ handled \in Handled /\ stats \in Counters
      BY <3>1 DEF CollectorInit
    <3>4. /\ <<>> \in Seq(FlowDatagrams) /\ Len(<<>>) <= RawQueueSize
          /\ <<>> \in Seq(SyslogDatagrams) /\ Len(<<>>) <= SyslogQueueSize
      BY CollectorAssumption
    <3> QED BY <1>b, <3>2, <3>3, <3>4 DEF CollectorTypeOK
  <2>2. ListenersSound
    BY DEF CollectorInit, ListenersSound, Sockets
  <2> QED BY <2>1, <2>2 DEF ListenInv
<1>3. WorkersSound
  BY DEF CollectorInit, ChainInit, WorkersSound, InChain, Goroutines
<1>4. Books
  <2>1. Forwarding = {}
    BY DEF CollectorInit, Forwarding
  <2>2. IsFiniteSet(Forwarding) /\ Cardinality(Forwarding) = 0
    BY <2>1, FS_EmptySet
  <2>a. /\ stats.received = 0 /\ stats.receivedUniFi = 0 /\ stats.dropped = 0
        /\ stats.droppedUniFi = 0 /\ stats.decodeErrors = 0 /\ stats.decodeErrorsUniFi = 0
        /\ handled.packets = 0 /\ handled.messages = 0 /\ handled.refused = 0
        /\ handled.oversized = 0
    BY DEF CollectorInit, NoStats
  <2>b. /\ Holds("flow") = 0 /\ Holds("syslog") = 0 /\ Len(rawPacketsChan) = 0
        /\ Len(syslogChan) = 0 /\ Busy(syslogWorker = "saving") = 0
    BY DEF CollectorInit, Holds, Sockets, Busy
  <2>3. FlowBooks
    BY <2>2, <2>a, <2>b DEF FlowBooks, FlowsReceived, FlowsUnderWay, FlowsDone
  <2>4. MessageBooks
    BY <2>a, <2>b DEF MessageBooks, MessagesUnderWay, MessagesDone
  <2> QED BY <2>2, <2>3, <2>4 DEF Books
<1>5. PcapInv
  <2>1. \A k \in Keys : active[k] = 0 /\ captured[k] = 0 /\ overflow[k] = 0
    BY DEF PcapInit, NoFlows
  <2>2. ActiveKeys = {}
    BY <2>1 DEF ActiveKeys
  <2>3. IsFiniteSet(ActiveKeys) /\ Cardinality(ActiveKeys) = 0
    BY <2>2, FS_EmptySet
  <2>4. PcapTypeOK
    BY <1>b, <2>3, PcapAssumption DEF PcapInit, PcapTypeOK, NoFlows
  <2>5. \A g \in Emitters : ~InChain(g) /\ g \in Goroutines
    BY DEF ChainInit, InChain, Emitters, Goroutines
  <2>6. \A g \in Emitters, k \in Keys : batch[g][k] = 0
    BY DEF PcapInit, NoFlows
  <2>7. EmittersSound
    BY <2>5, <2>6 DEF EmittersSound, StillToEmit, PcapInit, Emitters
  <2>8. \A g \in Emitters, k \in Keys : delivered[g][k] = 0
    BY <2>5, PcapAssumption DEF ChainInit
  <2>9. \A g \in Emitters, k \in Keys : TakenOut(g, k) = 0
    BY <2>5, <2>6, <2>8 DEF TakenOut, PacketsInHand
  <2>10. PacketsConserved
    BY <2>1, <2>9 DEF PacketsConserved, Emitters
  <2> QED BY <2>3, <2>4, <2>7, <2>10 DEF PcapInv
<1>6. ProfilerInv
  <2>1. CacheSingle
    BY DEF ProfilerInit, CacheSingle
  <2>2. ProfilerTypeOK
    <3>1. \A h \in LocalHosts : Cardinality(dnsCache[h]) <= 1
      BY <2>1, SingleCounts DEF CacheSingle
    <3>2. /\ dnsCache \in [LocalHosts -> SUBSET Entry]
          /\ devices \in [LocalHosts -> SUBSET HostNames]
          /\ answered \in [LocalHosts -> SUBSET Names]
          /\ unsaved \in [LocalHosts -> SUBSET Names]
          /\ upserts \subseteq Upsert /\ lookupClosed = FALSE
          /\ profilerCancelled = FALSE /\ storeClosed = FALSE
      BY DEF ProfilerInit
    <3>3. resolver \in [Resolvers -> Resolver]
      BY ResolverStates DEF ProfilerInit
    <3>4. lookupQueue \in Seq(LocalHosts) /\ Len(lookupQueue) <= LookupQueueSize
      BY ProfilerAssumption DEF ProfilerInit
    <3> QED BY <1>b, <3>1, <3>2, <3>3, <3>4 DEF ProfilerTypeOK
  <2>3. NamesSound
    BY DEF ProfilerInit, NamesSound, CachedName, Waiting
  <2> QED BY <2>1, <2>2, <2>3 DEF ProfilerInv
<1>7. StopInv
  BY DEF StopInv, Stopping, ProfilerInit
<1> QED BY <1>1, <1>2, <1>3, <1>4, <1>5, <1>6, <1>7 DEF IngestInv

(* Every step of the path keeps the invariant.                             *)
LEMMA IngestSteps == IngestInv /\ [IngestNext]_ingestVars => IngestInv'
<1> SUFFICES ASSUME IngestInv, [IngestNext]_ingestVars PROVE IngestInv'
  OBVIOUS
<1>1. CASE UNCHANGED ingestVars
  <2>1. UNCHANGED <<chainVars, collectorVars, pcapVars, ddosVars, profilerVars, stopping>>
    BY <1>1 DEF ingestVars
  <2> QED BY <2>1, ChainUntouched, CollectorUntouched, PcapUntouched, ProfilerUntouched,
             StopUntouched
      DEF IngestInv, chainVars, InChain, pcapVars, profilerVars
<1>2. CASE \E g \in Goroutines : Chain(g)
  BY <1>2, ChainKeeps
<1>3. CASE Collector \/ StopFlowCollector
  BY <1>3, CollectorKeeps
<1>4. CASE Pcap \/ StopPcapCollector
  BY <1>4, PcapKeeps
<1>5. CASE Monitor \/ StopDDoSDetector
  BY <1>5, MonitorKeeps
<1>6. CASE Profiler \/ StopProfiler \/ StopAggregator \/ CloseStore
  BY <1>6, ProfilerKeeps
<1>7. CASE Ended
  BY <1>1, <1>7 DEF Ended
<1> QED BY <1>1, <1>2, <1>3, <1>4, <1>5, <1>6, <1>7 DEF IngestNext, Stop

(* The invariant of the path, for every workload.                          *)
THEOREM IngestInvariant == IngestSpec => []IngestInv
BY IngestStarts, IngestSteps, PTL DEF IngestSpec

(* Types: no queue is over its capacity, the capture's table never holds   *)
(* more than MaxActive flows, and no counter of datagrams runs below zero. *)
THEOREM IngestTypes == IngestSpec => []IngestTypeOK
<1>1. IngestInv => IngestTypeOK
  BY DEF IngestInv, ChainInv, ListenInv, PcapInv, ProfilerInv, StopInv, IngestTypeOK
<1> QED BY <1>1, IngestInvariant, PTL

(* No goroutine sends on a closed channel: the listeners have returned     *)
(* when the collector closes its channels (Shutdown of FlowCollector), and *)
(* collector and capture have when the profiler closes the lookup channel  *)
(* (main.go).                                                              *)
THEOREM NoSends == IngestSpec => []NoSendOnClosedChannel
<1>1. ASSUME IngestInv PROVE NoSendOnClosedChannel
  <2>1. ASSUME channelsClosed, NEW s \in Sockets PROVE pushing[s] = {}
    BY <1>1, <2>1 DEF IngestInv, ListenInv, ListenersSound, ListenersGone
  <2>2. ASSUME lookupClosed, NEW g \in Goroutines PROVE ~At(g, "send")
    <3>1. ~InChain(g)
      BY <1>1, <2>2, NobodyCalls DEF IngestInv, StopInv
    <3> QED BY <3>1 DEF InChain, At, Idle
  <2> QED BY <2>1, <2>2 DEF NoSendOnClosedChannel
<1> QED BY <1>1, IngestInvariant, PTL

(* Every datagram a listener read is accounted for (listenLoop,            *)
(* workerLoop, unifiSyslogWorkerLoop), for every number of workers and     *)
(* every size of the channels.                                             *)
THEOREM Datagrams == IngestSpec => []DatagramsAccounted
<1>1. IngestInv => DatagramsAccounted
  BY BooksAreAccounts DEF IngestInv, Books
<1> QED BY <1>1, IngestInvariant, PTL

(* A passive packet is counted exactly once (consumePacket, evictExpired,  *)
(* flushAll, emit), for every set of flows and size of the table.          *)
THEOREM Packets == IngestSpec => []PacketsConserved
<1>1. IngestInv => PacketsConserved
  BY DEF IngestInv, PcapInv
<1> QED BY <1>1, IngestInvariant, PTL

(* What was added to the counters of a host and not yet evaluated is in    *)
(* the counters the next window reads (accumulateRates, evaluateRates),    *)
(* however many workers race to create them.                               *)
THEOREM Rates == IngestSpec => []RatesConserved
<1>1. IngestInv => RatesConserved
  BY DEF IngestInv, ChainInv
<1> QED BY <1>1, IngestInvariant, PTL

(* The aggregator is stopped after the last event: main stops capture and  *)
(* collector first, and both drain what they hold (main.go).               *)
THEOREM StopsLast == IngestSpec => []AggregatorStopsLast
<1>1. IngestInv => AggregatorStopsLast
  BY NobodyCalls DEF AggregatorStopsLast
<1> QED BY <1>1, IngestInvariant, PTL

(* A name a lookup answered reaches the devices table and stays there,     *)
(* unless its own write fails, however registrations and resolvers         *)
(* interleave and whichever other writes fail (discoverDevice,             *)
(* dnsLookupWorker, UpsertDevice).                                         *)
THEOREM NamesStored == IngestSpec => []ResolvedNameIsStored
<1>1. ASSUME IngestInv PROVE ResolvedNameIsStored
  <2>1. SUFFICES ASSUME NEW h \in LocalHosts, Settled(h),
                        NEW name \in answered[h] \ unsaved[h]
                 PROVE  devices[h] # {} /\ devices[h] \subseteq answered[h]
    BY DEF ResolvedNameIsStored
  <2>2. NamesSound
    BY <1>1 DEF IngestInv, ProfilerInv
  <2>3. \A d \in Resolvers : ~Saving(d, h, name)
    BY <2>1 DEF Settled, Saving
  <2>4. Named(h)
    BY <2>2, <2>3 DEF NamesSound, Reaches
  <2>5. devices[h] \subseteq answered[h] \cup {NoName}
    BY <2>2 DEF NamesSound
  <2> QED BY <2>4, <2>5 DEF Named
<1> QED BY <1>1, IngestInvariant, PTL
================================================================================

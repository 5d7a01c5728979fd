----------------------------- MODULE DeviceProfiler -----------------------------
(***************************************************************************)
(* The device profiler (internal/device/profiler.go) and the devices table *)
(* it writes (UpsertDevice, internal/storage/sqlite/devices.go).  For each *)
(* local end point of a flow, Process starts a goroutine that registers    *)
(* the device and, at most once a day, queues a reverse DNS lookup for the *)
(* resolver goroutines.  Nobody waits for the registering goroutines.      *)
(***************************************************************************)
EXTENDS FlowProcessor

CONSTANTS
  Resolvers,        (* the dnsLookupWorker goroutines                       *)
  Names,            (* the host names a lookup may answer                   *)
  LookupQueueSize   (* cap(lookupChan)                                      *)

NoName == ""
ASSUME ProfilerAssumption ==
  /\ NoName \notin Names
  /\ LookupQueueSize \in Nat \ {0}

VARIABLES
  dnsCache,         (* host name and freshness of the cached hosts          *)
  lookupQueue,      (* lookupChan                                           *)
  lookupClosed,     (* it is closed                                         *)
  profilerCancelled,(* p.ctx is done                                        *)
  resolver,         (* what each resolver does                              *)
  upserts,          (* the registering goroutines still running             *)
  devices,          (* host name of each row of the devices table           *)
  storeClosed,      (* repo.Close has returned                              *)
  agingLeft,        (* bound: how many cache entries will still grow old    *)
  failuresLeft,     (* bound: how many writes will still fail before Close  *)
  answered,         (* history: the names lookups answered for each host    *)
  unsaved           (* history: those whose last write failed               *)

profilerVars == <<dnsCache, lookupQueue, lookupClosed, profilerCancelled, resolver,
                  upserts, devices, storeClosed, agingLeft, failuresLeft, answered,
                  unsaved>>

HostNames == Names \cup {NoName}
Entry == [hostname : HostNames, fresh : BOOLEAN]
(* A goroutine of discoverDevice, before and after getCachedHostname.      *)
Upsert == [ip : LocalHosts, for : FlowEvent, by : Goroutines, hostname : SUBSET HostNames]
Resolver == [at : {"waiting", "done"}]
            \cup [at : {"looking"}, ip : LocalHosts]
            \cup [at : {"saving"}, ip : LocalHosts, hostname : Names]

Waiting == [at |-> "waiting"]

ProfilerTypeOK ==
  /\ dnsCache \in [LocalHosts -> SUBSET Entry]
  /\ \A h \in LocalHosts : Cardinality(dnsCache[h]) <= 1
  /\ lookupQueue \in Seq(LocalHosts)
  /\ Len(lookupQueue) <= LookupQueueSize
  /\ lookupClosed \in BOOLEAN
  /\ profilerCancelled \in BOOLEAN
  /\ resolver \in [Resolvers -> Resolver]
  /\ upserts \subseteq Upsert
  /\ devices \in [LocalHosts -> SUBSET HostNames]
  /\ storeClosed \in BOOLEAN
  /\ agingLeft \in Nat
  /\ failuresLeft \in Nat
  /\ answered \in [LocalHosts -> SUBSET Names]
  /\ unsaved \in [LocalHosts -> SUBSET Names]

ProfilerInit ==
  /\ dnsCache = [h \in LocalHosts |-> {}]
  /\ lookupQueue = <<>>
  /\ lookupClosed = FALSE
  /\ profilerCancelled = FALSE
  /\ resolver = [d \in Resolvers |-> Waiting]
  /\ upserts = {}
  /\ devices = [h \in LocalHosts |-> {}]
  /\ storeClosed = FALSE
  /\ answered = [h \in LocalHosts |-> {}]
  /\ unsaved = [h \in LocalHosts |-> {}]

CachedName(h) == {e.hostname : e \in dnsCache[h]}
NeedsLookup(h) == \A e \in dnsCache[h] : ~e.fresh

-------------------------------------------------------------------------------
(* discoverDevice: the registering goroutine starts; a host that was never *)
(* looked up, or not for a day, is marked as checked before its lookup is  *)
(* queued.                                                                 *)
NextHost(g) == [call EXCEPT ![g].hosts = Tail(@), ![g].at = ProfilerStep(Tail(call[g].hosts))]

Discover(g) ==
  /\ At(g, "discover")
  /\ LET h == Head(call[g].hosts)
     IN /\ upserts' = upserts \cup
             {[ip |-> h, for |-> call[g].event, by |-> g, hostname |-> {}]}
        /\ IF NeedsLookup(h)
           THEN /\ dnsCache' = [dnsCache EXCEPT ![h] =
                     {[hostname |-> IF CachedName(h) = {} THEN NoName
                                    ELSE CHOOSE n \in CachedName(h) : TRUE,
                       fresh |-> TRUE]}]
                /\ call' = [call EXCEPT ![g].at = "send"]
           ELSE /\ call' = NextHost(g)
                /\ UNCHANGED dnsCache
  /\ UNCHANGED <<delivered, lookupQueue, lookupClosed, profilerCancelled, resolver,
                 devices, storeClosed, agingLeft, failuresLeft, answered, unsaved>>

(* The send panics on a closed channel (see NoSendOnClosedChannel) and is  *)
(* skipped when the channel is full.                                       *)
QueueLookup(g) ==
  /\ At(g, "send")
  /\ ~lookupClosed
  /\ lookupQueue' = IF Len(lookupQueue) < LookupQueueSize
                    THEN Append(lookupQueue, Head(call[g].hosts)) ELSE lookupQueue
  /\ call' = NextHost(g)
  /\ UNCHANGED <<delivered, dnsCache, lookupClosed, profilerCancelled, resolver,
                 upserts, devices, storeClosed, agingLeft, failuresLeft, answered, unsaved>>

(* A day passes for a cache entry.                                         *)
EntryExpires(h) ==
  /\ agingLeft > 0
  /\ agingLeft' = agingLeft - 1
  /\ \E e \in dnsCache[h] : e.fresh
  /\ dnsCache' = [dnsCache EXCEPT ![h] = {[e EXCEPT !.fresh = FALSE] : e \in @}]
  /\ UNCHANGED <<chainVars, lookupQueue, lookupClosed, profilerCancelled, resolver,
                 upserts, devices, storeClosed, failuresLeft, answered, unsaved>>

-------------------------------------------------------------------------------
(* UpsertDevice keeps the stored name when it is given none.               *)
UpsertedAlways(h, name) == [devices EXCEPT ![h] = {name}]
Upserted(h, name) ==
  IF name = NoName /\ devices[h] # {} THEN devices ELSE [devices EXCEPT ![h] = {name}]

(* The registering goroutine reads the cached name, then writes the row.   *)
(* The write fails after repo.Close, and may fail before, its two seconds  *)
(* being over for one; the error is only logged.                           *)
ReadCachedName(u) ==
  /\ u \in upserts
  /\ u.hostname = {}
  /\ upserts' = (upserts \ {u}) \cup {[u EXCEPT !.hostname = CachedName(u.ip)]}
  /\ UNCHANGED <<chainVars, dnsCache, lookupQueue, lookupClosed, profilerCancelled,
                 resolver, devices, storeClosed, agingLeft, failuresLeft, answered, unsaved>>

WriteFails ==
  \/ storeClosed /\ UNCHANGED failuresLeft
  \/ failuresLeft > 0 /\ failuresLeft' = failuresLeft - 1

UpsertDevice(u) ==
  /\ u \in upserts
  /\ u.hostname # {}
  /\ \/ /\ ~storeClosed
        /\ \E name \in u.hostname : devices' = Upserted(u.ip, name)
        /\ UNCHANGED failuresLeft
     \/ WriteFails /\ UNCHANGED devices
  /\ upserts' = upserts \ {u}
  /\ UNCHANGED <<chainVars, dnsCache, lookupQueue, lookupClosed, profilerCancelled,
                 resolver, storeClosed, agingLeft, answered, unsaved>>

-------------------------------------------------------------------------------
(* dnsLookupWorker.  Once the context is done a resolver returns at the    *)
(* next request it receives, which is then forgotten.                      *)
TakeLookup(d) ==
  /\ resolver[d] = Waiting
  /\ lookupQueue # <<>>
  /\ lookupQueue' = Tail(lookupQueue)
  /\ resolver' = [resolver EXCEPT ![d] =
       IF profilerCancelled THEN [at |-> "done"]
       ELSE [at |-> "looking", ip |-> Head(lookupQueue)]]
  /\ UNCHANGED <<chainVars, dnsCache, lookupClosed, profilerCancelled,
                 upserts, devices, storeClosed, agingLeft, failuresLeft, answered, unsaved>>

(* A failed lookup, which answers no name, also goes to the cache.         *)
Answer(d, name) ==
  /\ resolver[d].at = "looking"
  /\ LET h == resolver[d].ip
     IN /\ dnsCache' = [dnsCache EXCEPT ![h] = {[hostname |-> name, fresh |-> TRUE]}]
        /\ answered' = [answered EXCEPT ![h] = @ \cup ({name} \ {NoName})]
        /\ resolver' = [resolver EXCEPT ![d] =
             IF name = NoName THEN Waiting
             ELSE [at |-> "saving", ip |-> h, hostname |-> name]]
  /\ UNCHANGED <<chainVars, lookupQueue, lookupClosed, profilerCancelled,
                 upserts, devices, storeClosed, agingLeft, failuresLeft, unsaved>>

(* The name is written with UpsertDevice, which may fail here too; then    *)
(* only the cache has it, from where a later registration may write it.    *)
SaveName(d) ==
  /\ resolver[d].at = "saving"
  /\ LET h == resolver[d].ip  name == resolver[d].hostname
     IN \/ /\ ~storeClosed
           /\ devices' = Upserted(h, name)
           /\ unsaved' = [unsaved EXCEPT ![h] = @ \ {name}]
           /\ UNCHANGED failuresLeft
        \/ /\ WriteFails
           /\ unsaved' = [unsaved EXCEPT ![h] = @ \cup {name}]
           /\ UNCHANGED devices
  /\ resolver' = [resolver EXCEPT ![d] = Waiting]
  /\ UNCHANGED <<chainVars, dnsCache, lookupQueue, lookupClosed, profilerCancelled,
                 upserts, storeClosed, agingLeft, answered>>

ResolverExit(d) ==
  /\ resolver[d] = Waiting
  /\ lookupClosed
  /\ lookupQueue = <<>>
  /\ resolver' = [resolver EXCEPT ![d] = [at |-> "done"]]
  /\ UNCHANGED <<chainVars, dnsCache, lookupQueue, lookupClosed, profilerCancelled,
                 upserts, devices, storeClosed, agingLeft, failuresLeft, answered, unsaved>>

(* Shutdown: the context is cancelled and the channel closed, then the     *)
(* resolvers are awaited.                                                  *)
CloseLookups ==
  /\ profilerCancelled' = TRUE
  /\ lookupClosed' = TRUE
  /\ UNCHANGED <<dnsCache, lookupQueue, resolver, upserts, devices, storeClosed,
                 agingLeft, failuresLeft, answered, unsaved>>
ResolversGone == \A d \in Resolvers : resolver[d].at = "done"

-------------------------------------------------------------------------------
(* A name once resolved reaches the devices table and stays there: when no *)
(* registration or resolver of a host is under way and a lookup answered a *)
(* name whose write did not fail, the row has a name a lookup answered.  A *)
(* registration that read the cache before the answer may not wipe it out, *)
(* whichever writes fail (discoverDevice, dnsLookupWorker, UpsertDevice).  *)
Settled(h) ==
  /\ \A u \in upserts : u.ip # h
  /\ \A d \in Resolvers : resolver[d].at \in {"looking", "saving"} => resolver[d].ip # h
ResolvedNameIsStored ==
  \A h \in LocalHosts : (Settled(h) /\ answered[h] \ unsaved[h] # {})
                        => devices[h] # {} /\ devices[h] \subseteq answered[h]
===============================================================================

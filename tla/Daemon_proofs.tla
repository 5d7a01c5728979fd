------------------------------ MODULE Daemon_proofs ------------------------------
(***************************************************************************)
(* Proofs about the process, module Daemon, for every set of requests,     *)
(* every environment and any number of starts: about its settings, the     *)
(* tailer of Suricata's log within it, and the flow history, which with    *)
(* either backend implements FlowStore.  Three inductive invariants are    *)
(* carried together: DaemonInv is about the settings, TailInv about the    *)
(* tailer, and HistoryInv comes from the module of the store's proofs.     *)
(***************************************************************************)
EXTENDS Daemon, DuckStore_proofs

-------------------------------------------------------------------------------
(* Numbers between bounds.                                                 *)
LEMMA Bounded ==
  /\ \A m \in Nat : \A n \in 1..m : n \in Nat /\ n # 0
  /\ \A n \in Int : n > 0 \/ n >= 1 => n \in Nat
OBVIOUS

(* What a Config is: its fields are those of the defaults.                 *)
LEMMA FieldsAre ==
  /\ Fields = {"netflow", "sflow", "dir", "environment", "subnets", "pps", "url", "slack",
               "format", "telegram", "token", "types", "spike", "retention", "hash",
               "firstRun"}
  /\ \A c \in Config : DOMAIN c = Fields
BY SettingsAssumption DEF Fields, Config

(* Settings that Validate accepts it accepts again when they are loaded:   *)
(* the migration of the slack webhook and the defaults of empty fields     *)
(* change nothing it refuses, and no password.                             *)
LEMMA NormalisedKeeps ==
  ASSUME NEW c \in Config
  PROVE  /\ Normalised(c) \in Config
         /\ Normalised(c).hash = c.hash
         /\ Valid(c) => Valid(Normalised(c))
<1> DEFINE full == Overridden(c, [f \in EmptyIn(c) |-> Defaults[f]])
           moved == Overridden(full, [slack |-> full.url, url |-> "", format |-> "generic"])
<1>1. /\ full \in Config /\ full.hash = c.hash
      /\ Valid(c) => Valid(full)
  <2>1. full = [f \in Fields |-> IF f \in EmptyIn(c) THEN Defaults[f] ELSE c[f]]
    BY DEF Overridden
  <2>2. EmptyIn(c) \subseteq {"format", "environment", "spike"}
    BY DEF EmptyIn
  <2> HIDE DEF full
  <2>3. full \in Config /\ full.hash = c.hash
    BY <2>1, <2>2, FieldsAre, SettingsAssumption DEF Config
  <2>4. ASSUME Valid(c) PROVE Valid(full)
    <3>1. EmptyIn(c) = {}
      <4>1. /\ c["format"] \in {"generic", "slack", "telegram"}
            /\ c["environment"] \in {"development", "staging", "production", "test"}
            /\ c["spike"] \in 1..MaxSpike /\ c["spike"] \in Int
        BY <2>4 DEF Valid, Config
      <4>2. c["format"] # "" /\ c["environment"] # ""
        BY <4>1
      <4>3. MaxSpike \in Nat
        BY SettingsAssumption
      <4>4. c["spike"] # 0
        BY <4>1, <4>3
      <4> QED BY <4>2, <4>4 DEF EmptyIn
    <3>2. \A f \in Fields : full[f] = c[f]
      BY <2>1, <3>1
    <3> QED BY <2>3, <2>4, <3>2, FieldsAre DEF Valid, PortsConflict, NoDuplicates
  <2> QED BY <2>3, <2>4
<1> HIDE DEF full
<1>2. /\ moved \in Config /\ moved.hash = full.hash
      /\ Valid(full) => Valid(moved)
  <2>1. moved = [f \in Fields |->
                   IF f \in {"slack", "url", "format"}
                   THEN [slack |-> full.url, url |-> "", format |-> "generic"][f] ELSE full[f]]
    BY DEF Overridden
  <2>2. /\ moved.slack = full.url /\ moved.url = "" /\ moved.format = "generic"
        /\ \A f \in Fields \ {"slack", "url", "format"} : moved[f] = full[f]
        /\ DOMAIN moved = Fields
    BY <2>1, FieldsAre
  <2> HIDE DEF moved
  <2>3. /\ full.netflow \in Int /\ full.sflow \in Int /\ full.dir \in Texts
        /\ full.environment \in Texts /\ full.subnets \in Texts /\ full.pps \in Int
        /\ full.url \in Texts /\ full.telegram \in BOOLEAN /\ full.token \in Texts
        /\ full.types \in Seq(Texts) /\ full.spike \in Int /\ full.retention \in Int
        /\ full.hash \in Texts /\ full.firstRun \in BOOLEAN
    BY <1>1 DEF Config
  <2>4. moved \in Config
    <3>1. moved = [netflow |-> full.netflow, sflow |-> full.sflow, dir |-> full.dir,
                   environment |-> full.environment, subnets |-> full.subnets,
                   pps |-> full.pps, url |-> "", slack |-> full.url, format |-> "generic",
                   telegram |-> full.telegram, token |-> full.token, types |-> full.types,
                   spike |-> full.spike, retention |-> full.retention, hash |-> full.hash,
                   firstRun |-> full.firstRun]
      <4>1. moved = [f \in Fields |-> moved[f]]
        BY <2>1
      <4>2. \A f \in {"netflow", "sflow", "dir", "environment", "subnets", "pps", "telegram",
                      "token", "types", "spike", "retention", "hash", "firstRun"} :
              moved[f] = full[f]
        BY <2>2, FieldsAre
      <4> QED BY <4>1, <4>2, <2>2, FieldsAre
    <3> QED BY <2>3, <3>1, SettingsAssumption DEF Config
  <2>5. ASSUME Valid(full) PROVE Valid(moved)
    <3>1. \A f \in {"netflow", "sflow", "dir", "environment", "subnets", "pps", "telegram",
                    "token", "types", "spike", "retention"} : moved[f] = full[f]
      BY <2>2, FieldsAre
    <3>2. /\ moved.netflow = full.netflow /\ moved.sflow = full.sflow /\ moved.dir = full.dir
          /\ moved.environment = full.environment /\ moved.subnets = full.subnets
          /\ moved.pps = full.pps /\ moved.telegram = full.telegram
          /\ moved.token = full.token /\ moved.types = full.types /\ moved.spike = full.spike
          /\ moved.retention = full.retention
      BY <3>1
    <3> QED BY <2>2, <2>5, <3>2 DEF Valid, PortsConflict, NoDuplicates
  <2> QED BY <2>2, <2>4, <2>5, FieldsAre
<1>3. Normalised(c) \in {full, moved}
  BY DEF Normalised, full
<1> QED BY <1>1, <1>2, <1>3

(* The settings in memory and in the file are a Config, and a request that *)
(* goes on carries what its step needs.                                    *)
Carried(q) ==
  /\ DOMAIN request[q] = {"at", "payload", "next", "sections"}
  /\ request[q].at = "apply" =>
       /\ q.kind = "settings" /\ request[q].payload \in Body /\ request[q].payload.types # Null
       /\ request[q].payload.retention \in Nat /\ request[q].payload.pps \in Nat
       /\ request[q].payload.spike \in Nat
  /\ request[q].at = "hash" => request[q].payload.password \in Texts \ {""}
  /\ request[q].at = "rename" => request[q].next \in Config
  /\ request[q].at = "push" => q.kind = "settings"
SettingsTyped ==
  /\ mem \in Config /\ mem.retention \in Nat /\ mem.pps \in Nat /\ mem.spike \in Nat
  /\ file \in Config \cup {Null}
  /\ DOMAIN request = Requests
  /\ \A q \in Requests : Carried(q)

(* While no two requests have been in their handlers at once: what is      *)
(* marshalled was checked, what is renamed is what is in memory, and a     *)
(* setup that was answered left its hash in memory and in the file.        *)
Secured == file # Null /\ file.hash # "" /\ mem.hash # ""
Sound(q) ==
  /\ request[q].at = "marshal" => Valid(mem)
  /\ request[q].at = "rename" => Valid(mem) /\ request[q].next = mem
  /\ request[q].at = "push" => mem = current
  /\ q.kind = "setup" /\ request[q].at \in {"check", "marshal", "rename"} => mem.hash # ""
  /\ q.kind = "setup" /\ request[q].at \in {"audit", "200"} => Secured
Running == phase \in {"loaded", "cleaning", "up"}
OneAtATime ==
  /\ \A q, r \in Requests : InHandler(q) /\ InHandler(r) => q = r
  /\ file = Null \/ Valid(Normalised(file))
  /\ \A q \in Requests : Sound(q)
  /\ Running => (\E q \in Requests : request[q].at = "push") \/ pushed = Copies(current)

SettingsInv ==
  /\ SettingsTyped
  /\ phase # "up" => \A q \in Requests : ~InHandler(q)
  /\ ~overlapped => OneAtATime

(* A step that leaves the settings alone.                                  *)
LEMMA SettingsUntouched ==
  ASSUME SettingsInv, UNCHANGED settingsVars, phase' # "up" => phase # "up", Running' => Running
  PROVE  SettingsInv'
<1>1. UNCHANGED <<mem, file, pushed, request, audit, current, overlapped>>
  BY DEF settingsVars
<1>2. SettingsTyped'
  BY <1>1 DEF SettingsInv, SettingsTyped, Carried
<1>3. phase' # "up" => \A q \in Requests : ~InHandler(q)'
  BY <1>1 DEF SettingsInv, InHandler
<1>4. ~overlapped' => OneAtATime'
  BY <1>1 DEF SettingsInv, OneAtATime, Sound, Secured, InHandler
<1> QED BY <1>2, <1>3, <1>4 DEF SettingsInv

(* The start: nobody is in a handler, and the copies are those of what was *)
(* loaded.                                                                 *)
Environment(env) ==
  /\ Overridden(Defaults, env) \in Config
  /\ "hash" \in DOMAIN env => env["hash"] # ""
(* What Load returns is a configuration, and with a saved password it has  *)
(* one.                                                                    *)
LEMMA LoadedTyped ==
  ASSUME SettingsTyped, NEW env, Environment(env)
  PROVE  /\ Loaded(file, env) \in Config
         /\ file # Null /\ file.hash # "" => Loaded(file, env).hash # ""
<1> DEFINE o == Overridden(OfFile(file), env)
<1>1. OfFile(file) \in Config /\ (file # Null => OfFile(file) = file)
  BY SettingsAssumption DEF OfFile, SettingsTyped
<1>2. o \in Config
  <2>1. \A f \in Fields : f \in DOMAIN env => Overridden(Defaults, env)[f] = env[f]
    BY DEF Overridden
  <2>2. o = [f \in Fields |-> IF f \in DOMAIN env THEN Overridden(Defaults, env)[f]
                              ELSE OfFile(file)[f]]
    BY <2>1 DEF Overridden
  <2>3. Overridden(Defaults, env) \in Config
    BY DEF Environment
  <2> HIDE DEF o
  <2> QED BY <1>1, <2>2, <2>3, FieldsAre DEF Config
<1>3. file # Null /\ file.hash # "" => o.hash # ""
  BY <1>1, FieldsAre DEF Overridden, Environment
<1> HIDE DEF o
<1>4. Normalised(o) \in Config /\ Normalised(o).hash = o.hash
  BY <1>2, NormalisedKeeps
<1> QED BY <1>3, <1>4 DEF Loaded, o

(* Loading the configuration keeps the invariant of the settings.          *)
LEMMA LoadStep ==
  ASSUME SettingsInv, phase = "down", phase' = "loaded", NEW env, LoadConfig(env),
         Environment(env)
  PROVE  SettingsInv'
<1>1. /\ mem' = Loaded(file, env) /\ Valid(mem') /\ pushed' = Copies(mem') /\ current' = mem'
      /\ UNCHANGED <<file, request, overlapped>>
  BY DEF LoadConfig
<1>2. mem' \in Config /\ (file # Null /\ file.hash # "" => mem'.hash # "")
  BY <1>1, LoadedTyped DEF SettingsInv
<1>3. mem'.retention \in Nat /\ mem'.pps \in Nat /\ mem'.spike \in Nat
  <2>1. mem'.retention \in 1..MaxRetention /\ mem'.pps > 0 /\ mem'.spike \in 1..MaxSpike
    BY <1>1 DEF Valid
  <2>2. mem'.pps \in Int
    BY <1>2 DEF Config
  <2>3. MaxRetention \in Nat /\ MaxSpike \in Nat
    BY SettingsAssumption
  <2> QED BY <2>1, <2>2, <2>3, Bounded
<1>4. SettingsTyped'
  BY <1>1, <1>2, <1>3 DEF SettingsInv, SettingsTyped, Carried
<1>5. \A q \in Requests : ~InHandler(q) /\ ~InHandler(q)'
  BY <1>1 DEF SettingsInv, InHandler
<1>6. ASSUME ~overlapped' PROVE OneAtATime'
  <2>1. OneAtATime
    BY <1>1, <1>6 DEF SettingsInv
  <2>2. \A q \in Requests : Sound(q)'
    BY <1>1, <1>2, <1>5, <2>1 DEF OneAtATime, Sound, Secured, InHandler
  <2> QED BY <1>1, <1>5, <2>1, <2>2 DEF OneAtATime
<1> QED BY <1>4, <1>5, <1>6 DEF SettingsInv

(* A crash: every request in its handler is lost.                          *)
LEMMA GoneStep ==
  ASSUME SettingsInv, RequestsGone, phase' = "down"
  PROVE  SettingsInv'
<1>1. /\ UNCHANGED <<mem, file, pushed, current, overlapped>>
      /\ request' = [q \in Requests |->
           IF InHandler(q) THEN [New EXCEPT !.at = "lost"] ELSE request[q]]
  BY DEF RequestsGone
<1>2. \A q \in Requests : request'[q].at = "lost" \/ request'[q] = request[q]
  BY <1>1 DEF New
<1>3. \A q \in Requests : ~InHandler(q)'
  BY <1>1 DEF New, InHandler
<1>4. \A q \in Requests : Carried(q)'
  BY <1>1, <1>2 DEF SettingsInv, SettingsTyped, Carried, New
<1>5. SettingsTyped'
  BY <1>1, <1>4 DEF SettingsInv, SettingsTyped
<1>6. ASSUME ~overlapped' PROVE OneAtATime'
  <2>1. OneAtATime
    BY <1>1, <1>6 DEF SettingsInv
  <2>2. \A q \in Requests : Sound(q)'
    BY <1>1, <1>2, <2>1 DEF OneAtATime, Sound, Secured
  <2> QED BY <1>1, <1>3, <2>1, <2>2 DEF OneAtATime, Running
<1> QED BY <1>3, <1>5, <1>6 DEF SettingsInv

(* A body whose gaps are filled from memory is one without gaps.           *)
LEMMA FilledTyped ==
  ASSUME NEW p \in Body, mem \in Config
  PROVE  Filled(p) \in Body /\ Filled(p).types # Null
<1>1. /\ MissingFrom(p) \subseteq {"dir", "format", "types", "spike"}
      /\ p.types = Null <=> "types" \in MissingFrom(p)
  BY DEF MissingFrom
<1>2. DOMAIN p = {"netflow", "sflow", "dir", "environment", "subnets", "pps", "url", "slack",
                  "format", "telegram", "token", "types", "spike", "retention", "password",
                  "firstRun"}
  BY DEF Body
<1>3. Filled(p) = [f \in DOMAIN p |-> IF f \in MissingFrom(p) THEN mem[f] ELSE p[f]]
  BY DEF Filled
<1>4. Filled(p).types \in Seq(Texts)
  BY <1>1, <1>2, <1>3 DEF Body, Config
<1>5. Filled(p) \in Body
  BY <1>1, <1>2, <1>3, <1>4 DEF Body, Config
<1>6. Null \notin Seq(Texts)
  BY SettingsAssumption
<1> QED BY <1>4, <1>5, <1>6

(* A request that enters its handler: from then on two may overlap.        *)
LEMMA EnterStep ==
  ASSUME SettingsInv, phase = "up", phase' = phase, NEW q \in Requests,
         PostSettings(q) \/ PostSetup(q)
  PROVE  SettingsInv'
<1>1. PICK next : /\ Enter(q, next) /\ DOMAIN next = {"at", "payload", "next", "sections"}
                  /\ next.at \in {"apply", "hash", "400", "409"}
                  /\ next.at = "apply" =>
                       /\ q.kind = "settings" /\ next.payload \in Body /\ next.payload.types # Null
                       /\ next.payload.retention \in Nat /\ next.payload.pps \in Nat
                       /\ next.payload.spike \in Nat
                  /\ next.at = "hash" => next.payload.password \in Texts \ {""}
  <2>1. CASE PostSettings(q)
    <3>1. q.payload \in Body
      BY <2>1, SettingsAssumption DEF PostSettings
    <3>2. Filled(q.payload) \in Body /\ Filled(q.payload).types # Null
      BY <3>1, FilledTyped DEF SettingsInv, SettingsTyped
    <3>3. CASE PayloadAccepted(Filled(q.payload))
      <4>1. Enter(q, [New EXCEPT !.at = "apply", !.payload = Filled(q.payload)])
        BY <2>1, <3>3 DEF PostSettings
      <4>2. /\ Filled(q.payload).retention \in 1..MaxRetention
            /\ Filled(q.payload).pps \in Int /\ Filled(q.payload).pps >= 1
            /\ Filled(q.payload).spike \in Int /\ Filled(q.payload).spike >= 1
        BY <3>2, <3>3 DEF PayloadAccepted, Body
      <4>3. MaxRetention \in Nat
        BY SettingsAssumption
      <4> DEFINE next == [New EXCEPT !.at = "apply", !.payload = Filled(q.payload)]
      <4>4. /\ DOMAIN next = {"at", "payload", "next", "sections"} /\ next.at = "apply"
            /\ next.payload = Filled(q.payload)
        BY DEF New
      <4>5. /\ Filled(q.payload).retention \in Nat /\ Filled(q.payload).pps \in Nat
            /\ Filled(q.payload).spike \in Nat /\ q.kind = "settings"
        BY <2>1, <4>2, <4>3, Bounded DEF PostSettings
      <4> HIDE DEF next
      <4>6. Enter(q, next)
        BY <4>1 DEF next
      <4> QED BY <3>2, <4>4, <4>5, <4>6
    <3>4. CASE ~PayloadAccepted(Filled(q.payload))
      <4> DEFINE next == [New EXCEPT !.at = "400"]
      <4>1. DOMAIN next = {"at", "payload", "next", "sections"} /\ next.at = "400"
        BY DEF New
      <4> HIDE DEF next
      <4>2. Enter(q, next)
        BY <2>1, <3>4 DEF PostSettings, next
      <4> QED BY <4>1, <4>2
    <3> QED BY <3>3, <3>4
  <2>2. CASE PostSetup(q)
    <3>1. q.payload.password \in Texts
      BY <2>2, SettingsAssumption DEF PostSetup
    <3> DEFINE next == IF mem.hash # "" THEN [New EXCEPT !.at = "409"]
                       ELSE IF q.payload.password \in {"", "short"} THEN [New EXCEPT !.at = "400"]
                       ELSE [New EXCEPT !.at = "hash", !.payload = q.payload]
    <3>2. /\ DOMAIN next = {"at", "payload", "next", "sections"}
          /\ next.at \in {"hash", "400", "409"}
          /\ next.at = "hash" => next.payload = q.payload /\ q.payload.password # ""
      BY DEF New
    <3> HIDE DEF next
    <3>3. Enter(q, next)
      BY <2>2 DEF PostSetup, next
    <3> QED BY <3>1, <3>2, <3>3
  <2> QED BY <2>1, <2>2
<1>2. /\ UNCHANGED <<mem, file, pushed, current>>
      /\ request' = [request EXCEPT ![q] = next]
      /\ overlapped' = (overlapped \/ \E r \in Requests \ {q} : InHandler(r))
  BY <1>1 DEF Enter
<1>3. /\ request'[q] = next /\ DOMAIN request' = Requests
      /\ \A r \in Requests \ {q} : request'[r] = request[r]
  BY <1>2 DEF SettingsInv, SettingsTyped
<1>4. \A r \in Requests : Carried(r)'
  BY <1>1, <1>3 DEF SettingsInv, SettingsTyped, Carried
<1>5. SettingsTyped'
  BY <1>2, <1>3, <1>4 DEF SettingsInv, SettingsTyped
<1>6. ASSUME ~overlapped' PROVE OneAtATime'
  <2>1. OneAtATime /\ \A r \in Requests \ {q} : ~InHandler(r)
    BY <1>2, <1>6 DEF SettingsInv
  <2>2. \A r \in Requests : Sound(r)'
    <3>1. ASSUME NEW r \in Requests \ {q} PROVE Sound(r)'
      BY <1>2, <1>3, <2>1 DEF OneAtATime, Sound, Secured
    <3>2. Sound(q)'
      BY <1>1, <1>3 DEF Sound
    <3> QED BY <3>1, <3>2
  <2>3. \A r \in Requests \ {q} : ~InHandler(r)'
    BY <1>3, <2>1 DEF InHandler
  <2>4. \A r \in Requests : request[r].at # "push"
    BY <2>1 DEF InHandler, PostSettings, PostSetup
  <2> QED BY <1>2, <2>1, <2>2, <2>3, <2>4 DEF OneAtATime, Running
<1> QED BY <1>5, <1>6 DEF SettingsInv

(* What a step of one request in its handler leaves alone: the others, and *)
(* whether two have overlapped.                                            *)
Elsewhere(q) ==
  /\ DOMAIN request' = Requests
  /\ \A r \in Requests \ {q} : request'[r] = request[r]
  /\ UNCHANGED overlapped

(* The records of a request that is not changed stay what they are.        *)
LEMMA OthersCarried ==
  ASSUME SettingsTyped, NEW q \in Requests, Elsewhere(q), Carried(q)'
  PROVE  \A r \in Requests : Carried(r)'
BY DEF SettingsTyped, Elsewhere, Carried

(* While nobody else is in a handler, a step of one request keeps what is  *)
(* sound when it keeps it for this request, keeps the hashes of a setup    *)
(* that was answered, and leaves a file that loads.                        *)
LEMMA AloneSound ==
  ASSUME SettingsTyped, OneAtATime, NEW q \in Requests, InHandler(q), Elsewhere(q),
         phase = "up", phase' = phase,
         Sound(q)', Secured => Secured', file' = Null \/ Valid(Normalised(file))',
         request'[q].at = "push" \/ pushed' = Copies(current)'
  PROVE  OneAtATime'
<1>1. \A r \in Requests \ {q} : ~InHandler(r)
  BY DEF OneAtATime
<1>2. \A r \in Requests \ {q} : ~InHandler(r)'
  BY <1>1 DEF InHandler, Elsewhere
<1>3. \A r \in Requests \ {q} : Sound(r)'
  BY <1>1 DEF InHandler, Elsewhere, Sound, OneAtATime
<1>4. \A r \in Requests : Sound(r)'
  BY <1>3
<1>5. \A r, s \in Requests : InHandler(r)' /\ InHandler(s)' => r = s
  BY <1>2
<1>6. (\E r \in Requests : request[r].at = "push")' \/ pushed' = Copies(current)'
  OBVIOUS
<1> QED BY <1>4, <1>5, <1>6 DEF OneAtATime

(* The payload over the settings in memory: a Config with the same hash.   *)
LEMMA AppliedTyped ==
  ASSUME NEW q \in Requests, Carried(q), request[q].at = "apply", mem \in Config
  PROVE  /\ Applied(q) \in Config /\ Applied(q).hash = mem.hash
         /\ Applied(q).retention \in Nat /\ Applied(q).pps \in Nat /\ Applied(q).spike \in Nat
<1> DEFINE p == request[q].payload
           a == Applied(q)
           token == IF p.token \in {"", "masked"} THEN mem.token ELSE p.token
<1>1. /\ p \in Body /\ p.types # Null
      /\ p.retention \in Nat /\ p.pps \in Nat /\ p.spike \in Nat
  BY DEF Carried
<1>2. a = [f \in Fields |-> CASE f = "token" -> token
                              [] f = "hash" -> mem.hash
                              [] OTHER -> p[f]]
  BY DEF Applied
<1>3. /\ mem.token \in Texts /\ mem.hash \in Texts
  BY DEF Config
<1>4. token \in Texts
  BY <1>1, <1>3 DEF Body
<1>5. p.types \in Seq(Texts)
  BY <1>1 DEF Body
<1> HIDE DEF a, p, token
<1>6. /\ a.token = token /\ a.hash = mem.hash
      /\ \A f \in Fields \ {"token", "hash"} : a[f] = p[f]
      /\ DOMAIN a = Fields
  BY <1>2, FieldsAre
<1>7. a = [netflow |-> p.netflow, sflow |-> p.sflow, dir |-> p.dir,
           environment |-> p.environment, subnets |-> p.subnets,
           pps |-> p.pps, url |-> p.url, slack |-> p.slack, format |-> p.format,
           telegram |-> p.telegram, token |-> token, types |-> p.types,
           spike |-> p.spike, retention |-> p.retention, hash |-> mem.hash,
           firstRun |-> p.firstRun]
  <2>1. a = [f \in Fields |-> a[f]]
    BY <1>2
  <2> QED BY <1>6, <2>1, FieldsAre
<1>8. a \in Config
  BY <1>1, <1>3, <1>4, <1>5, <1>7 DEF Config, Body
<1>9. a.retention = p.retention /\ a.pps = p.pps /\ a.spike = p.spike
  BY <1>6, FieldsAre
<1> QED BY <1>1, <1>6, <1>8, <1>9 DEF a

(* The assignments of a settings POST.                                     *)
LEMMA ApplyStep ==
  ASSUME SettingsInv, phase = "up", phase' = phase, NEW q \in Requests, ApplySettings(q)
  PROVE  SettingsInv'
<1> DEFINE next == IF request[q].payload.password = "" THEN "check" ELSE "hash"
<1>1. /\ request[q].at = "apply" /\ mem' = Applied(q)
      /\ UNCHANGED <<file, pushed, audit, current, overlapped>>
  BY DEF ApplySettings
<1>2. /\ SettingsTyped /\ DOMAIN request = Requests /\ Carried(q) /\ mem \in Config
  BY DEF SettingsInv, SettingsTyped
<1>3. /\ request'[q].at = next /\ request'[q].payload = request[q].payload
      /\ DOMAIN request'[q] = {"at", "payload", "next", "sections"}
      /\ Elsewhere(q)
  BY <1>1, <1>2 DEF ApplySettings, Carried, Elsewhere
<1>4. /\ mem' \in Config /\ mem'.hash = mem.hash
      /\ mem'.retention \in Nat /\ mem'.pps \in Nat /\ mem'.spike \in Nat
  BY <1>1, <1>2, AppliedTyped
<1>5. request[q].payload.password \in Texts /\ q.kind = "settings"
  BY <1>1, <1>2 DEF Carried, Body
<1>6. Carried(q)'
  BY <1>3, <1>5 DEF Carried
<1>7. SettingsTyped'
  BY <1>1, <1>2, <1>3, <1>4, <1>6, OthersCarried DEF SettingsTyped, Elsewhere
<1>8. ASSUME ~overlapped' PROVE OneAtATime'
  <2>1. OneAtATime
    BY <1>1, <1>8 DEF SettingsInv
  <2>2. InHandler(q)
    BY <1>1 DEF InHandler
  <2>3. Sound(q)'
    BY <1>3, <1>5 DEF Sound
  <2>4. Secured => Secured'
    BY <1>1, <1>4 DEF Secured
  <2>5. file' = Null \/ Valid(Normalised(file))'
    BY <1>1, <2>1 DEF OneAtATime
  <2>6. pushed' = Copies(current)'
    BY <1>1, <2>1, <2>2 DEF OneAtATime, Running, InHandler
  <2> QED BY <1>2, <1>3, <2>1, <2>2, <2>3, <2>4, <2>5, <2>6, AloneSound
<1> QED BY <1>7, <1>8 DEF SettingsInv

(* The hash of a new password goes into memory.                            *)
LEMMA HashStep ==
  ASSUME SettingsInv, phase = "up", phase' = phase, NEW q \in Requests, HashPassword(q)
  PROVE  SettingsInv'
<1>1. /\ request[q].at = "hash" /\ mem' = [mem EXCEPT !.hash = request[q].payload.password]
      /\ UNCHANGED <<file, pushed, audit, current, overlapped>>
  BY DEF HashPassword
<1>2. /\ SettingsTyped /\ DOMAIN request = Requests /\ Carried(q) /\ mem \in Config
      /\ mem.retention \in Nat /\ mem.pps \in Nat /\ mem.spike \in Nat
  BY DEF SettingsInv, SettingsTyped
<1>3. /\ request'[q].at = "check"
      /\ DOMAIN request'[q] = {"at", "payload", "next", "sections"}
      /\ Elsewhere(q)
  BY <1>1, <1>2 DEF HashPassword, Carried, Elsewhere
<1>4. request[q].payload.password \in Texts \ {""}
  BY <1>1, <1>2 DEF Carried
<1>5. /\ mem' \in Config /\ mem'.hash # ""
      /\ mem'.retention \in Nat /\ mem'.pps \in Nat /\ mem'.spike \in Nat
  BY <1>1, <1>2, <1>4 DEF Config
<1>6. Carried(q)'
  BY <1>3 DEF Carried
<1>7. SettingsTyped'
  BY <1>1, <1>2, <1>3, <1>5, <1>6, OthersCarried DEF SettingsTyped, Elsewhere
<1>8. ASSUME ~overlapped' PROVE OneAtATime'
  <2>1. OneAtATime
    BY <1>1, <1>8 DEF SettingsInv
  <2>2. InHandler(q)
    BY <1>1 DEF InHandler
  <2>3. Sound(q)'
    BY <1>3, <1>5 DEF Sound
  <2>4. Secured => Secured'
    BY <1>1, <1>5 DEF Secured
  <2>5. file' = Null \/ Valid(Normalised(file))'
    BY <1>1, <2>1 DEF OneAtATime
  <2>6. pushed' = Copies(current)'
    BY <1>1, <2>1, <2>2 DEF OneAtATime, Running, InHandler
  <2> QED BY <1>2, <1>3, <2>1, <2>2, <2>3, <2>4, <2>5, <2>6, AloneSound
<1> QED BY <1>7, <1>8 DEF SettingsInv

(* The steps of SaveConfig before the rename: what is marshalled has been  *)
(* checked, and nobody has changed it since when nobody else is there.     *)
LEMMA SaveStep ==
  ASSUME SettingsInv, phase = "up", phase' = phase, NEW q \in Requests,
         CheckBeforeSave(q) \/ Marshal(q) \/ SaveConfigFails(q)
  PROVE  SettingsInv'
<1>1. /\ request[q].at \in {"hash", "check", "marshal", "rename"}
      /\ UNCHANGED <<mem, file, pushed, audit, current, overlapped>>
  BY DEF CheckBeforeSave, Marshal, SaveConfigFails, FileWhileWriting
<1>2. /\ SettingsTyped /\ DOMAIN request = Requests /\ Carried(q) /\ mem \in Config
  BY DEF SettingsInv, SettingsTyped
<1>3. /\ \/ request'[q].at = "500"
         \/ request[q].at = "check" /\ request'[q].at = "marshal" /\ Valid(mem)
         \/ request[q].at = "marshal" /\ request'[q].at = "rename" /\ request'[q].next = mem
      /\ DOMAIN request'[q] = {"at", "payload", "next", "sections"}
      /\ Elsewhere(q)
  BY <1>1, <1>2 DEF CheckBeforeSave, Marshal, SaveConfigFails, AfterFailedSave, SaveAllowed,
                    Carried, Elsewhere
<1>4. Carried(q)'
  BY <1>2, <1>3 DEF Carried
<1>5. SettingsTyped'
  BY <1>1, <1>2, <1>3, <1>4, OthersCarried DEF SettingsTyped, Elsewhere
<1>6. ASSUME ~overlapped' PROVE OneAtATime'
  <2>1. OneAtATime /\ Sound(q)
    BY <1>1, <1>6 DEF SettingsInv, OneAtATime
  <2>2. InHandler(q)
    BY <1>1 DEF InHandler
  <2>3. Sound(q)'
    BY <1>1, <1>3, <2>1 DEF Sound
  <2>4. Secured => Secured'
    BY <1>1 DEF Secured
  <2>5. file' = Null \/ Valid(Normalised(file))'
    BY <1>1, <2>1 DEF OneAtATime
  <2>6. pushed' = Copies(current)'
    BY <1>1, <2>1, <2>2 DEF OneAtATime, Running, InHandler
  <2> QED BY <1>2, <1>3, <2>1, <2>2, <2>3, <2>4, <2>5, <2>6, AloneSound
<1> QED BY <1>5, <1>6 DEF SettingsInv

(* The rename: the file is what was marshalled, and loads.                 *)
LEMMA RenameStep ==
  ASSUME SettingsInv, phase = "up", phase' = phase, NEW q \in Requests, Rename(q)
  PROVE  SettingsInv'
<1>1. /\ request[q].at = "rename" /\ file' = request[q].next
      /\ current' = IF q.kind = "settings" THEN request[q].next ELSE current
      /\ UNCHANGED <<mem, pushed, audit, overlapped>>
  BY DEF Rename
<1>2. /\ SettingsTyped /\ DOMAIN request = Requests /\ Carried(q) /\ mem \in Config
  BY DEF SettingsInv, SettingsTyped
<1>3. /\ request'[q].at = IF q.kind = "settings" THEN "push" ELSE "audit"
      /\ DOMAIN request'[q] = {"at", "payload", "next", "sections"}
      /\ Elsewhere(q)
  BY <1>1, <1>2 DEF Rename, Carried, Elsewhere
<1>4. Carried(q)'
  BY <1>2, <1>3 DEF Carried
<1>5. SettingsTyped'
  <2>1. file' \in Config
    BY <1>1, <1>2 DEF Carried
  <2> QED BY <1>1, <1>2, <1>3, <1>4, <2>1, OthersCarried DEF SettingsTyped, Elsewhere
<1>6. ASSUME ~overlapped' PROVE OneAtATime'
  <2>1. OneAtATime /\ Sound(q)
    BY <1>1, <1>6 DEF SettingsInv, OneAtATime
  <2>2. InHandler(q)
    BY <1>1 DEF InHandler
  <2>3. file' = mem /\ Valid(mem) /\ file' # Null
    BY <1>1, <1>2, <2>1, SettingsAssumption DEF Sound
  <2>4. Sound(q)'
    BY <1>1, <1>3, <2>1, <2>3 DEF Sound, Secured
  <2>5. Secured => Secured'
    BY <1>1, <2>3 DEF Secured
  <2>6. Valid(Normalised(file))'
    BY <1>2, <2>3, NormalisedKeeps
  <2>7. request'[q].at = "push" \/ pushed' = Copies(current)'
    BY <1>1, <1>3, <2>1, <2>2 DEF OneAtATime, Running, InHandler
  <2> QED BY <1>2, <1>3, <2>1, <2>2, <2>4, <2>5, <2>6, <2>7, AloneSound
<1> QED BY <1>5, <1>6 DEF SettingsInv

(* The hand-out to the engines, and the answer.                            *)
LEMMA AnswerStep ==
  ASSUME SettingsInv, phase = "up", phase' = phase, NEW q \in Requests,
         Propagate(q) \/ AuditAndAnswer(q)
  PROVE  SettingsInv'
<1>1. /\ \/ request[q].at = "push" /\ request'[q].at = "audit" /\ pushed' = Copies(mem)
         \/ request[q].at = "audit" /\ request'[q].at = "200" /\ pushed' = pushed
      /\ DOMAIN request'[q] = {"at", "payload", "next", "sections"}
      /\ Elsewhere(q)
      /\ UNCHANGED <<mem, file, current, overlapped>>
  <2>1. DOMAIN request = Requests /\ DOMAIN request[q] = {"at", "payload", "next", "sections"}
    BY DEF SettingsInv, SettingsTyped, Carried
  <2>2. CASE Propagate(q)
    <3>1. /\ request[q].at = "push" /\ pushed' = Copies(mem)
          /\ request' = [request EXCEPT ![q].at = "audit"]
          /\ UNCHANGED <<mem, file, audit, current, overlapped>>
      BY <2>2 DEF Propagate
    <3>2. /\ request'[q].at = "audit" /\ DOMAIN request' = Requests
          /\ DOMAIN request'[q] = {"at", "payload", "next", "sections"}
          /\ \A r \in Requests \ {q} : request'[r] = request[r]
      BY <2>1, <3>1
    <3>3. Elsewhere(q)
      BY <3>1, <3>2 DEF Elsewhere
    <3> QED BY <3>1, <3>2, <3>3
  <2>3. CASE AuditAndAnswer(q)
    BY <2>1, <2>3 DEF AuditAndAnswer, Elsewhere
  <2> QED BY <2>2, <2>3
<1>2. /\ SettingsTyped /\ DOMAIN request = Requests /\ Carried(q)
  BY DEF SettingsInv, SettingsTyped
<1>3. Carried(q)'
  BY <1>1 DEF Carried
<1>4. SettingsTyped'
  BY <1>1, <1>2, <1>3, OthersCarried DEF SettingsTyped, Elsewhere
<1>5. ASSUME ~overlapped' PROVE OneAtATime'
  <2>1. OneAtATime /\ Sound(q)
    BY <1>1, <1>5 DEF SettingsInv, OneAtATime
  <2>2. InHandler(q)
    BY <1>1 DEF InHandler
  <2>3. Sound(q)'
    BY <1>1, <1>2, <2>1 DEF Sound, Secured, Carried
  <2>4. Secured => Secured'
    BY <1>1 DEF Secured
  <2>5. file' = Null \/ Valid(Normalised(file))'
    BY <1>1, <2>1 DEF OneAtATime
  <2>6. pushed' = Copies(current)'
    <3>1. CASE request[q].at = "push"
      BY <1>1, <2>1, <3>1 DEF Sound
    <3>2. CASE request[q].at = "audit"
      BY <1>1, <2>1, <2>2, <3>2 DEF OneAtATime, Running, InHandler
    <3> QED BY <1>1, <3>1, <3>2
  <2> QED BY <1>1, <1>2, <2>1, <2>2, <2>3, <2>4, <2>5, <2>6, AloneSound
<1> QED BY <1>4, <1>5 DEF SettingsInv

(* The settings and the process as one.                                    *)
DaemonInv == SettingsInv /\ workload \in Workloads

(* The settings' invariant holds before the first start, with or without a *)
(* file of settings on disk.                                               *)
LEMMA SettingsStart ==
  ASSUME DaemonInit
  PROVE  DaemonInv
<1>1. /\ mem = Defaults /\ file = Null /\ phase = "down" /\ workload \in Workloads
      /\ request = [q \in Requests |-> New]
  BY DEF DaemonInit, SettingsInit
<1>2. /\ Defaults \in Config /\ Valid(Defaults) /\ MaxRetention \in Nat /\ MaxSpike \in Nat
  BY SettingsAssumption, DefaultsAssumption
<1>3. mem.retention \in Nat /\ mem.pps \in Nat /\ mem.spike \in Nat
  <2>1. /\ Defaults.retention \in 1..MaxRetention /\ Defaults.spike \in 1..MaxSpike
        /\ Defaults.pps > 0 /\ Defaults.pps \in Int
    BY <1>2 DEF Valid, Config
  <2> QED BY <1>1, <1>2, <2>1, Bounded
<1>4. \A q \in Requests : Carried(q) /\ ~InHandler(q) /\ Sound(q)
  BY <1>1 DEF Carried, InHandler, Sound, New
<1>5. SettingsTyped
  BY <1>1, <1>2, <1>3, <1>4 DEF SettingsTyped
<1>6. OneAtATime
  BY <1>1, <1>4 DEF OneAtATime, Running
<1> QED BY <1>1, <1>4, <1>5, <1>6 DEF DaemonInv, SettingsInv

(* Every step of the daemon keeps the settings' invariant.                 *)
LEMMA SettingsSteps ==
  ASSUME DaemonInv, [DaemonNext]_daemonVars
  PROVE  DaemonInv'
<1>1. workload' = workload /\ workload \in Workloads
  BY DEF DaemonInv, DaemonNext, daemonVars, processVars, Start, StartupCleanup, Serve,
         PeriodicCleanup, Stop, HistoryStep, SettingsStep, TailStep
<1>2. Environment(workload.env)
  BY <1>1, WorkloadAssumption DEF Environment
<1>3. SettingsInv
  BY DEF DaemonInv
<1>4. SettingsInv'
  <2>1. CASE Start
    <3>1. CASE LoadConfig(workload.env) /\ phase' = "loaded"
      BY <1>2, <1>3, <2>1, <3>1, LoadStep DEF Start
    <3>2. CASE phase' = "refused" /\ UNCHANGED settingsVars
      BY <1>3, <2>1, <3>2, SettingsUntouched DEF Start, Running
    <3> QED BY <2>1, <3>1, <3>2 DEF Start
  <2>2. CASE StartupCleanup
    BY <1>3, <2>2, SettingsUntouched DEF StartupCleanup, Running
  <2>3. CASE Serve
    BY <1>3, <2>3, SettingsUntouched DEF Serve, Running
  <2>4. CASE PeriodicCleanup
    BY <1>3, <2>4, SettingsUntouched DEF PeriodicCleanup, Running
  <2>5. CASE Stop
    BY <1>3, <2>5, GoneStep DEF Stop
  <2>6. CASE HistoryStep
    BY <1>3, <2>6, SettingsUntouched DEF HistoryStep, processVars, Running
  <2>7. CASE SettingsStep
    <3>1. PICK q \in workload.requests : PostSettings(q) \/ PostSetup(q) \/ Handle(q)
      BY <2>7 DEF SettingsStep
    <3>2. q \in Requests /\ phase = "up" /\ phase' = phase
      BY <1>1, <2>7, WorkloadAssumption DEF SettingsStep, processVars
    <3>3. CASE PostSettings(q) \/ PostSetup(q)
      BY <1>3, <3>2, <3>3, EnterStep
    <3>4. CASE Handle(q)
      <4>1. CASE ApplySettings(q)
        BY <1>3, <3>2, <4>1, ApplyStep
      <4>2. CASE HashPassword(q)
        BY <1>3, <3>2, <4>2, HashStep
      <4>3. CASE CheckBeforeSave(q) \/ Marshal(q) \/ SaveConfigFails(q)
        BY <1>3, <3>2, <4>3, SaveStep
      <4>4. CASE Rename(q)
        BY <1>3, <3>2, <4>4, RenameStep
      <4>5. CASE Propagate(q) \/ AuditAndAnswer(q)
        BY <1>3, <3>2, <4>5, AnswerStep
      <4> QED BY <3>4, <4>1, <4>2, <4>3, <4>4, <4>5 DEF Handle
    <3> QED BY <3>1, <3>3, <3>4
  <2>8. CASE TailStep
    BY <1>3, <2>8, SettingsUntouched DEF TailStep, processVars, Running
  <2>9. CASE UNCHANGED daemonVars
    BY <1>3, <2>9, SettingsUntouched DEF daemonVars, processVars, Running
  <2> QED BY <2>1, <2>2, <2>3, <2>4, <2>5, <2>6, <2>7, <2>8, <2>9 DEF DaemonNext
<1> QED BY <1>1, <1>4 DEF DaemonInv

(* The settings' invariant is one of the daemon's: the file, the memory,   *)
(* the engines and the requests under way agree on what was saved.         *)
THEOREM SettingsInvariant == DaemonSpec => []DaemonInv
BY SettingsStart, SettingsSteps, PTL DEF DaemonSpec

(* Whatever POSTs were answered, refused, failed or cut off, the file is   *)
(* one the next start accepts, unless two were in their handlers at once   *)
(* (SaveConfig, writeFileAtomic, LoadConfig).                              *)
THEOREM FileLoads == DaemonSpec => []SavedSettingsLoad
<1>1. DaemonInv => SavedSettingsLoad
  BY DEF DaemonInv, SettingsInv, OneAtATime, SavedSettingsLoad
<1> QED BY <1>1, SettingsInvariant, PTL

(* A password whose setup was answered stays in the file                   *)
(* (handleAuthSetup, handlePostSettings).                                  *)
THEOREM PasswordStays == DaemonSpec => []SetupSurvives
<1>1. DaemonInv => SetupSurvives
  BY DEF DaemonInv, SettingsInv, OneAtATime, Sound, Secured, SetupSurvives
<1> QED BY <1>1, SettingsInvariant, PTL

(* The engines run what the last saved settings POST, or the start, said   *)
(* (handlePostSettings).                                                   *)
THEOREM EnginesFollow == DaemonSpec => []EnginesRunSaved
<1>1. DaemonInv => EnginesRunSaved
  BY DEF DaemonInv, SettingsInv, OneAtATime, Running, EnginesRunSaved
<1> QED BY <1>1, SettingsInvariant, PTL

-------------------------------------------------------------------------------
(* The tailer of Suricata's log, one step at a time.  The argument orders  *)
(* the halves of all lines by rank.  What the tailer has taken, into its   *)
(* buffer or as lines, is ranked below everything it can still come to:    *)
(* that needs the files sorted, within one and from one to the next, and   *)
(* the offset, which decides on a second reading from the start, never     *)
(* above what was read.                                                    *)
Piece == [line : Lines, half : 1..2]
Rank(p) == 2 * p.line + p.half
Increasing(s) == \A i, j \in 1..Len(s) : i < j => Rank(s[i]) < Rank(s[j])

(* The highest rank that has been written.                                 *)
Top == IF Midway THEN 2 * written + 1 ELSE 2 * written + 2

(* The ranks of what is in the buffer or was processed.                    *)
Taken == {Rank(tailer.buffer[i]) : i \in 1..Len(tailer.buffer)}
         \cup {2 * processed[j] + 2 : j \in 1..Len(processed)}

(* The pieces the tailer may still come to: those of later files, and of   *)
(* its own file those after its position, or all of them when the file is  *)
(* shorter than that or about to be read again.                            *)
MayCome(f, i) ==
  \/ f > tailer.fd
  \/ f = tailer.fd /\ \/ i > tailer.pos
                      \/ Len(eve[f]) < tailer.pos
                      \/ tailer.at = "reopen" /\ path = f

Shape ==
  /\ eve \in Seq(Seq(Piece)) /\ sink = Len(eve) /\ sink >= 1
  /\ path \in {0, sink} /\ written \in 0..MaxLines
  /\ tailer \in [at : {"down", "open", "wait", "read", "reopen", "closed"},
                 fd : 0..sink, pos : Nat, offset : Nat, buffer : Seq(Piece)]
  /\ tailer.at \notin {"down", "open"} => tailer.fd # 0
  /\ processed \in Seq(Lines)
  /\ raised \subseteq Processed /\ torn \subseteq Lines
FilesSorted ==
  /\ \A f \in 1..sink : Increasing(eve[f])
  /\ \A f \in 1..sink : \A i \in 1..Len(eve[f]) : Rank(eve[f][i]) <= Top
  /\ \A f, g \in 1..sink : f < g =>
       \A i \in 1..Len(eve[f]), j \in 1..Len(eve[g]) : Rank(eve[f][i]) < Rank(eve[g][j])
  /\ Midway => eve[sink][Len(eve[sink])].line = written
Sizes ==
  /\ \A f \in 1..sink : Len(eve[f]) <= 2 * written
  /\ Midway => Len(eve[sink]) <= 2 * written - 1
  /\ tailer.pos <= 2 * written
  /\ tailer.offset + Len(tailer.buffer) <= tailer.pos
BufferSorted ==
  /\ Increasing(tailer.buffer)
  /\ \A i \in 1..Len(tailer.buffer), j \in 1..Len(processed) :
       2 * processed[j] + 2 < Rank(tailer.buffer[i])
  /\ \A t \in Taken : t <= Top
Coming ==
  tailer.fd # 0 =>
    \A f \in 1..sink : \A i \in 1..Len(eve[f]) :
      MayCome(f, i) => \A t \in Taken : t < Rank(eve[f][i])
KeysRaised ==
  \A k \in alertKeys : \E j \in 1..Len(processed) : processed[j] \in raised /\ AlertOf[processed[j]] = k

TailInv ==
  /\ Shape /\ FilesSorted /\ Sizes /\ BufferSorted /\ Coming /\ KeysRaised
  /\ LinesInOrder /\ LinesAccounted

(* Ranks are numbers, and half n of line l has rank 2l + n.                *)
LEMMA RankType ==
  /\ \A p \in Piece : Rank(p) \in Nat /\ p.line \in Nat /\ p.half \in 1..2
  /\ \A l \in Lines, n \in 1..2 : Half(l, n) \in Piece /\ Rank(Half(l, n)) = 2 * l + n
BY LineAssumption DEF Piece, Rank, Lines, Half

(* What is added to the end of a sequence.                                 *)
AddedTo(w, u, s) ==
  /\ Len(w) = Len(u) + Len(s)
  /\ \A i \in 1..Len(u) : w[i] = u[i] /\ i \in 1..Len(w)
  /\ \A i \in 1..Len(w) : i \notin 1..Len(u) =>
       \E k \in 1..Len(s) : i = Len(u) + k /\ w[i] = s[k]
  /\ \A k \in 1..Len(s) : Len(u) + k \in 1..Len(w) /\ w[Len(u) + k] = s[k]
  /\ Len(s) > 0 => w[Len(w)] = s[Len(s)]
(* Concatenation adds the second sequence to the end of the first.         *)
LEMMA Added ==
  ASSUME NEW u \in Seq(Piece), NEW s \in Seq(Piece)
  PROVE  AddedTo(u \o s, u, s) /\ u \o s \in Seq(Piece)
<1> DEFINE w == u \o s
<1>1. PICK n \in Nat, m \in Nat : n = Len(u) /\ m = Len(s)
  BY LenProperties
<1>2. /\ w \in Seq(Piece) /\ Len(w) = n + m
      /\ \A i \in 1..(n + m) : w[i] = IF i <= n THEN u[i] ELSE s[i - n]
  BY <1>1, ConcatProperties
<1> HIDE DEF w
<1>3. \A i \in 1..n : w[i] = u[i] /\ i \in 1..(n + m)
  BY <1>1, <1>2
<1>4. ASSUME NEW i \in 1..(n + m), i \notin 1..n
      PROVE  i - n \in 1..m /\ i = n + (i - n) /\ w[i] = s[i - n]
  BY <1>1, <1>2, <1>4
<1>5. ASSUME m > 0 PROVE w[n + m] = s[m]
  <2>1. n + m \in 1..(n + m) /\ ~(n + m <= n) /\ (n + m) - n = m
    BY <1>1, <1>5
  <2> QED BY <1>2, <2>1
<1>6. ASSUME NEW k \in 1..m PROVE n + k \in 1..(n + m) /\ w[n + k] = s[k]
  <2>1. n + k \in 1..(n + m) /\ ~(n + k <= n) /\ (n + k) - n = k
    BY <1>1
  <2> QED BY <1>2, <2>1
<1>7. AddedTo(w, u, s)
  BY <1>1, <1>2, <1>3, <1>4, <1>5, <1>6 DEF AddedTo
<1> QED BY <1>2, <1>7 DEF w

(* What is taken has numbers as ranks.                                     *)
LEMMA TakenType ==
  ASSUME Shape
  PROVE  Taken \subseteq Nat
<1>1. \A i \in 1..Len(tailer.buffer) : Rank(tailer.buffer[i]) \in Nat
  BY RankType, ElementOfSeq DEF Shape
<1>2. \A j \in 1..Len(processed) : processed[j] \in Nat
  <2>1. processed \in Seq(Lines) /\ Lines \subseteq Nat
    BY DEF Shape, Lines
  <2> QED BY <2>1, ElementOfSeq
<1> QED BY <1>1, <1>2 DEF Taken

-------------------------------------------------------------------------------
(* Suricata and the rotation.                                              *)

(* What a write appends: pieces above everything written before.           *)
Fresh(s) ==
  /\ Increasing(s)
  /\ \A i \in 1..Len(s) : Top < Rank(s[i])
OneWrite(s) ==
  \/ /\ ~Midway /\ written' = written + 1 /\ written < MaxLines
     /\ \/ Len(s) = 1 /\ s[1] = Half(written + 1, 1)
        \/ Len(s) = 2 /\ s[1] = Half(written + 1, 1) /\ s[2] = Half(written + 1, 2)
  \/ /\ Midway /\ written' = written /\ written \in Lines
     /\ Len(s) = 1 /\ s[1] = Half(written, 2)
(* What one write of Suricata adds: the first half of a new line, the      *)
(* whole of it, or the second half of the line begun, and always ranked    *)
(* above all there was.                                                    *)
LEMMA WhatIsWritten ==
  ASSUME Shape, FilesSorted, Sizes, WriteEve
  PROVE  \E s \in Seq(Piece) : Put(s) /\ Fresh(s) /\ OneWrite(s)
<1>1. written \in Nat /\ MaxLines \in Nat
  BY LineAssumption DEF Shape
<1>2. CASE /\ ~Midway /\ written < MaxLines /\ written' = written + 1
           /\ \/ Put(<<Half(written + 1, 1)>>)
              \/ Put(<<Half(written + 1, 1), Half(written + 1, 2)>>)
  <2>1. written + 1 \in Lines
    BY <1>1, <1>2 DEF Lines
  <2>2. /\ Half(written + 1, 1) \in Piece /\ Rank(Half(written + 1, 1)) = 2 * (written + 1) + 1
        /\ Half(written + 1, 2) \in Piece /\ Rank(Half(written + 1, 2)) = 2 * (written + 1) + 2
    BY <2>1, RankType
  <2>3. Top = 2 * written + 2
    BY <1>2 DEF Top
  <2>4. CASE Put(<<Half(written + 1, 1)>>)
    <3> DEFINE s == <<Half(written + 1, 1)>>
    <3>1. s \in Seq(Piece) /\ Len(s) = 1 /\ s[1] = Half(written + 1, 1)
      BY <2>2
    <3>2. Put(s)
      BY <2>4
    <3> HIDE DEF s
    <3>3. Increasing(s) /\ \A i \in 1..Len(s) : Top < Rank(s[i])
      BY <1>1, <2>2, <2>3, <3>1 DEF Increasing
    <3>4. Fresh(s) /\ OneWrite(s)
      BY <1>2, <3>1, <3>3 DEF Fresh, OneWrite
    <3> QED BY <3>1, <3>2, <3>4
  <2>5. CASE Put(<<Half(written + 1, 1), Half(written + 1, 2)>>)
    <3> DEFINE s == <<Half(written + 1, 1), Half(written + 1, 2)>>
    <3>1. /\ s \in Seq(Piece) /\ Len(s) = 2 /\ s[1] = Half(written + 1, 1)
          /\ s[2] = Half(written + 1, 2)
      BY <2>2
    <3>2. Put(s)
      BY <2>5
    <3> HIDE DEF s
    <3>3. Increasing(s)
      BY <1>1, <2>2, <3>1 DEF Increasing
    <3>4. \A i \in 1..Len(s) : Top < Rank(s[i])
      BY <1>1, <2>2, <2>3, <3>1
    <3>5. Fresh(s) /\ OneWrite(s)
      BY <1>2, <3>1, <3>3, <3>4 DEF Fresh, OneWrite
    <3> QED BY <3>1, <3>2, <3>5
  <2> QED BY <1>2, <2>4, <2>5
<1>3. CASE Midway /\ Put(<<Half(written, 2)>>) /\ written' = written
  <2>1. eve[sink][Len(eve[sink])] \in Piece /\ eve[sink][Len(eve[sink])].line = written
    <3>1. eve[sink] \in Seq(Piece) /\ Len(eve[sink]) > 0
      BY <1>3, ElementOfSeq DEF Shape, Midway, Size
    <3>2. Len(eve[sink]) \in 1..Len(eve[sink])
      BY <3>1, LenProperties DEF Size
    <3> QED BY <1>3, <3>1, <3>2, ElementOfSeq DEF FilesSorted
  <2>2. written \in Lines
    BY <2>1 DEF Piece
  <2>3. Half(written, 2) \in Piece /\ Rank(Half(written, 2)) = 2 * written + 2
    BY <2>2, RankType
  <2>4. Top = 2 * written + 1
    BY <1>3 DEF Top
  <2> DEFINE s == <<Half(written, 2)>>
  <2>5. s \in Seq(Piece) /\ Len(s) = 1 /\ s[1] = Half(written, 2)
    BY <2>3
  <2>6. Put(s)
    BY <1>3
  <2> HIDE DEF s
  <2>7. Increasing(s) /\ \A i \in 1..Len(s) : Top < Rank(s[i])
    BY <1>1, <2>3, <2>4, <2>5 DEF Increasing
  <2>8. Fresh(s) /\ OneWrite(s)
    BY <1>3, <2>2, <2>5, <2>7 DEF Fresh, OneWrite
  <2> QED BY <2>5, <2>6, <2>8
<1> QED BY <1>2, <1>3 DEF WriteEve

(* A write: the new pieces come after the file's, and are above what was   *)
(* taken.                                                                  *)
LEMMA WriteStep ==
  ASSUME TailInv, WriteEve
  PROVE  TailInv'
<1>1. PICK s \in Seq(Piece) : Put(s) /\ Fresh(s) /\ OneWrite(s)
  BY WhatIsWritten DEF TailInv
<1>2. /\ UNCHANGED <<path, sink, tailer, alertKeys, processed, raised, torn>>
      /\ eve' = [eve EXCEPT ![sink] = eve[sink] \o s]
      /\ unseen' = IF tailer.fd = sink /\ Len(eve[sink]) < tailer.pos THEN unseen \cup LinesIn(s)
                   ELSE unseen
  BY <1>1 DEF WriteEve, Put, Size
<1>3. /\ eve \in Seq(Seq(Piece)) /\ sink \in 1..Len(eve) /\ sink = Len(eve) /\ sink \in 1..sink
      /\ eve[sink] \in Seq(Piece) /\ Len(eve[sink]) \in Nat
      /\ \A f \in 1..sink : eve[f] \in Seq(Piece) /\ Len(eve[f]) \in Nat
  <2>1. eve \in Seq(Seq(Piece)) /\ sink \in 1..Len(eve) /\ sink = Len(eve)
    BY DEF TailInv, Shape
  <2>2. sink \in 1..sink
    BY <2>1
  <2> QED BY <2>1, <2>2, ElementOfSeq, LenProperties
<1>4. /\ Len(s) \in 1..2 /\ Len(s) \in Nat
      /\ \A i \in 1..Len(s) : s[i] \in Piece
  BY <1>1, ElementOfSeq DEF OneWrite
<1>5. eve[sink] \o s \in Seq(Piece)
  BY <1>3, ConcatProperties
<1>6. /\ eve' \in Seq(Seq(Piece)) /\ Len(eve') = sink /\ eve'[sink] = eve[sink] \o s
      /\ \A f \in 1..sink : f # sink => eve'[f] = eve[f]
  BY <1>2, <1>3, <1>5, ExceptSeq
<1>7. /\ Len(eve'[sink]) = Len(eve[sink]) + Len(s)
      /\ \A i \in 1..Len(eve[sink]) : eve'[sink][i] = eve[sink][i] /\ i \in 1..Len(eve'[sink])
      /\ \A i \in 1..Len(eve'[sink]) : i \notin 1..Len(eve[sink]) =>
           \E k \in 1..Len(s) : i = Len(eve[sink]) + k /\ eve'[sink][i] = s[k]
      /\ eve'[sink][Len(eve'[sink])] = s[Len(s)]
  <2>1. eve[sink] \in Seq(Piece)
    BY <1>3
  <2>2. eve'[sink] = eve[sink] \o s
    BY <1>6
  <2>3. Len(s) > 0
    BY <1>4
  <2>4. AddedTo(eve'[sink], eve[sink], s)
    BY <2>1, <2>2, Added
  <2> QED BY <2>3, <2>4 DEF AddedTo
<1>8. written \in Nat /\ written' \in 0..MaxLines /\ MaxLines \in Nat
  BY <1>1, LineAssumption DEF TailInv, Shape, OneWrite, Lines
<1>10. /\ Top \in Nat /\ Top' \in Nat /\ Top <= Top'
       /\ \A i \in 1..Len(s) : Rank(s[i]) \in Nat /\ Top < Rank(s[i]) /\ Rank(s[i]) <= Top'
       /\ Midway' => s[Len(s)].line = written' /\ Len(eve'[sink]) <= 2 * written' - 1
       /\ Len(eve'[sink]) <= 2 * written' /\ written <= written'
  <2>1. \A i \in 1..Len(s) : Rank(s[i]) \in Nat /\ Top < Rank(s[i])
    BY <1>1, <1>4, RankType DEF Fresh
  <2>2. Midway' <=> s[Len(s)].half = 1
    <3>1. Len(eve'[sink]) > 0
      <4>1. Len(eve[sink]) \in Nat
        BY <1>3
      <4>2. Len(s) \in Nat /\ Len(s) > 0
        BY <1>4
      <4> QED BY <1>7, <4>1, <4>2
    <3> QED BY <1>2, <1>7, <3>1 DEF Midway, Size
  <2>3. CASE ~Midway /\ written' = written + 1 /\ Len(s) = 1 /\ s[1] = Half(written + 1, 1)
    <3>1. Rank(s[1]) = 2 * (written + 1) + 1 /\ s[1].line = written + 1 /\ s[1].half = 1
      BY <2>3 DEF Rank, Half
    <3>2. Midway' /\ Top = 2 * written + 2 /\ Top' = 2 * (written + 1) + 1
      BY <2>2, <2>3, <3>1 DEF Top
    <3>3. Len(eve[sink]) <= 2 * written
      BY <1>3 DEF TailInv, Sizes
    <3>4. /\ Top \in Nat /\ Top' \in Nat /\ Top <= Top' /\ written <= written'
          /\ Len(eve'[sink]) <= 2 * written' - 1 /\ Len(eve'[sink]) <= 2 * written'
      <4>1. Len(eve'[sink]) = Len(eve[sink]) + 1 /\ Len(eve[sink]) \in Nat
        BY <1>3, <1>7, <2>3
      <4>2. written' = written + 1 /\ written \in Nat
        BY <1>8, <2>3
      <4> QED BY <3>2, <3>3, <4>1, <4>2
    <3>5. \A i \in 1..Len(s) : i = 1
      BY <2>3
    <3> QED BY <1>8, <2>1, <2>3, <3>1, <3>2, <3>4, <3>5
  <2>4. CASE ~Midway /\ written' = written + 1 /\ Len(s) = 2 /\ s[1] = Half(written + 1, 1)
             /\ s[2] = Half(written + 1, 2)
    <3>1. /\ Rank(s[1]) = 2 * (written + 1) + 1
          /\ Rank(s[2]) = 2 * (written + 1) + 2 /\ s[2].half = 2
      BY <2>4 DEF Rank, Half
    <3>2. ~Midway' /\ Top = 2 * written + 2 /\ Top' = 2 * (written + 1) + 2
      BY <2>2, <2>4, <3>1 DEF Top
    <3>3. Len(eve[sink]) <= 2 * written
      BY <1>3 DEF TailInv, Sizes
    <3>4. \A i \in 1..Len(s) : i = 1 \/ i = 2
      BY <2>4
    <3> QED BY <1>3, <1>7, <1>8, <2>1, <2>4, <3>1, <3>2, <3>3, <3>4
  <2>5. CASE Midway /\ written' = written /\ Len(s) = 1 /\ s[1] = Half(written, 2)
    <3>1. Rank(s[1]) = 2 * written + 2 /\ s[1].half = 2
      BY <2>5 DEF Rank, Half
    <3>2. ~Midway' /\ Top = 2 * written + 1 /\ Top' = 2 * written + 2
      BY <2>2, <2>5, <3>1 DEF Top
    <3>3. Len(eve[sink]) <= 2 * written - 1
      BY <2>5 DEF TailInv, Sizes
    <3>4. /\ Top \in Nat /\ Top' \in Nat /\ Top <= Top' /\ written <= written'
          /\ Len(eve'[sink]) <= 2 * written'
      <4>1. Len(eve'[sink]) = Len(eve[sink]) + 1 /\ Len(eve[sink]) \in Nat
        BY <1>3, <1>7, <2>5
      <4>2. written' = written /\ written \in Nat
        BY <1>8, <2>5
      <4> QED BY <3>2, <3>3, <4>1, <4>2
    <3>5. \A i \in 1..Len(s) : i = 1
      BY <2>5
    <3> QED BY <1>8, <2>1, <2>5, <3>1, <3>2, <3>4, <3>5
  <2> QED BY <1>1, <2>3, <2>4, <2>5 DEF OneWrite
<1>11. Shape'
  BY <1>2, <1>3, <1>6, <1>8 DEF TailInv, Shape, Processed
<1>12. \A f \in 1..sink : \A i \in 1..Len(eve[f]) :
         /\ eve'[f][i] = eve[f][i] /\ i \in 1..Len(eve'[f]) /\ eve[f][i] \in Piece
         /\ Rank(eve[f][i]) \in Nat /\ Rank(eve[f][i]) <= Top
  <2>1. \A f \in 1..sink : \A i \in 1..Len(eve[f]) :
           eve'[f][i] = eve[f][i] /\ i \in 1..Len(eve'[f])
    BY <1>3, <1>4, <1>6, <1>7
  <2>2. \A f \in 1..sink : \A i \in 1..Len(eve[f]) : eve[f][i] \in Piece
    BY <1>3, ElementOfSeq
  <2> QED BY <2>1, <2>2, RankType DEF TailInv, FilesSorted
<1>13. \A f \in 1..sink : \A i \in 1..Len(eve'[f]) : i \notin 1..Len(eve[f]) =>
         f = sink /\ \E k \in 1..Len(s) : i = Len(eve[f]) + k /\ eve'[f][i] = s[k]
  <2> SUFFICES ASSUME NEW f \in 1..sink, NEW i \in 1..Len(eve'[f]), i \notin 1..Len(eve[f])
               PROVE  f = sink /\ \E k \in 1..Len(s) : i = Len(eve[f]) + k /\ eve'[f][i] = s[k]
    OBVIOUS
  <2>1. f = sink
    BY <1>6
  <2> QED BY <1>7, <2>1
<1>14. FilesSorted'
  <2>1. \A f \in 1..sink : Increasing(eve'[f])
    <3> SUFFICES ASSUME NEW f \in 1..sink, NEW i \in 1..Len(eve'[f]), NEW j \in 1..Len(eve'[f]), i < j
                 PROVE  Rank(eve'[f][i]) < Rank(eve'[f][j])
      BY DEF Increasing
    <3>1. CASE j \in 1..Len(eve[f])
      <4>1. i \in 1..Len(eve[f])
        BY <1>3, <3>1
      <4>2. Increasing(eve[f])
        BY DEF TailInv, FilesSorted
      <4>3. Rank(eve[f][i]) < Rank(eve[f][j])
        BY <3>1, <4>1, <4>2 DEF Increasing
      <4> QED BY <1>12, <3>1, <4>1, <4>3
    <3>2. CASE i \in 1..Len(eve[f]) /\ j \notin 1..Len(eve[f])
      <4>1. Rank(eve'[f][i]) \in Nat /\ Rank(eve'[f][i]) <= Top
        BY <1>12, <3>2
      <4>2. PICK k \in 1..Len(s) : eve'[f][j] = s[k]
        BY <1>13, <3>2
      <4> QED BY <1>10, <4>1, <4>2
    <3>3. CASE i \notin 1..Len(eve[f]) /\ j \notin 1..Len(eve[f])
      <4>1. PICK k \in 1..Len(s) : i = Len(eve[f]) + k /\ eve'[f][i] = s[k]
        BY <1>13, <3>3
      <4>2. PICK l \in 1..Len(s) : j = Len(eve[f]) + l /\ eve'[f][j] = s[l]
        BY <1>13, <3>3
      <4>3. k < l
        BY <1>3, <4>1, <4>2
      <4> QED BY <1>1, <4>1, <4>2, <4>3 DEF Fresh, Increasing
    <3> QED BY <1>3, <3>1, <3>2, <3>3
  <2>2. \A f \in 1..sink : \A i \in 1..Len(eve'[f]) : Rank(eve'[f][i]) <= Top'
    BY <1>10, <1>12, <1>13
  <2>3. ASSUME NEW f \in 1..sink, NEW g \in 1..sink, f < g,
               NEW i \in 1..Len(eve'[f]), NEW j \in 1..Len(eve'[g])
        PROVE  Rank(eve'[f][i]) < Rank(eve'[g][j])
    <3>1. i \in 1..Len(eve[f])
      BY <1>3, <1>13, <2>3
    <3>2. CASE j \in 1..Len(eve[g])
      BY <1>12, <2>3, <3>1, <3>2 DEF TailInv, FilesSorted
    <3>3. CASE j \notin 1..Len(eve[g])
      <4>1. Rank(eve'[f][i]) \in Nat /\ Rank(eve'[f][i]) <= Top
        BY <1>12, <3>1
      <4>2. PICK k \in 1..Len(s) : eve'[g][j] = s[k]
        BY <1>13, <3>3
      <4> QED BY <1>10, <4>1, <4>2
    <3> QED BY <3>2, <3>3
  <2>4. Midway' => eve'[sink][Len(eve'[sink])].line = written'
    BY <1>7, <1>10
  <2> QED BY <1>2, <2>1, <2>2, <2>3, <2>4 DEF FilesSorted
<1>15. Sizes'
  <2>1. \A f \in 1..sink : Len(eve'[f]) <= 2 * written'
    <3> SUFFICES ASSUME NEW f \in 1..sink PROVE Len(eve'[f]) <= 2 * written'
      OBVIOUS
    <3>1. Len(eve[f]) <= 2 * written /\ Len(eve[f]) \in Nat
      BY <1>3 DEF TailInv, Sizes
    <3>2. f # sink => eve'[f] = eve[f]
      BY <1>6
    <3>3. CASE f = sink
      BY <1>10, <3>3
    <3>4. CASE f # sink
      BY <1>8, <1>10, <3>1, <3>2, <3>4
    <3> QED BY <3>3, <3>4
  <2>2. tailer.pos <= 2 * written' /\ tailer.pos \in Nat
    <3>1. tailer.pos <= 2 * written /\ tailer.pos \in Nat
      BY DEF TailInv, Sizes, Shape
    <3> QED BY <1>8, <1>10, <3>1
  <2> QED BY <1>2, <1>10, <2>1, <2>2 DEF TailInv, Sizes
<1>16. Taken' = Taken
  BY <1>2 DEF Taken
<1>17. \A t \in Taken : t \in Nat /\ t <= Top
  BY TakenType DEF TailInv, BufferSorted
<1>18. BufferSorted'
  BY <1>2, <1>10, <1>16, <1>17 DEF TailInv, BufferSorted
<1>19. Coming'
  <2> SUFFICES ASSUME tailer.fd # 0, NEW f \in 1..sink, NEW i \in 1..Len(eve'[f]), MayCome(f, i)',
                      NEW t \in Taken
               PROVE  t < Rank(eve'[f][i])
    BY <1>2, <1>16 DEF Coming
  <2>1. CASE i \in 1..Len(eve[f])
    <3>1. MayCome(f, i)
      BY <1>2, <1>3, <1>4, <1>7, <2>1 DEF MayCome, Size, TailInv, Shape
    <3> QED BY <1>12, <2>1, <3>1 DEF TailInv, Coming
  <2>2. CASE i \notin 1..Len(eve[f])
    <3>1. PICK k \in 1..Len(s) : eve'[f][i] = s[k]
      BY <1>13, <2>2
    <3>2. Top < Rank(s[k]) /\ Rank(s[k]) \in Nat /\ Top \in Nat
      BY <1>10
    <3>3. t \in Nat /\ t <= Top
      BY <1>17
    <3> QED BY <3>1, <3>2, <3>3
  <2> QED BY <2>1, <2>2
<1>20. KeysRaised' /\ LinesInOrder'
  BY <1>2 DEF TailInv, KeysRaised, LinesInOrder
<1>21. LinesAccounted'
  <2>1. ASSUME tailer.fd # 0, NEW i \in 1..tailer.pos, i <= Len(eve'[tailer.fd]),
               eve'[tailer.fd][i].half = 2
        PROVE  eve'[tailer.fd][i].line \in Processed \cup LinesIn(tailer.buffer) \cup torn \cup unseen'
    <3>1. tailer.fd \in 1..sink /\ tailer.pos \in Nat
      BY <1>3, <2>1 DEF TailInv, Shape
    <3>2. CASE i \in 1..Len(eve[tailer.fd])
      <4>1. eve'[tailer.fd][i] = eve[tailer.fd][i] /\ i <= Len(eve[tailer.fd])
        BY <1>12, <3>1, <3>2
      <4>2. eve[tailer.fd][i].half = 2
        BY <2>1, <4>1
      <4>3. eve[tailer.fd][i].line \in Processed \cup LinesIn(tailer.buffer) \cup torn \cup unseen
        BY <2>1, <4>1, <4>2 DEF TailInv, LinesAccounted, Size
      <4>4. unseen \subseteq unseen'
        BY <1>2
      <4> QED BY <4>1, <4>3, <4>4
    <3>3. CASE i \notin 1..Len(eve[tailer.fd])
      <4>1. i \in 1..Len(eve'[tailer.fd])
        BY <1>2, <2>1, <3>1
      <4>2. tailer.fd = sink
        BY <1>13, <3>1, <3>3, <4>1
      <4>3. PICK k \in 1..Len(s) : i = Len(eve[sink]) + k /\ eve'[sink][i] = s[k]
        BY <1>7, <3>3, <4>2, <4>1
      <4>4. Len(eve[sink]) < tailer.pos
        BY <1>3, <2>1, <3>1, <4>2, <4>3
      <4>5. s[k].line \in LinesIn(s) /\ LinesIn(s) \subseteq unseen'
        BY <1>2, <4>2, <4>4 DEF LinesIn
      <4> QED BY <4>2, <4>3, <4>5
    <3> QED BY <3>2, <3>3
  <2>2. /\ tailer' = tailer /\ torn' = torn /\ processed' = processed /\ raised' = raised
        /\ Processed' = Processed
    BY <1>2 DEF Processed
  <2>3. \A i \in DOMAIN processed : AlertOf[processed[i]] # NoAlert =>
          \E j \in 1..i : processed[j] \in raised /\ AlertOf[processed[j]] = AlertOf[processed[i]]
    BY DEF TailInv, LinesAccounted
  <2> QED BY <2>1, <2>2, <2>3 DEF LinesAccounted, Size
<1> QED BY <1>11, <1>14, <1>15, <1>18, <1>19, <1>20, <1>21 DEF TailInv

(* A rotation: nothing is added to a file, and what is taken stays.        *)
LEMMA RotateStep ==
  ASSUME TailInv, Rotate
  PROVE  TailInv'
<1>1. UNCHANGED <<written, tailer, alertKeys, processed, raised, torn, unseen>>
  BY DEF Rotate, Truncate, RenameEve, CreateEve, tailHistory
<1>2. /\ eve \in Seq(Seq(Piece)) /\ sink \in 1..Len(eve) /\ sink = Len(eve) /\ sink \in 1..sink
      /\ \A f \in 1..sink : eve[f] \in Seq(Piece) /\ Len(eve[f]) \in Nat
      /\ path \in {0, sink} /\ written \in Nat /\ tailer.fd \in 0..sink
  <2>1. /\ eve \in Seq(Seq(Piece)) /\ sink \in 1..Len(eve) /\ sink = Len(eve)
        /\ path \in {0, sink} /\ written \in Nat /\ tailer.fd \in 0..sink
    BY DEF TailInv, Shape
  <2> QED BY <2>1, ElementOfSeq, LenProperties
<1>3. /\ eve' \in Seq(Seq(Piece)) /\ sink' = Len(eve') /\ sink' \in {sink, sink + 1}
      /\ path' \in {0, sink'} /\ (path' # 0 => path' = path \/ path' > sink)
      /\ \A f \in 1..sink' : eve'[f] = <<>> \/ (f \in 1..sink /\ eve'[f] = eve[f])
      /\ \A f \in 1..sink : path' = f => path = f
  <2>1. CASE Truncate
    <3>1. eve' = [eve EXCEPT ![sink] = <<>>] /\ UNCHANGED <<path, sink>>
      BY <2>1 DEF Truncate
    <3>2. <<>> \in Seq(Piece)
      BY EmptySeq
    <3>3. /\ eve' \in Seq(Seq(Piece)) /\ Len(eve') = Len(eve)
          /\ \A f \in 1..Len(eve) : eve'[f] = IF f = sink THEN <<>> ELSE eve[f]
      BY <1>2, <3>1, <3>2, ExceptSeq
    <3>4. sink' = Len(eve') /\ sink' = sink /\ path' = path
      BY <1>2, <3>1, <3>3
    <3>5. \A f \in 1..sink' : eve'[f] = <<>> \/ (f \in 1..sink /\ eve'[f] = eve[f])
      <4> TAKE f \in 1..sink'
      <4>1. f \in 1..sink /\ f \in 1..Len(eve)
        BY <1>2, <3>4
      <4> QED BY <3>3, <4>1
    <3> QED BY <1>2, <3>3, <3>4, <3>5
  <2>2. CASE RenameEve
    BY <1>2, <2>2 DEF RenameEve
  <2>3. CASE CreateEve
    <3>1. /\ eve' = Append(eve, <<>>) /\ path' = Len(eve) + 1 /\ sink' = Len(eve) + 1
      BY <2>3 DEF CreateEve
    <3>2. <<>> \in Seq(Piece)
      BY EmptySeq
    <3>3. /\ eve' \in Seq(Seq(Piece)) /\ Len(eve') = Len(eve) + 1
          /\ \A f \in 1..Len(eve) : eve'[f] = eve[f]
          /\ eve'[Len(eve) + 1] = <<>>
      BY <1>2, <3>1, <3>2, AppendProperties
    <3>4. \A f \in 1..(sink + 1) : f \in 1..sink \/ f = sink + 1
      BY <1>2
    <3>5. sink' = Len(eve') /\ sink' = sink + 1 /\ path' = sink' /\ path' > sink
      BY <1>2, <3>1, <3>3
    <3>6. \A f \in 1..sink' : eve'[f] = <<>> \/ (f \in 1..sink /\ eve'[f] = eve[f])
      <4> TAKE f \in 1..sink'
      <4>1. CASE f \in 1..sink
        <5>1. f \in 1..Len(eve)
          BY <1>2, <4>1
        <5> QED BY <3>3, <4>1, <5>1
      <4>2. CASE f = sink + 1
        BY <1>2, <3>3, <4>2
      <4> QED BY <3>4, <3>5, <4>1, <4>2
    <3>7. \A f \in 1..sink : path' # f
      BY <1>2, <3>5
    <3> QED BY <3>3, <3>5, <3>6, <3>7
  <2> QED BY <2>1, <2>2, <2>3 DEF Rotate
<1>4. /\ \A f \in 1..sink' : /\ Len(eve'[f]) \in Nat
                             /\ f \notin 1..sink => Len(eve'[f]) = 0
                             /\ f \in 1..sink => Len(eve'[f]) <= Len(eve[f])
      /\ \A f \in 1..sink' : \A i \in 1..Len(eve'[f]) :
           f \in 1..sink /\ i \in 1..Len(eve[f]) /\ eve'[f] = eve[f]
  BY <1>2, <1>3, EmptySeq
<1>5. Midway' => Midway /\ eve' = eve /\ sink' = sink
  <2>1. CASE Truncate
    <3>1. eve'[sink] = <<>> /\ sink' = sink
      BY <1>2, <2>1 DEF Truncate
    <3> QED BY <3>1, EmptySeq DEF Midway, Size
  <2>2. CASE RenameEve
    BY <2>2 DEF RenameEve, Midway, Size
  <2>3. CASE CreateEve
    <3>1. eve' = Append(eve, <<>>) /\ sink' = Len(eve) + 1
      BY <2>3 DEF CreateEve
    <3>2. eve'[sink'] = <<>>
      BY <1>2, <3>1, EmptySeq, AppendProperties
    <3> QED BY <3>2, EmptySeq DEF Midway, Size
  <2> QED BY <2>1, <2>2, <2>3 DEF Rotate
<1>6. Top <= Top' /\ Top \in Nat /\ Top' \in Nat
  BY <1>1, <1>2, <1>5 DEF Top
<1>7. Taken' = Taken /\ \A t \in Taken : t \in Nat /\ t <= Top
  BY <1>1, TakenType DEF Taken, TailInv, BufferSorted
<1>8. Shape'
  BY <1>1, <1>2, <1>3 DEF TailInv, Shape, Processed
<1>9. FilesSorted'
  <2>1. \A f \in 1..sink' : Increasing(eve'[f])
    <3> SUFFICES ASSUME NEW f \in 1..sink', NEW i \in 1..Len(eve'[f]), NEW j \in 1..Len(eve'[f]), i < j
                 PROVE  Rank(eve'[f][i]) < Rank(eve'[f][j])
      BY DEF Increasing
    <3>1. f \in 1..sink /\ i \in 1..Len(eve[f]) /\ j \in 1..Len(eve[f]) /\ eve'[f] = eve[f]
      BY <1>4
    <3> QED BY <3>1 DEF TailInv, FilesSorted, Increasing
  <2>2. ASSUME NEW f \in 1..sink', NEW i \in 1..Len(eve'[f]) PROVE Rank(eve'[f][i]) <= Top'
    <3>1. f \in 1..sink /\ i \in 1..Len(eve[f]) /\ eve'[f] = eve[f]
      BY <1>4
    <3>2. Rank(eve[f][i]) \in Nat /\ Rank(eve[f][i]) <= Top
      BY <1>2, <3>1, RankType, ElementOfSeq DEF TailInv, FilesSorted
    <3> QED BY <1>6, <3>1, <3>2
  <2>3. ASSUME NEW f \in 1..sink', NEW g \in 1..sink', f < g,
               NEW i \in 1..Len(eve'[f]), NEW j \in 1..Len(eve'[g])
        PROVE  Rank(eve'[f][i]) < Rank(eve'[g][j])
    BY <1>4, <2>3 DEF TailInv, FilesSorted
  <2>4. Midway' => eve'[sink'][Len(eve'[sink'])].line = written'
    BY <1>1, <1>5 DEF TailInv, FilesSorted
  <2> QED BY <2>1, <2>2, <2>3, <2>4 DEF FilesSorted
<1>10. Sizes'
  <2>1. \A f \in 1..sink' : Len(eve'[f]) <= 2 * written
    BY <1>2, <1>4 DEF TailInv, Sizes
  <2>2. Midway' => Len(eve'[sink']) <= 2 * written - 1
    BY <1>5 DEF TailInv, Sizes
  <2> QED BY <1>1, <2>1, <2>2 DEF TailInv, Sizes
<1>11. BufferSorted'
  BY <1>1, <1>6, <1>7 DEF TailInv, BufferSorted
<1>12. Coming'
  <2> SUFFICES ASSUME tailer.fd # 0, NEW f \in 1..sink', NEW i \in 1..Len(eve'[f]), MayCome(f, i)',
                      NEW t \in Taken
               PROVE  t < Rank(eve'[f][i])
    BY <1>1, <1>7 DEF Coming
  <2>1. f \in 1..sink /\ i \in 1..Len(eve[f]) /\ eve'[f] = eve[f]
    BY <1>4
  <2>2. MayCome(f, i)
    BY <1>1, <1>3, <2>1 DEF MayCome, Size
  <2> QED BY <2>1, <2>2 DEF TailInv, Coming
<1>13. KeysRaised' /\ LinesInOrder'
  BY <1>1 DEF TailInv, KeysRaised, LinesInOrder
<1>14. LinesAccounted'
  <2>1. ASSUME tailer.fd # 0, NEW i \in 1..tailer.pos, i <= Len(eve'[tailer.fd]),
               eve'[tailer.fd][i].half = 2
        PROVE  eve'[tailer.fd][i].line \in Processed \cup LinesIn(tailer.buffer) \cup torn \cup unseen
    <3>1. tailer.fd \in 1..sink /\ tailer.fd \in 1..sink' /\ tailer.pos \in Nat
      <4>1. tailer.fd \in 0..sink /\ tailer.pos \in Nat
        BY DEF TailInv, Shape
      <4> QED BY <1>2, <1>3, <2>1, <4>1
    <3>2. i \in 1..Len(eve'[tailer.fd])
      BY <1>4, <2>1, <3>1
    <3>3. i \in 1..Len(eve[tailer.fd]) /\ eve'[tailer.fd] = eve[tailer.fd]
      BY <1>4, <3>1, <3>2
    <3> QED BY <2>1, <3>1, <3>3 DEF TailInv, LinesAccounted, Size
  <2> QED BY <1>1, <2>1 DEF TailInv, LinesAccounted, Size, Processed
<1> QED BY <1>8, <1>9, <1>10, <1>11, <1>12, <1>13, <1>14 DEF TailInv

-------------------------------------------------------------------------------
(* The tailer.                                                             *)
Reader == [at : {"down", "open", "wait", "read", "reopen", "closed"},
           fd : 0..sink, pos : Nat, offset : Nat, buffer : Seq(Piece)]

(* A step after which the buffer is empty: nothing is taken, and nothing   *)
(* comes that could not have come before.                                  *)
Dropped ==
  /\ tailer' \in Reader /\ tailer'.buffer = <<>>
  /\ tailer'.at \notin {"down", "open"} => tailer'.fd # 0
  /\ tailer'.pos <= 2 * written /\ tailer'.offset <= tailer'.pos
  /\ tailer'.fd # 0 =>
       \A f \in 1..sink : \A i \in 1..Len(eve[f]) : MayCome(f, i)' => tailer.fd # 0 /\ MayCome(f, i)
  /\ tailer'.fd # 0 =>
       \A i \in 1..tailer'.pos :
         i <= Len(eve[tailer'.fd]) /\ eve[tailer'.fd][i].half = 2 =>
           eve[tailer'.fd][i].line \in Processed \cup torn' \cup unseen'

(* What the files say stays true while nobody writes.                      *)
LEMMA FilesUntouched ==
  ASSUME TailInv, UNCHANGED fileOfEve
  PROVE  /\ FilesSorted' /\ Top' = Top
         /\ UNCHANGED <<eve, path, sink, written>>
         /\ (\A f \in 1..sink : Len(eve[f]) <= 2 * written)'
         /\ Midway' => Len(eve'[sink']) <= 2 * written' - 1
<1>1. UNCHANGED <<eve, path, sink, written>>
  BY DEF fileOfEve
<1>2. Midway' = Midway /\ Top' = Top
  BY <1>1 DEF Midway, Size, Top
<1>3. FilesSorted'
  BY <1>1, <1>2 DEF TailInv, FilesSorted, Increasing
<1> QED BY <1>1, <1>2, <1>3 DEF TailInv, Sizes

(* A step that empties the buffer keeps the invariant.                     *)
LEMMA DroppedStep ==
  ASSUME TailInv, UNCHANGED fileOfEve, UNCHANGED <<processed, raised>>,
         alertKeys' \subseteq alertKeys, torn' \subseteq Lines, Dropped
  PROVE  TailInv'
<1>1. /\ FilesSorted' /\ Top' = Top
      /\ UNCHANGED <<eve, path, sink, written, processed, raised>>
      /\ (\A f \in 1..sink : Len(eve[f]) <= 2 * written)'
      /\ Midway' => Len(eve'[sink']) <= 2 * written' - 1
  BY FilesUntouched
<1>2. /\ tailer' \in Reader /\ tailer'.buffer = <<>> /\ Len(tailer'.buffer) = 0
      /\ tailer'.pos \in Nat /\ tailer'.offset \in Nat
  BY EmptySeq DEF Dropped, Reader
<1>3. Shape'
  BY <1>1, <1>2 DEF TailInv, Shape, Dropped, Reader, Processed
<1>4. Sizes'
  BY <1>1, <1>2 DEF Dropped, Sizes
<1>5. Taken' \subseteq Taken /\ \A t \in Taken : t <= Top
  BY <1>1, <1>2 DEF Taken, TailInv, BufferSorted
<1>6. BufferSorted'
  BY <1>1, <1>2, <1>5 DEF BufferSorted, Increasing
<1>7. Coming'
  BY <1>1, <1>5 DEF Coming, Dropped, TailInv
<1>8. KeysRaised' /\ LinesInOrder'
  BY <1>1 DEF TailInv, KeysRaised, LinesInOrder
<1>9. LinesAccounted'
  BY <1>1 DEF TailInv, LinesAccounted, Dropped, Size, Processed
<1> QED BY <1>1, <1>3, <1>4, <1>6, <1>7, <1>8, <1>9 DEF TailInv

(* The lines of what is in the buffer or in a file are lines.              *)
LEMMA LinesOf ==
  ASSUME NEW s \in Seq(Piece)
  PROVE  /\ LinesIn(s) \subseteq Lines
         /\ \A i \in 1..Len(s) : s[i].line \in LinesIn(s)
<1>1. \A p \in Piece : p.line \in Lines
  BY DEF Piece
<1>2. \A i \in 1..Len(s) : s[i].line \in Lines
  BY <1>1, ElementOfSeq
<1> QED BY <1>2 DEF LinesIn

(* A step that moves nothing but the place in the code.                    *)
LEMMA RestStep ==
  ASSUME TailInv, UNCHANGED fileOfEve, UNCHANGED tailHistory, alertKeys' \subseteq alertKeys,
         tailer' \in Reader, tailer'.fd = tailer.fd, tailer'.pos = tailer.pos,
         tailer'.offset = tailer.offset, tailer'.buffer = tailer.buffer,
         tailer'.at \notin {"down", "open"} => tailer'.fd # 0,
         tailer'.at = "reopen" => tailer.at = "reopen"
  PROVE  TailInv'
<1>1. /\ FilesSorted' /\ Top' = Top
      /\ UNCHANGED <<eve, path, sink, written, processed, raised, torn, unseen>>
      /\ (\A f \in 1..sink : Len(eve[f]) <= 2 * written)'
      /\ Midway' => Len(eve'[sink']) <= 2 * written' - 1
  BY FilesUntouched DEF tailHistory
<1>2. Shape'
  BY <1>1 DEF TailInv, Shape, Reader, Processed
<1>3. Sizes'
  BY <1>1 DEF TailInv, Sizes
<1>4. Taken' = Taken
  BY <1>1 DEF Taken
<1>5. BufferSorted'
  BY <1>1, <1>4 DEF TailInv, BufferSorted
<1>6. Coming'
  BY <1>1, <1>4 DEF Coming, MayCome, Size, TailInv
<1>7. KeysRaised' /\ LinesInOrder'
  BY <1>1 DEF TailInv, KeysRaised, LinesInOrder
<1>8. LinesAccounted'
  BY <1>1 DEF TailInv, LinesAccounted, Size, Processed
<1> QED BY <1>1, <1>2, <1>3, <1>5, <1>6, <1>7, <1>8 DEF TailInv

(* The starts, the ends and the openings of the tailer, and the end of the *)
(* file.                                                                   *)
LEMMA StartStep ==
  ASSUME TailInv, NEW c \in BOOLEAN, StartTailer(c), UNCHANGED <<fileOfEve, alertKeys, tailHistory>>
  PROVE  TailInv'
<1>1. tailer' \in Reader /\ tailer'.buffer = <<>> /\ tailer'.fd = 0 /\ tailer'.pos = 0
      /\ tailer'.offset = 0 /\ tailer'.at \in {"down", "open"}
  <2>1. tailer' \in {NoTailer, [NoTailer EXCEPT !.at = "open"]}
    BY DEF StartTailer
  <2>2. [NoTailer EXCEPT !.at = "open"]
          = [at |-> "open", fd |-> 0, pos |-> 0, offset |-> 0, buffer |-> <<>>]
    BY DEF NoTailer
  <2>3. \E a \in {"down", "open"} :
          tailer' = [at |-> a, fd |-> 0, pos |-> 0, offset |-> 0, buffer |-> <<>>]
    BY <2>1, <2>2 DEF NoTailer
  <2>4. <<>> \in Seq(Piece) /\ 0 \in 0..sink
    BY EmptySeq DEF TailInv, Shape
  <2> QED BY <2>3, <2>4 DEF Reader
<1>2. Dropped
  BY <1>1 DEF Dropped, TailInv, Shape
<1> QED BY <1>2, DroppedStep DEF tailHistory, TailInv, Shape

(* The end of the process keeps the invariant: the tailer forgets its      *)
(* file, its position and its buffer.                                      *)
LEMMA EndStep ==
  ASSUME TailInv, TailerGone
  PROVE  TailInv'
<1>1. /\ UNCHANGED fileOfEve /\ UNCHANGED <<processed, raised>> /\ tailer' = NoTailer
      /\ alertKeys' = {} /\ torn' = torn \cup LinesIn(tailer.buffer)
  BY DEF TailerGone
<1>2. tailer' \in Reader /\ tailer'.buffer = <<>> /\ tailer'.fd = 0 /\ tailer'.pos = 0
      /\ tailer'.offset = 0 /\ tailer'.at \in {"down", "open"}
  BY <1>1, EmptySeq DEF NoTailer, Reader, TailInv, Shape
<1>3. Dropped
  BY <1>2 DEF Dropped, TailInv, Shape
<1>4. torn' \subseteq Lines
  BY <1>1, LinesOf DEF TailInv, Shape
<1> QED BY <1>1, <1>3, <1>4, DroppedStep

(* Opening the log at its end keeps the invariant (tailLoop).              *)
LEMMA OpenStep ==
  ASSUME TailInv, OpenEve
  PROVE  TailInv'
<1>1. /\ UNCHANGED fileOfEve /\ UNCHANGED <<processed, raised, alertKeys, torn>> /\ path # 0
      /\ tailer' = [at |-> "wait", fd |-> path, pos |-> Size(path), offset |-> Size(path),
                    buffer |-> <<>>]
      /\ unseen' = unseen \cup LinesIn(eve[path])
      /\ UNCHANGED <<eve, path, sink, written>>
  BY DEF OpenEve, fileOfEve
<1>2. /\ path = sink /\ sink \in 1..sink /\ eve[sink] \in Seq(Piece) /\ Len(eve[sink]) \in Nat
      /\ sink \in Nat /\ Len(eve[sink]) <= 2 * written
  <2>1. path = sink /\ eve \in Seq(Seq(Piece)) /\ sink = Len(eve) /\ sink >= 1
    BY <1>1 DEF TailInv, Shape
  <2>2. sink \in 1..sink /\ sink \in Nat
    BY <2>1
  <2> QED BY <2>1, <2>2, ElementOfSeq, LenProperties DEF TailInv, Sizes
<1>3. /\ tailer' \in Reader /\ tailer'.buffer = <<>> /\ tailer'.fd = sink /\ tailer'.at = "wait"
      /\ tailer'.pos = Len(eve[sink]) /\ tailer'.offset = Len(eve[sink])
  BY <1>1, <1>2, EmptySeq DEF Reader, Size
<1>4. \A f \in 1..sink : \A i \in 1..Len(eve[f]) : ~MayCome(f, i)'
  BY <1>1, <1>2, <1>3 DEF MayCome, Size
<1>5. \A i \in 1..Len(eve[sink]) : eve[sink][i].line \in unseen'
  BY <1>1, <1>2, LinesOf
<1>6. Dropped
  BY <1>2, <1>3, <1>4, <1>5 DEF Dropped
<1> QED BY <1>1, <1>6, DroppedStep DEF TailInv, Shape

(* Opening the log again, at its start, or failing to, keeps the           *)
(* invariant.                                                              *)
LEMMA ReopenStep ==
  ASSUME TailInv, ReopenEve
  PROVE  TailInv'
<1>1. /\ UNCHANGED fileOfEve /\ UNCHANGED <<processed, raised, alertKeys, torn, unseen>>
      /\ UNCHANGED <<eve, path, sink, written>>
      /\ tailer.at = "reopen" /\ tailer.fd # 0
  BY DEF ReopenEve, fileOfEve, tailHistory, TailInv, Shape
<1>2. CASE path = 0
  <2>1. /\ tailer' = [tailer EXCEPT !.at = "closed"] /\ tailer \in Reader
    BY <1>2 DEF ReopenEve, TailInv, Shape, Reader
  <2>2. /\ tailer'.at = "closed" /\ tailer'.fd = tailer.fd /\ tailer'.pos = tailer.pos
        /\ tailer'.offset = tailer.offset /\ tailer'.buffer = tailer.buffer /\ tailer' \in Reader
    BY <2>1 DEF Reader
  <2> QED BY <1>1, <2>2, RestStep DEF tailHistory
<1>3. CASE path # 0
  <2>1. /\ tailer' = [at |-> "wait", fd |-> path, pos |-> 0, offset |-> 0, buffer |-> <<>>]
        /\ path = sink
    BY <1>3 DEF ReopenEve, OffsetAfterReopen, TailInv, Shape
  <2>2. /\ tailer' \in Reader /\ tailer'.buffer = <<>> /\ tailer'.fd = path /\ tailer'.at = "wait"
        /\ tailer'.pos = 0 /\ tailer'.offset = 0
    BY <2>1, EmptySeq DEF Reader, TailInv, Shape
  <2>3. ASSUME NEW f \in 1..sink, NEW i \in 1..Len(eve[f]), MayCome(f, i)'
        PROVE  MayCome(f, i)
    BY <1>1, <2>1, <2>2, <2>3 DEF MayCome, Size, TailInv, Shape
  <2>4. Dropped
    BY <1>1, <1>3, <2>2, <2>3 DEF Dropped, TailInv, Shape
  <2> QED BY <1>1, <2>4, DroppedStep DEF TailInv, Shape
<1> QED BY <1>2, <1>3

(* The wait before a read, and a deduplication key that expires, keep the  *)
(* invariant.                                                              *)
LEMMA RestSteps ==
  ASSUME TailInv, Poll \/ KeyExpires
  PROVE  TailInv'
<1>1. tailer \in Reader
  BY DEF TailInv, Shape, Reader
<1>2. CASE Poll
  <2>1. /\ tailer.at = "wait" /\ tailer' = [tailer EXCEPT !.at = "read"]
        /\ UNCHANGED fileOfEve /\ UNCHANGED tailHistory /\ alertKeys' = alertKeys
    BY <1>2 DEF Poll
  <2>2. /\ tailer'.at = "read" /\ tailer'.fd = tailer.fd /\ tailer'.pos = tailer.pos
        /\ tailer'.offset = tailer.offset /\ tailer'.buffer = tailer.buffer /\ tailer' \in Reader
    BY <1>1, <2>1 DEF Reader
  <2>3. tailer.fd # 0
    BY <2>1 DEF TailInv, Shape
  <2> QED BY <2>1, <2>2, <2>3, RestStep
<1>3. CASE KeyExpires
  <2>1. /\ UNCHANGED <<fileOfEve, tailer, tailHistory>> /\ alertKeys' \subseteq alertKeys
    BY <1>3 DEF KeyExpires
  <2> QED BY <1>1, <2>1, RestStep DEF TailInv, Shape
<1> QED BY <1>2, <1>3

(* The read that meets the end of the file drops what it has of a line,    *)
(* and keeps the invariant.                                                *)
LEMMA EndOfFileStep ==
  ASSUME TailInv, EndOfFile
  PROVE  TailInv'
<1> DEFINE next == IF path # 0 /\ Size(path) < tailer.offset THEN "reopen" ELSE "wait"
<1>1. /\ tailer.at = "read" /\ tailer.pos >= Size(tailer.fd)
      /\ torn' = torn \cup LinesIn(tailer.buffer)
      /\ tailer' = [tailer EXCEPT !.buffer = <<>>, !.at = next]
      /\ UNCHANGED fileOfEve /\ UNCHANGED <<processed, raised, alertKeys, unseen>>
      /\ UNCHANGED <<eve, path, sink, written>>
  BY DEF EndOfFile, fileOfEve
<1>2. tailer \in Reader /\ tailer.fd # 0 /\ path \in {0, sink}
  BY <1>1 DEF TailInv, Shape, Reader
<1>3. next \in {"wait", "reopen"} /\ (next = "reopen" => path # 0 /\ Size(path) < tailer.offset)
  OBVIOUS
<1> HIDE DEF next
<1>4. /\ tailer'.at = next /\ tailer'.fd = tailer.fd /\ tailer'.pos = tailer.pos
      /\ tailer'.offset = tailer.offset /\ tailer'.buffer = <<>>
      /\ tailer' \in Reader
  BY <1>1, <1>2, <1>3, EmptySeq DEF Reader
<1>5. tailer.offset <= tailer.pos /\ tailer.pos <= 2 * written
  <2>1. Len(tailer.buffer) \in Nat /\ tailer.offset \in Nat /\ tailer.pos \in Nat
    BY <1>2, LenProperties DEF Reader
  <2> QED BY <2>1 DEF TailInv, Sizes
<1>6. ASSUME NEW f \in 1..sink, NEW i \in 1..Len(eve[f]), MayCome(f, i)'
      PROVE  MayCome(f, i)
  <2>1. CASE f = tailer.fd /\ tailer'.at = "reopen" /\ path = f
    <3>1. Len(eve[f]) < tailer.offset
      BY <1>3, <1>4, <2>1 DEF Size
    <3>2. Len(eve[f]) \in Nat /\ tailer.offset \in Nat /\ tailer.pos \in Nat
      <4>1. eve[f] \in Seq(Piece)
        BY ElementOfSeq DEF TailInv, Shape
      <4> QED BY <1>2, <4>1, LenProperties DEF Reader
    <3> QED BY <1>5, <2>1, <3>1, <3>2 DEF MayCome, Size
  <2>2. CASE ~(f = tailer.fd /\ tailer'.at = "reopen" /\ path = f)
    BY <1>1, <1>4, <1>6, <2>2 DEF MayCome, Size
  <2> QED BY <2>1, <2>2
<1>7. ASSUME NEW i \in 1..tailer.pos, i <= Len(eve[tailer.fd]), eve[tailer.fd][i].half = 2
      PROVE  eve[tailer.fd][i].line \in Processed \cup torn' \cup unseen
  BY <1>1, <1>2, <1>7 DEF TailInv, LinesAccounted, Size
<1>8. Dropped
  <2>1. \A f \in 1..sink : \A i \in 1..Len(eve[f]) : MayCome(f, i)' => MayCome(f, i)
    BY <1>6
  <2>2. \A i \in 1..tailer.pos :
          i <= Len(eve[tailer.fd]) /\ eve[tailer.fd][i].half = 2 =>
            eve[tailer.fd][i].line \in Processed \cup torn' \cup unseen
    BY <1>7
  <2> QED BY <1>1, <1>2, <1>4, <1>5, <2>1, <2>2 DEF Dropped
<1>9. torn' \subseteq Lines
  BY <1>1, <1>2, LinesOf DEF TailInv, Shape, Reader
<1> QED BY <1>1, <1>8, <1>9, DroppedStep

(* Reading on: what comes into the buffer was to come, in its order.       *)
LEMMA FillStep ==
  ASSUME TailInv, FillBuffer
  PROVE  TailInv'
<1> DEFINE s == SubSeq(eve[tailer.fd], tailer.pos + 1, Size(tailer.fd))
           u == tailer.buffer
<1>1. /\ tailer.at = "read" /\ tailer.pos < Len(eve[tailer.fd])
      /\ tailer' = [tailer EXCEPT !.buffer = u \o s, !.pos = Len(eve[tailer.fd])]
      /\ UNCHANGED fileOfEve
      /\ UNCHANGED <<alertKeys, processed, raised, torn, unseen>>
      /\ UNCHANGED <<eve, path, sink, written>>
  BY DEF FillBuffer, fileOfEve, tailHistory, Size
<1>2. /\ tailer \in Reader /\ tailer.fd \in 1..sink /\ tailer.pos \in Nat /\ u \in Seq(Piece)
      /\ Len(u) \in Nat /\ tailer.offset \in Nat
      /\ eve[tailer.fd] \in Seq(Piece) /\ Len(eve[tailer.fd]) \in Nat
  <2>1. /\ tailer \in Reader /\ tailer.fd \in 1..sink /\ tailer.pos \in Nat /\ u \in Seq(Piece)
        /\ eve \in Seq(Seq(Piece)) /\ sink = Len(eve) /\ tailer.offset \in Nat
    BY <1>1 DEF TailInv, Shape, Reader
  <2> QED BY <2>1, ElementOfSeq, LenProperties
<1>3. PICK n \in Nat, e \in Seq(Piece) : n = tailer.pos /\ e = eve[tailer.fd]
  BY <1>2
<1>4. /\ s \in Seq(Piece) /\ Len(s) = Len(e) - n
      /\ \A k \in 1..Len(s) : s[k] = e[n + k] /\ n + k \in 1..Len(e)
  <2>1. s = SubSeq(e, n + 1, Len(e)) /\ Len(e) \in Nat /\ n < Len(e)
    BY <1>1, <1>2, <1>3 DEF Size
  <2> HIDE DEF s
  <2>2. \A i \in (n + 1)..Len(e) : e[i] \in Piece
    BY <2>1, ElementOfSeq
  <2>3. /\ s \in Seq(Piece) /\ Len(s) = Len(e) - (n + 1) + 1
        /\ \A k \in 1..(Len(e) - (n + 1) + 1) : s[k] = e[(n + 1) + k - 1]
    BY <2>1, <2>2, SubSeqProperties
  <2>4. Len(s) = Len(e) - n
    BY <2>1, <2>3
  <2>5. \A k \in 1..Len(s) : (n + 1) + k - 1 = n + k /\ n + k \in 1..Len(e)
    BY <2>1, <2>4
  <2> QED BY <2>1, <2>3, <2>4, <2>5
<1> HIDE DEF s
<1>5. AddedTo(u \o s, u, s) /\ u \o s \in Seq(Piece)
  BY <1>2, <1>4, Added
<1> HIDE DEF u
<1>6. /\ tailer'.at = "read" /\ tailer'.fd = tailer.fd /\ tailer'.pos = Len(e)
      /\ tailer'.offset = tailer.offset /\ tailer'.buffer = u \o s /\ tailer' \in Reader
  BY <1>1, <1>2, <1>3, <1>5 DEF Reader
<1>7. PICK w \in Seq(Piece) : w = tailer'.buffer /\ AddedTo(w, u, s)
  BY <1>5, <1>6
<1>8. /\ FilesSorted' /\ Top' = Top
      /\ (\A f \in 1..sink : Len(eve[f]) <= 2 * written)'
      /\ Midway' => Len(eve'[sink']) <= 2 * written' - 1
  BY <1>1, FilesUntouched
<1>9. \A k \in 1..Len(s) : /\ Rank(s[k]) \in Nat /\ Rank(s[k]) <= Top
                           /\ \A t \in Taken : t < Rank(s[k])
  <2> TAKE k \in 1..Len(s)
  <2>1. s[k] = e[n + k] /\ n + k \in 1..Len(e) /\ n + k > n
    BY <1>4
  <2>2. MayCome(tailer.fd, n + k)
    BY <1>3, <2>1 DEF MayCome
  <2>3. \A t \in Taken : t < Rank(e[n + k])
    <3>1. tailer.fd # 0 => \A f \in 1..sink : \A i \in 1..Len(eve[f]) :
            MayCome(f, i) => \A t \in Taken : t < Rank(eve[f][i])
      BY DEF TailInv, Coming
    <3> QED BY <1>2, <1>3, <2>1, <2>2, <3>1
  <2>4. e[n + k] \in Piece /\ Rank(e[n + k]) <= Top
    BY <1>2, <1>3, <2>1, ElementOfSeq DEF TailInv, FilesSorted
  <2> QED BY <2>1, <2>3, <2>4, RankType
<1>10. \A k, l \in 1..Len(s) : k < l => Rank(s[k]) < Rank(s[l])
  <2> SUFFICES ASSUME NEW k \in 1..Len(s), NEW l \in 1..Len(s), k < l
               PROVE  Rank(s[k]) < Rank(s[l])
    OBVIOUS
  <2>1. /\ s[k] = e[n + k] /\ s[l] = e[n + l] /\ n + k \in 1..Len(e) /\ n + l \in 1..Len(e)
        /\ n + k < n + l
    BY <1>4
  <2>2. Increasing(e)
    BY <1>2, <1>3 DEF TailInv, FilesSorted
  <2> QED BY <2>1, <2>2 DEF Increasing
<1>11. \A i \in 1..Len(u) : Rank(u[i]) \in Taken /\ Rank(u[i]) \in Nat
  BY <1>2, RankType, ElementOfSeq DEF Taken, u
<1>12. \A t \in Taken' : t \in Taken \/ \E k \in 1..Len(s) : t = Rank(s[k])
  <2> TAKE t \in Taken'
  <2>1. CASE \E i \in 1..Len(w) : t = Rank(w[i])
    <3>1. PICK i \in 1..Len(w) : t = Rank(w[i])
      BY <2>1
    <3>2. CASE i \in 1..Len(u)
      BY <1>7, <1>11, <3>1, <3>2 DEF AddedTo
    <3>3. CASE i \notin 1..Len(u)
      BY <1>7, <3>1, <3>3 DEF AddedTo
    <3> QED BY <3>2, <3>3
  <2>2. CASE \E j \in 1..Len(processed) : t = 2 * processed[j] + 2
    BY <2>2 DEF Taken
  <2> QED BY <1>1, <1>7, <2>1, <2>2 DEF Taken
<1>13. \A t \in Taken : t <= Top
  BY DEF TailInv, BufferSorted
<1>14. Shape'
  BY <1>1, <1>2, <1>6 DEF TailInv, Shape, Reader, Processed
<1>15. Sizes'
  <2>1. Len(w) = Len(u) + Len(s) /\ Len(s) = Len(e) - n
    BY <1>4, <1>7 DEF AddedTo
  <2>2. tailer.offset + Len(u) <= n /\ Len(e) \in Nat /\ Len(e) <= 2 * written
    BY <1>2, <1>3 DEF TailInv, Sizes, u
  <2>3. tailer.offset + Len(w) <= Len(e)
    BY <1>2, <2>1, <2>2
  <2> QED BY <1>1, <1>6, <1>7, <1>8, <2>2, <2>3 DEF Sizes
<1>16. BufferSorted'
  <2>1. Increasing(w)
    <3> SUFFICES ASSUME NEW i \in 1..Len(w), NEW j \in 1..Len(w), i < j
                 PROVE  Rank(w[i]) < Rank(w[j])
      BY DEF Increasing
    <3>1. CASE j \in 1..Len(u)
      <4>1. i \in 1..Len(u) /\ w[i] = u[i] /\ w[j] = u[j]
        BY <1>2, <1>7, <3>1 DEF AddedTo
      <4>2. Increasing(u)
        BY DEF TailInv, BufferSorted, u
      <4> QED BY <3>1, <4>1, <4>2 DEF Increasing
    <3>2. CASE i \in 1..Len(u) /\ j \notin 1..Len(u)
      <4>1. PICK k \in 1..Len(s) : w[j] = s[k]
        BY <1>7, <3>2 DEF AddedTo
      <4> QED BY <1>7, <1>9, <1>11, <3>2, <4>1 DEF AddedTo
    <3>3. CASE i \notin 1..Len(u) /\ j \notin 1..Len(u)
      <4>1. PICK k \in 1..Len(s) : i = Len(u) + k /\ w[i] = s[k]
        BY <1>7, <3>3 DEF AddedTo
      <4>2. PICK l \in 1..Len(s) : j = Len(u) + l /\ w[j] = s[l]
        BY <1>7, <3>3 DEF AddedTo
      <4>3. k < l
        BY <1>2, <4>1, <4>2
      <4> QED BY <1>10, <4>1, <4>2, <4>3
    <3>4. Len(w) \in Nat
      BY <1>7, LenProperties
    <3> QED BY <1>2, <3>1, <3>2, <3>3, <3>4
  <2>2. ASSUME NEW i \in 1..Len(w), NEW j \in 1..Len(processed)
        PROVE  2 * processed[j] + 2 < Rank(w[i])
    <3>1. CASE i \in 1..Len(u)
      <4>1. w[i] = u[i]
        BY <1>7, <3>1 DEF AddedTo
      <4> QED BY <3>1, <4>1 DEF TailInv, BufferSorted, u
    <3>2. CASE i \notin 1..Len(u)
      <4>1. PICK k \in 1..Len(s) : w[i] = s[k]
        BY <1>7, <3>2 DEF AddedTo
      <4>2. 2 * processed[j] + 2 \in Taken
        BY DEF Taken
      <4> QED BY <1>9, <4>1, <4>2
    <3> QED BY <3>1, <3>2
  <2>3. \A t \in Taken' : t <= Top
    BY <1>9, <1>12, <1>13
  <2> QED BY <1>1, <1>7, <1>8, <2>1, <2>2, <2>3 DEF BufferSorted
<1>17. Coming'
  <2> SUFFICES ASSUME NEW f \in 1..sink, NEW i \in 1..Len(eve[f]), MayCome(f, i)',
                      NEW t \in Taken'
               PROVE  t < Rank(eve[f][i])
    BY <1>1 DEF Coming
  <2>1. f > tailer.fd
    BY <1>1, <1>2, <1>3, <1>6 DEF MayCome, Size
  <2>2. MayCome(f, i)
    BY <2>1 DEF MayCome
  <2>3. CASE t \in Taken
    BY <1>2, <2>2, <2>3 DEF TailInv, Coming
  <2>4. CASE \E k \in 1..Len(s) : t = Rank(s[k])
    <3>1. PICK k \in 1..Len(s) : t = Rank(e[n + k]) /\ n + k \in 1..Len(e)
      BY <1>4, <2>4
    <3> QED BY <1>2, <1>3, <2>1, <3>1 DEF TailInv, FilesSorted
  <2> QED BY <1>12, <2>3, <2>4
<1>18. KeysRaised' /\ LinesInOrder'
  BY <1>1 DEF TailInv, KeysRaised, LinesInOrder
<1>19. LinesAccounted'
  <2>1. ASSUME NEW i \in 1..Len(e), e[i].half = 2
        PROVE  e[i].line \in Processed \cup LinesIn(w) \cup torn \cup unseen
    <3>1. CASE i \in 1..n
      <4>1. e[i].line \in Processed \cup LinesIn(u) \cup torn \cup unseen
        BY <1>2, <1>3, <2>1, <3>1 DEF TailInv, LinesAccounted, Size, u
      <4>2. LinesIn(u) \subseteq LinesIn(w)
        BY <1>7 DEF LinesIn, AddedTo
      <4> QED BY <4>1, <4>2
    <3>2. CASE i \notin 1..n
      <4>1. i - n \in 1..Len(s) /\ n + (i - n) = i
        <5>1. Len(e) \in Nat /\ Len(s) = Len(e) - n
          BY <1>2, <1>3, <1>4
        <5> QED BY <5>1, <3>2
      <4>2. s[i - n] = e[i]
        BY <1>4, <4>1
      <4>3. Len(u) + (i - n) \in 1..Len(w) /\ w[Len(u) + (i - n)] = e[i]
        BY <1>7, <4>1, <4>2 DEF AddedTo
      <4> QED BY <4>3 DEF LinesIn
    <3> QED BY <3>1, <3>2
  <2> QED BY <1>1, <1>3, <1>6, <1>7, <2>1 DEF TailInv, LinesAccounted, Size, Processed
<1> QED BY <1>8, <1>14, <1>15, <1>16, <1>17, <1>18, <1>19 DEF TailInv

(* Taking a line: it comes after the lines processed before, and before    *)
(* what is left in the buffer.                                             *)
LEMMA ReadStep ==
  ASSUME TailInv, ReadLine
  PROVE  TailInv'
<1> DEFINE u == tailer.buffer
           m == Min(Ends)
           w == SubSeq(u, m + 1, Len(u))
           first == SubSeq(u, 1, m)
<1>1. /\ tailer.at = "read" /\ Ends # {}
      /\ tailer' = [tailer EXCEPT !.buffer = w, !.offset = tailer.offset + m]
      /\ UNCHANGED fileOfEve /\ unseen' = unseen
      /\ UNCHANGED <<eve, path, sink, written>>
  BY DEF ReadLine, fileOfEve, FullLine
<1>2. /\ tailer \in Reader /\ tailer.fd \in 1..sink /\ tailer.pos \in Nat /\ u \in Seq(Piece)
      /\ Len(u) \in Nat /\ tailer.offset \in Nat /\ DOMAIN u = 1..Len(u)
      /\ processed \in Seq(Lines) /\ Len(processed) \in Nat /\ Lines \subseteq Nat
      /\ DOMAIN processed = 1..Len(processed)
  <2>1. /\ tailer \in Reader /\ tailer.fd \in 1..sink /\ tailer.pos \in Nat /\ u \in Seq(Piece)
        /\ processed \in Seq(Lines) /\ Lines \subseteq Nat /\ tailer.offset \in Nat
    BY <1>1 DEF TailInv, Shape, Reader, Lines
  <2> QED BY <2>1, LenProperties
<1>3. m \in 1..Len(u)
  <2>1. Ends \subseteq 1..Len(u) /\ Ends \in SUBSET Nat
    BY <1>2 DEF Ends
  <2> QED BY <1>1, <2>1, Least
<1>4. /\ w \in Seq(Piece) /\ Len(w) = Len(u) - m
      /\ \A i \in 1..Len(w) : w[i] = u[m + i] /\ m + i \in 1..Len(u)
  <2> DEFINE l == Len(u)
  <2>1. m \in Nat /\ l \in Nat /\ m <= l
    BY <1>2, <1>3
  <2> HIDE DEF m
  <2>2. \A i \in (m + 1)..l : u[i] \in Piece
    BY <1>2, <2>1, ElementOfSeq
  <2>3. /\ w \in Seq(Piece) /\ Len(w) = IF m + 1 <= l THEN l - (m + 1) + 1 ELSE 0
        /\ \A i \in 1..(l - (m + 1) + 1) : w[i] = u[(m + 1) + i - 1]
    BY <2>1, <2>2, SubSeqProperties
  <2>4. Len(w) = l - m
    BY <2>1, <2>3
  <2>5. \A i \in 1..(l - m) : (m + 1) + i - 1 = m + i /\ m + i \in 1..l /\ i \in 1..(l - (m + 1) + 1)
    BY <2>1
  <2> QED BY <2>3, <2>4, <2>5
<1>5. /\ first \in Seq(Piece) /\ Len(first) = m
      /\ \A i \in 1..m : first[i] = u[i] /\ i \in 1..Len(u)
  <2>1. m \in Nat /\ m >= 1 /\ Len(u) \in Nat /\ m <= Len(u)
    BY <1>2, <1>3
  <2> HIDE DEF m
  <2>2. \A i \in 1..m : u[i] \in Piece
    BY <1>2, <2>1, ElementOfSeq
  <2>3. /\ first \in Seq(Piece) /\ Len(first) = m - 1 + 1
        /\ \A i \in 1..(m - 1 + 1) : first[i] = u[1 + i - 1]
    BY <2>1, <2>2, SubSeqProperties
  <2>4. m - 1 + 1 = m /\ \A i \in 1..m : 1 + i - 1 = i /\ i \in 1..Len(u)
    BY <2>1
  <2> QED BY <2>3, <2>4
<1>6. /\ \A i \in 1..Len(u) : Rank(u[i]) \in Taken /\ Rank(u[i]) \in Nat
      /\ \A i, j \in 1..Len(u) : i < j => Rank(u[i]) < Rank(u[j])
      /\ \A i \in 1..Len(u), j \in 1..Len(processed) : 2 * processed[j] + 2 < Rank(u[i])
  BY <1>2, RankType, ElementOfSeq DEF Taken, TailInv, BufferSorted, Increasing
<1>7. \/ \E l \in Lines :
           /\ m = 2 /\ u[1] = Half(l, 1) /\ u[2] = Half(l, 2)
           /\ Rank(u[1]) = 2 * l + 1 /\ Rank(u[2]) = 2 * l + 2
           /\ LinesIn(first) = {l} /\ ProcessLine(l) /\ torn' = torn
      \/ /\ torn' = torn \cup LinesIn(first)
         /\ UNCHANGED <<processed, alertKeys, raised>>
  <2>1. CASE /\ Whole(first) /\ ProcessLine(first[1].line) /\ torn' = torn
    <3>1. PICK l \in Lines : first = <<Half(l, 1), Half(l, 2)>>
      BY <2>1 DEF Whole
    <3> HIDE DEF first
    <3>2. Len(first) = 2 /\ first[1] = Half(l, 1) /\ first[2] = Half(l, 2)
      BY <3>1
    <3>3. m = 2
      BY <1>5, <3>2
    <3>4. u[1] = Half(l, 1) /\ u[2] = Half(l, 2)
      BY <1>5, <3>2, <3>3
    <3>5. first[1].line = l /\ first[2].line = l
      BY <3>2 DEF Half
    <3>6. LinesIn(first) = {l}
      <4>1. \A i \in 1..2 : i = 1 \/ i = 2
        OBVIOUS
      <4>2. LinesIn(first) = {first[i].line : i \in 1..2}
        BY <3>2 DEF LinesIn
      <4> QED BY <3>5, <4>1, <4>2
    <3>7. Rank(u[1]) = 2 * l + 1 /\ Rank(u[2]) = 2 * l + 2
      BY <3>4, RankType
    <3>8. ProcessLine(l)
      BY <2>1, <3>5
    <3> QED BY <2>1, <3>3, <3>4, <3>6, <3>7, <3>8
  <2>2. CASE torn' = torn \cup LinesIn(first) /\ UNCHANGED <<processed, alertKeys, raised>>
    BY <2>2
  <2>3. \/ Whole(FirstLine) /\ ProcessLine(FirstLine[1].line) /\ torn' = torn
        \/ torn' = torn \cup LinesIn(FirstLine) /\ UNCHANGED <<processed, alertKeys, raised>>
    BY DEF ReadLine
  <2>4. first = FirstLine
    BY DEF FirstLine
  <2> QED BY <2>1, <2>2, <2>3, <2>4
<1> HIDE DEF w, first, m, u
<1>8. /\ tailer'.at = "read" /\ tailer'.fd = tailer.fd /\ tailer'.pos = tailer.pos
      /\ tailer'.offset = tailer.offset + m /\ tailer'.buffer = w /\ tailer' \in Reader
  <2>1. tailer.offset + m \in Nat
    BY <1>2, <1>3
  <2> QED BY <1>1, <1>2, <1>4, <2>1 DEF Reader
<1>9. /\ FilesSorted' /\ Top' = Top
      /\ (\A f \in 1..sink : Len(eve[f]) <= 2 * written)'
      /\ Midway' => Len(eve'[sink']) <= 2 * written' - 1
  BY <1>1, FilesUntouched
<1>10. /\ processed' \in Seq(Lines) /\ Len(processed') >= Len(processed) /\ Len(processed') \in Nat
       /\ \A j \in 1..Len(processed) : processed'[j] = processed[j] /\ j \in 1..Len(processed')
       /\ \A j \in 1..Len(processed') : j \notin 1..Len(processed) =>
            /\ j = Len(processed) + 1 /\ m = 2 /\ 2 * processed'[j] + 2 = Rank(u[2])
            /\ Rank(u[1]) = 2 * processed'[j] + 1 /\ processed'[j] \in Lines
            /\ raised' = (IF Alerting(processed'[j]) THEN raised \cup {processed'[j]} ELSE raised)
            /\ alertKeys' = (IF Alerting(processed'[j]) THEN alertKeys \cup {AlertOf[processed'[j]]}
                             ELSE alertKeys)
       /\ Len(processed') = Len(processed) => raised' = raised /\ alertKeys' = alertKeys
  <2>1. CASE UNCHANGED <<processed, alertKeys, raised>>
    BY <1>2, <2>1
  <2>2. CASE \E l \in Lines :
               /\ m = 2 /\ Rank(u[1]) = 2 * l + 1 /\ Rank(u[2]) = 2 * l + 2 /\ ProcessLine(l)
    <3>1. PICK l \in Lines : /\ m = 2 /\ Rank(u[1]) = 2 * l + 1 /\ Rank(u[2]) = 2 * l + 2
                             /\ ProcessLine(l)
      BY <2>2
    <3>2. /\ processed' = Append(processed, l)
          /\ alertKeys' = IF Alerting(l) THEN alertKeys \cup {AlertOf[l]} ELSE alertKeys
          /\ raised' = IF Alerting(l) THEN raised \cup {l} ELSE raised
      BY <3>1 DEF ProcessLine
    <3>3. /\ processed' \in Seq(Lines) /\ Len(processed') = Len(processed) + 1
          /\ \A j \in 1..Len(processed) : processed'[j] = processed[j]
          /\ processed'[Len(processed) + 1] = l
      BY <1>2, <3>2, AppendProperties
    <3>4. \A j \in 1..Len(processed') : j \notin 1..Len(processed) => j = Len(processed) + 1
      BY <1>2, <3>3
    <3>5. \A j \in 1..Len(processed) : j \in 1..Len(processed')
      BY <1>2, <3>3
    <3>6. Len(processed') \in Nat /\ Len(processed') >= Len(processed) /\ Len(processed') # Len(processed)
      <4>1. Len(processed) \in Nat /\ Len(processed') = Len(processed) + 1
        BY <1>2, <3>3
      <4> QED BY <4>1
    <3> QED BY <3>1, <3>2, <3>3, <3>4, <3>5, <3>6
  <2> QED BY <1>7, <2>1, <2>2
<1>11. Processed' = {processed'[j] : j \in 1..Len(processed')} /\ Processed \subseteq Processed'
       /\ Processed = {processed[j] : j \in 1..Len(processed)}
  <2>1. DOMAIN processed' = 1..Len(processed')
    BY <1>10, LenProperties
  <2>2. /\ Processed' = {processed'[j] : j \in 1..Len(processed')}
        /\ Processed = {processed[j] : j \in 1..Len(processed)}
    BY <1>2, <2>1 DEF Processed
  <2> QED BY <1>10, <2>2
<1>12. Taken' \subseteq Taken
  <2> SUFFICES ASSUME NEW t \in Taken' PROVE t \in Taken
    OBVIOUS
  <2>1. CASE \E i \in 1..Len(w) : t = Rank(w[i])
    BY <1>4, <1>6, <2>1
  <2>2. CASE \E j \in 1..Len(processed') : t = 2 * processed'[j] + 2
    <3>1. PICK j \in 1..Len(processed') : t = 2 * processed'[j] + 2
      BY <2>2
    <3>2. CASE j \in 1..Len(processed)
      BY <1>10, <3>1, <3>2 DEF Taken
    <3>3. CASE j \notin 1..Len(processed)
      <4>1. m = 2 /\ t = Rank(u[2])
        BY <1>10, <3>1, <3>3
      <4>2. 2 \in 1..Len(u)
        BY <1>2, <1>3, <4>1
      <4> QED BY <1>6, <4>1, <4>2
    <3> QED BY <3>2, <3>3
  <2> QED BY <1>8, <2>1, <2>2 DEF Taken
<1>13. Shape'
  <2>1. raised' \subseteq Processed'
    <3>1. raised \subseteq Processed
      BY DEF TailInv, Shape
    <3>2. \A j \in 1..Len(processed') : processed'[j] \in Processed'
      BY <1>11
    <3>3. CASE Len(processed') = Len(processed)
      BY <1>10, <1>11, <3>1, <3>3
    <3>4. CASE Len(processed') # Len(processed)
      <4>1. PICK j \in 1..Len(processed') : j \notin 1..Len(processed)
        BY <1>2, <1>10, <3>4
      <4> QED BY <1>10, <1>11, <3>1, <3>2, <4>1
    <3> QED BY <3>3, <3>4
  <2>2. torn' \subseteq Lines
    BY <1>5, <1>7, LinesOf DEF TailInv, Shape
  <2> QED BY <1>1, <1>2, <1>8, <1>10, <2>1, <2>2 DEF TailInv, Shape, Reader
<1>14. Sizes'
  <2>1. Len(w) = Len(u) - m /\ m \in Nat
    BY <1>2, <1>3, <1>4
  <2>2. tailer.offset + Len(u) <= tailer.pos
    BY DEF TailInv, Sizes, u
  <2>3. tailer.offset + m + Len(w) <= tailer.pos
    BY <1>2, <2>1, <2>2
  <2> QED BY <1>1, <1>8, <1>9, <2>3 DEF TailInv, Sizes
<1>15. BufferSorted'
  <2>1. Increasing(w)
    <3> SUFFICES ASSUME NEW i \in 1..Len(w), NEW j \in 1..Len(w), i < j
                 PROVE  Rank(w[i]) < Rank(w[j])
      BY DEF Increasing
    <3>1. m + i < m + j
      BY <1>2, <1>3
    <3> QED BY <1>4, <1>6, <3>1
  <2>2. ASSUME NEW i \in 1..Len(w), NEW j \in 1..Len(processed')
        PROVE  2 * processed'[j] + 2 < Rank(w[i])
    <3>1. w[i] = u[m + i] /\ m + i \in 1..Len(u)
      BY <1>4
    <3>2. CASE j \in 1..Len(processed)
      BY <1>6, <1>10, <3>1, <3>2
    <3>3. CASE j \notin 1..Len(processed)
      <4>1. m = 2 /\ 2 * processed'[j] + 2 = Rank(u[2])
        BY <1>10, <3>3
      <4>2. 2 \in 1..Len(u) /\ 2 < m + i
        BY <1>2, <1>3, <4>1
      <4> QED BY <1>6, <3>1, <4>1, <4>2
    <3> QED BY <3>2, <3>3
  <2>3. \A t \in Taken' : t <= Top'
    BY <1>9, <1>12 DEF TailInv, BufferSorted
  <2> QED BY <1>8, <2>1, <2>2, <2>3 DEF BufferSorted
<1>16. Coming'
  <2> SUFFICES ASSUME NEW f \in 1..sink, NEW i \in 1..Len(eve[f]), MayCome(f, i)', NEW t \in Taken'
               PROVE  t < Rank(eve[f][i])
    BY <1>1 DEF Coming
  <2>1. MayCome(f, i)
    BY <1>1, <1>8 DEF MayCome, Size
  <2> QED BY <1>2, <1>12, <2>1 DEF TailInv, Coming
<1>17. LinesInOrder'
  <2> SUFFICES ASSUME NEW i \in 1..Len(processed'), NEW j \in 1..Len(processed'), i < j
               PROVE  processed'[i] < processed'[j]
    <3>1. DOMAIN processed' = 1..Len(processed')
      BY <1>10, LenProperties
    <3> QED BY <3>1 DEF LinesInOrder
  <2>1. CASE j \in 1..Len(processed)
    <3>1. i \in 1..Len(processed) /\ i \in DOMAIN processed /\ j \in DOMAIN processed
      BY <1>2, <2>1
    <3> QED BY <1>10, <2>1, <3>1 DEF TailInv, LinesInOrder
  <2>2. CASE j \notin 1..Len(processed)
    <3>1. /\ j = Len(processed) + 1 /\ m = 2 /\ Rank(u[1]) = 2 * processed'[j] + 1
          /\ processed'[j] \in Nat
      BY <1>2, <1>10, <2>2
    <3>2. i \in 1..Len(processed) /\ 1 \in 1..Len(u)
      BY <1>2, <1>3, <3>1
    <3>3. processed'[i] = processed[i] /\ processed[i] \in Nat
      BY <1>2, <1>10, <3>2, ElementOfSeq
    <3>4. 2 * processed[i] + 2 < Rank(u[1])
      BY <1>6, <3>2
    <3> QED BY <3>1, <3>3, <3>4
  <2> QED BY <2>1, <2>2
<1>18. /\ raised \subseteq raised'
       /\ \A j \in 1..Len(processed') : j \notin 1..Len(processed) =>
            \/ processed'[j] \in raised' /\ alertKeys' = alertKeys \cup {AlertOf[processed'[j]]}
            \/ /\ AlertOf[processed'[j]] = NoAlert \/ AlertOf[processed'[j]] \in alertKeys
               /\ alertKeys' = alertKeys
  <2>1. CASE Len(processed') = Len(processed)
    BY <1>10, <2>1
  <2>2. CASE Len(processed') # Len(processed)
    <3>1. PICK j \in 1..Len(processed') : j \notin 1..Len(processed)
      BY <1>2, <1>10, <2>2
    <3>2. \A i \in 1..Len(processed') : i \notin 1..Len(processed) => i = j
      BY <1>10, <3>1
    <3> QED BY <1>10, <3>1, <3>2 DEF Alerting
  <2> QED BY <2>1, <2>2
<1>19. KeysRaised'
  <2> SUFFICES ASSUME NEW k \in alertKeys'
               PROVE  \E j \in 1..Len(processed') : processed'[j] \in raised' /\ AlertOf[processed'[j]] = k
    BY DEF KeysRaised
  <2>1. CASE k \in alertKeys
    <3>1. PICK j \in 1..Len(processed) : processed[j] \in raised /\ AlertOf[processed[j]] = k
      BY <2>1 DEF TailInv, KeysRaised
    <3> QED BY <1>10, <1>18, <3>1
  <2>2. CASE k \notin alertKeys
    <3>1. Len(processed') # Len(processed)
      BY <1>10, <2>2
    <3>2. PICK j \in 1..Len(processed') : j \notin 1..Len(processed)
      BY <1>2, <1>10, <3>1
    <3> QED BY <1>18, <2>2, <3>2
  <2> QED BY <2>1, <2>2
<1>20. LinesAccounted'
  <2>1. ASSUME NEW i \in 1..tailer.pos, i <= Len(eve[tailer.fd]), eve[tailer.fd][i].half = 2
        PROVE  eve[tailer.fd][i].line \in Processed' \cup LinesIn(w) \cup torn' \cup unseen
    <3> DEFINE l == eve[tailer.fd][i].line
    <3>1. l \in Processed \cup LinesIn(u) \cup torn \cup unseen
      BY <1>2, <2>1 DEF TailInv, LinesAccounted, Size, u
    <3> HIDE DEF l
    <3>2. torn \subseteq torn'
      BY <1>7
    <3>3. CASE l \in LinesIn(u)
      <4>1. PICK k \in 1..Len(u) : l = u[k].line
        BY <3>3 DEF LinesIn
      <4>2. CASE k \in 1..m
        <5>1. l \in LinesIn(first)
          BY <1>5, <4>1, <4>2 DEF LinesIn
        <5>2. ASSUME torn' = torn \cup LinesIn(first) PROVE l \in torn'
          BY <5>1, <5>2
        <5>3. ASSUME ProcessLine(l) PROVE l \in Processed'
          <6>1. processed' = Append(processed, l) /\ l \in Lines
            BY <1>7, <5>1, <5>3, <1>5, LinesOf DEF ProcessLine
          <6>2. /\ Len(processed') = Len(processed) + 1
                /\ processed'[Len(processed) + 1] = l
            BY <1>2, <6>1, AppendProperties
          <6>3. Len(processed) + 1 \in 1..Len(processed')
            BY <1>2, <6>2
          <6> QED BY <1>11, <6>2, <6>3
        <5> QED BY <1>7, <5>1, <5>2, <5>3 DEF l
      <4>3. CASE k \notin 1..m
        <5>1. k - m \in 1..Len(w) /\ m + (k - m) = k
          BY <1>2, <1>3, <1>4, <4>1, <4>3
        <5>2. w[k - m].line = l
          BY <1>4, <4>1, <5>1
        <5>3. l \in LinesIn(w)
          BY <5>1, <5>2 DEF LinesIn
        <5> QED BY <5>3 DEF l
      <4> QED BY <4>2, <4>3
    <3> QED BY <1>11, <3>1, <3>2, <3>3 DEF l
  <2>2. ASSUME NEW i \in 1..Len(processed'), AlertOf[processed'[i]] # NoAlert
        PROVE  \E j \in 1..i : /\ processed'[j] \in raised'
                               /\ AlertOf[processed'[j]] = AlertOf[processed'[i]]
    <3>1. CASE i \in 1..Len(processed)
      <4>1. processed'[i] = processed[i] /\ i \in DOMAIN processed
        BY <1>2, <1>10, <3>1
      <4>2. PICK j \in 1..i : /\ processed[j] \in raised
                              /\ AlertOf[processed[j]] = AlertOf[processed[i]]
        BY <2>2, <4>1 DEF TailInv, LinesAccounted
      <4>3. j \in 1..Len(processed)
        BY <1>2, <3>1
      <4> QED BY <1>10, <1>18, <4>1, <4>2, <4>3
    <3>2. CASE i \notin 1..Len(processed)
      <4>1. i = Len(processed) + 1 /\ i \in 1..i
        BY <1>2, <1>10, <3>2
      <4>2. CASE processed'[i] \in raised'
        BY <4>1, <4>2
      <4>3. CASE AlertOf[processed'[i]] \in alertKeys
        <5>1. PICK j \in 1..Len(processed) :
                /\ processed[j] \in raised /\ AlertOf[processed[j]] = AlertOf[processed'[i]]
          BY <4>3 DEF TailInv, KeysRaised
        <5>2. j \in 1..i
          BY <1>2, <4>1
        <5> QED BY <1>10, <1>18, <5>1, <5>2
      <4> QED BY <1>18, <2>2, <3>2, <4>2, <4>3
    <3> QED BY <3>1, <3>2
  <2>3. DOMAIN processed' = 1..Len(processed')
    BY <1>10, LenProperties
  <2> QED BY <1>1, <1>8, <2>1, <2>2, <2>3 DEF LinesAccounted, Size
<1> QED BY <1>9, <1>13, <1>14, <1>15, <1>16, <1>17, <1>19, <1>20 DEF TailInv

-------------------------------------------------------------------------------
(* The invariant at the start, and what it says about a tailer's position. *)
LEMMA TailStarts ==
  ASSUME TailInit
  PROVE  TailInv
<1>1. /\ eve = << <<>> >> /\ path = 1 /\ sink = 1 /\ written = 0 /\ tailer = NoTailer
      /\ alertKeys = {} /\ processed = <<>> /\ raised = {} /\ torn = {} /\ unseen = {}
  BY DEF TailInit
<1>2. /\ eve \in Seq(Seq(Piece)) /\ Len(eve) = 1 /\ eve[1] = <<>> /\ Len(eve[1]) = 0
  <2>1. <<>> \in Seq(Piece) /\ Len(<<>>) = 0
    BY EmptySeq
  <2> QED BY <1>1, <2>1
<1>3. /\ tailer \in Reader /\ tailer.buffer = <<>> /\ tailer.fd = 0 /\ tailer.pos = 0
      /\ tailer.offset = 0 /\ tailer.at = "down" /\ Len(tailer.buffer) = 0
      /\ tailer.buffer \in Seq(Piece)
  BY <1>1, EmptySeq DEF NoTailer, Reader
<1>4. Len(processed) = 0 /\ processed \in Seq(Lines) /\ DOMAIN processed = {}
  BY <1>1, EmptySeq
<1>5. ~Midway /\ Top = 2
  BY <1>1, <1>2 DEF Midway, Size, Top
<1>6. Shape
  BY <1>1, <1>2, <1>3, <1>4, LineAssumption DEF Shape, Reader
<1>7. FilesSorted
  BY <1>1, <1>2, <1>5 DEF FilesSorted, Increasing
<1>8. Sizes
  BY <1>1, <1>2, <1>3, <1>5 DEF Sizes
<1>9. Taken = {}
  BY <1>3, <1>4 DEF Taken
<1>10. BufferSorted /\ Coming
  BY <1>3, <1>9 DEF BufferSorted, Increasing, Coming
<1>11. KeysRaised /\ LinesInOrder /\ LinesAccounted
  BY <1>1, <1>3, <1>4 DEF KeysRaised, LinesInOrder, LinesAccounted
<1> QED BY <1>6, <1>7, <1>8, <1>10, <1>11 DEF TailInv

(* A step that leaves the log and the tailer alone.                        *)
LEMMA TailUntouched ==
  ASSUME TailInv, UNCHANGED tailVars
  PROVE  TailInv'
<1>1. UNCHANGED fileOfEve /\ UNCHANGED tailHistory /\ alertKeys' = alertKeys /\ tailer' = tailer
  BY DEF tailVars
<1> QED BY <1>1, RestStep DEF TailInv, Shape, Reader

(* Every step of the tailer, of Suricata and of the rotation.              *)
LEMMA TailSteps ==
  ASSUME TailInv, Follow \/ WriteEve \/ Rotate
  PROVE  TailInv'
BY OpenStep, RestSteps, FillStep, ReadStep, EndOfFileStep, ReopenStep, WriteStep, RotateStep
   DEF Follow

(* The types the runs check.                                               *)
LEMMA TailTypes ==
  ASSUME TailInv
  PROVE  TailTypeOK
<1>1. /\ path \in 0..Len(eve) /\ sink \in 1..Len(eve) /\ written \in 0..MaxLines
      /\ tailer.fd \in 0..Len(eve)
      /\ tailer.at \in {"down", "open", "wait", "read", "reopen", "closed"}
      /\ raised \subseteq Processed /\ torn \subseteq Lines
  <2>1. Len(eve) \in Nat
    BY LenProperties DEF TailInv, Shape
  <2> QED BY <2>1 DEF TailInv, Shape
<1>2. tailer.offset \in 0..(2 * MaxLines) /\ tailer.pos \in 0..(2 * MaxLines)
  <2>1. /\ Len(tailer.buffer) \in Nat /\ tailer.offset \in Nat /\ tailer.pos \in Nat
        /\ written \in Nat /\ MaxLines \in Nat /\ written <= MaxLines
    BY LenProperties, LineAssumption DEF TailInv, Shape
  <2> QED BY <2>1 DEF TailInv, Sizes
<1> QED BY <1>1, <1>2 DEF TailTypeOK

-------------------------------------------------------------------------------
(* The tailer within the process.                                          *)
LEMMA TailInDaemon ==
  ASSUME TailInv, [DaemonNext]_daemonVars
  PROVE  TailInv'
<1>1. CASE Serve
  <2>1. StartTailer(workload.lines > 0) /\ UNCHANGED <<fileOfEve, alertKeys, tailHistory>>
    BY <1>1 DEF Serve
  <2>2. PICK c \in BOOLEAN : StartTailer(c)
    <3>1. (workload.lines > 0) \in BOOLEAN
      OBVIOUS
    <3> QED BY <2>1, <3>1
  <2> QED BY <2>1, <2>2, StartStep
<1>2. CASE Stop
  BY <1>2, EndStep DEF Stop
<1>3. CASE TailStep
  BY <1>3, TailSteps DEF TailStep
<1>4. CASE ~Serve /\ ~Stop /\ ~TailStep
  <2>1. UNCHANGED tailVars
    BY <1>4 DEF DaemonNext, daemonVars, Start, StartupCleanup, PeriodicCleanup, HistoryStep,
                SettingsStep
  <2> QED BY <2>1, TailUntouched
<1> QED BY <1>1, <1>2, <1>3, <1>4

(* The tailer's invariant is one of the daemon's: only Suricata and the    *)
(* tailer touch its variables, and the end of the process empties its      *)
(* buffer.                                                                 *)
THEOREM TailInvariant == DaemonSpec => []TailInv
<1>1. DaemonInit => TailInv
  BY TailStarts DEF DaemonInit
<1>2. TailInv /\ [DaemonNext]_daemonVars => TailInv'
  BY TailInDaemon
<1> QED BY <1>1, <1>2, PTL DEF DaemonSpec

(* However the log is rotated and the program restarted, no line is taken  *)
(* twice and none before an earlier one (tailLoop).                        *)
THEOREM LinesTakenInOrder == DaemonSpec => []LinesInOrder
<1>1. TailInv => LinesInOrder
  BY DEF TailInv
<1> QED BY <1>1, TailInvariant, PTL

(* A line read past was processed, was torn, or was there before; and an   *)
(* alert line that was processed was reported, itself or an earlier one of *)
(* its key (tailLoop, processLine, triggerAlert).                          *)
THEOREM LinesTakenAccounted == DaemonSpec => []LinesAccounted
<1>1. TailInv => LinesAccounted
  BY DEF TailInv
<1> QED BY <1>1, TailInvariant, PTL

-------------------------------------------------------------------------------
(* The history within the process, and the promise of module FlowStore: a  *)
(* row is kept by the backend that runs, and the next clean-up is told the *)
(* retention in memory, the one that runs what it was told.                *)
Kept == IF OnDuck THEN InTable ELSE OnDisk
Told == IF pruner.at = "idle" THEN mem.retention ELSE pruner.keep
Retention == Told * DayLength

(* What a clean-up was told to keep, and what the settings say, are        *)
(* numbers of days.                                                        *)
LEMMA ToldTyped ==
  ASSUME DaemonInv, HistoryInv
  PROVE  Told \in Nat /\ Retention \in Nat
<1>1. Told \in Nat
  BY DEF Told, DaemonInv, SettingsInv, SettingsTyped, HistoryInv, PrunerKept
<1> QED BY <1>1, Lengths DEF Retention

(* The steps of the promise, in the terms of the process.                  *)
LEMMA Asks ==
  ASSUME Kept' = Kept, UNCHANGED <<acked, now, pruned>>, Retention' \in Nat
  PROVE  Promise!PromiseNext
<1>1. Promise!Ask
  BY DEF Promise!Ask, Kept, Retention, Told
<1> QED BY <1>1 DEF Promise!PromiseNext

(* A batch that is saved is a step of FlowStore's Commit.                  *)
LEMMA Commits ==
  ASSUME NEW b \in Batches, b \notin acked, acked' = acked \cup {b},
         \/ Kept' = Kept \cup RowsOf[b]
         \/ Kept' = Kept /\ \A r \in RowsOf[b] : r.minute < pruned,
         UNCHANGED <<now, pruned>>, Retention' = Retention
  PROVE  Promise!PromiseNext
<1>1. Promise!Commit(b)
  BY DEF Promise!Commit, Kept, Retention, Told, MinuteOf
<1> QED BY <1>1 DEF Promise!PromiseNext

(* Rows that go after they were decided as expired are a step of           *)
(* FlowStore.                                                              *)
LEMMA Expires ==
  ASSUME Kept' \subseteq Kept, \A r \in Kept \ Kept' : r.minute < pruned,
         UNCHANGED <<acked, now, pruned>>, Retention' = Retention
  PROVE  Promise!PromiseNext
<1>1. \E gone \in SUBSET Kept : (\A r \in gone : MinuteOf(r) < pruned) /\ Kept' = Kept \ gone
  <2>1. Kept \ Kept' \in SUBSET Kept /\ Kept' = Kept \ (Kept \ Kept')
    OBVIOUS
  <2> QED BY <2>1 DEF MinuteOf
<1>2. Promise!Expire
  BY <1>1 DEF Promise!Expire, Kept, Retention, Told
<1> QED BY <1>2 DEF Promise!PromiseNext

(* A decision of a clean-up is a step of FlowStore.                        *)
LEMMA Decides ==
  ASSUME Kept' = Kept, UNCHANGED <<acked, now>>, Retention' = Retention, Retention \in Nat,
         Decided(Told)
  PROVE  Promise!PromiseNext
<1>1. CASE pruned' = pruned
  BY <1>1, Asks
<1>2. CASE Retention <= now /\ pruned' \in (pruned + 1)..(now - Retention)
  <2>1. Promise!Decide
    BY <1>2 DEF Promise!Decide, Kept, Retention, Told
  <2> QED BY <2>1 DEF Promise!PromiseNext
<1> QED BY <1>1, <1>2 DEF Decided, Retention

(* A tick of the clock is a step of FlowStore.                             *)
LEMMA Ticks ==
  ASSUME Kept' = Kept, now < MaxTime, now' = now + 1, UNCHANGED <<acked, pruned>>,
         Retention' = Retention
  PROVE  Promise!PromiseNext
<1>1. Promise!Tick
  BY DEF Promise!Tick, Kept, Retention, Told
<1> QED BY <1>1 DEF Promise!PromiseNext

(* What the clean-ups are told when they begin, and while they run.        *)
LEMMA ToldSame ==
  ASSUME \/ UNCHANGED <<pruner, mem>>
         \/ pruner.at # "idle" /\ pruner'.at # "idle" /\ pruner'.keep = pruner.keep
         \/ pruner.at = "idle" /\ pruner'.at # "idle" /\ pruner'.keep = mem.retention
  PROVE  Told' = Told /\ Retention' = Retention
BY DEF Told, Retention

(* The start of a clean-up, with the retention the settings have then, is  *)
(* a step of FlowStore or none.                                            *)
LEMMA CleanupPromised ==
  ASSUME DaemonInv, HistoryInv, Cleanup(mem.retention), workload' = workload
  PROVE  HistoryInv' /\ Promise!PromiseNext
<1>1. mem.retention \in Nat /\ Retention \in Nat
  BY ToldTyped DEF DaemonInv, SettingsInv, SettingsTyped
<1>2. OnDuck' = OnDuck
  BY DEF OnDuck
<1>3. CASE ~OnDuck /\ CleanupRetention(mem.retention) /\ UNCHANGED duckVars
  <2>1. /\ HistoryInv' /\ OnDisk' = OnDisk /\ Decided(mem.retention)
        /\ pruner.at = "idle" /\ pruner'.at # "idle" /\ pruner'.keep = mem.retention
    BY <1>1, <1>3, ShardCleanupBegins
  <2>2. Kept' = Kept /\ UNCHANGED <<acked, now>>
    BY <1>2, <1>3, <2>1 DEF Kept, CleanupRetention
  <2>3. Told = mem.retention /\ Retention' = Retention
    BY <2>1, ToldSame DEF Told
  <2> QED BY <1>1, <2>1, <2>2, <2>3, Decides
<1>4. CASE OnDuck /\ DuckCleanupRetention(mem.retention)
  <2>1. /\ HistoryInv'
        /\ pruner.at = "idle" /\ pruner'.at # "idle" /\ pruner'.keep = mem.retention
    BY <1>1, <1>4, DuckCleanupBegins
  <2>2. table' = table /\ UNCHANGED <<acked, now, pruned>>
    BY <1>4 DEF DuckCleanupRetention, duckVars, storeHistory
  <2>3. Kept' = Kept
    BY <1>2, <1>4, <2>2 DEF Kept, InTable
  <2>4. Retention' = Retention
    BY <2>1, ToldSame
  <2> QED BY <1>1, <2>1, <2>2, <2>3, <2>4, Asks
<1> QED BY <1>3, <1>4 DEF Cleanup

(* The steps of the shards.                                                *)
LEMMA ShardPromised ==
  ASSUME DaemonInv, HistoryInv, ShardStep, UNCHANGED <<mem, workload>>
  PROVE  HistoryInv' /\ Promise!PromiseNext
<1>1. ~OnDuck /\ ~OnDuck' /\ UNCHANGED duckVars /\ Retention \in Nat
  BY ToldTyped DEF ShardStep, OnDuck
<1>2. workload.batches \subseteq Batches /\ workload.queries \subseteq Queries
  BY WorkloadAssumption DEF DaemonInv
<1>3. Kept = OnDisk /\ Kept' = OnDisk'
  BY <1>1 DEF Kept
<1>4. ASSUME NEW b \in workload.batches, SaveAggregates(b) PROVE HistoryInv' /\ Promise!PromiseNext
  <2>1. HistoryInv' /\ OnDisk' = OnDisk
    BY <1>1, <1>2, <1>4, ShardSaveBegins
  <2>2. UNCHANGED <<pruner, acked, now, pruned>>
    BY <1>4 DEF SaveAggregates
  <2>3. Retention' = Retention
    BY <2>2, ToldSame
  <2> QED BY <1>1, <1>3, <2>1, <2>2, <2>3, Asks
<1>5. ASSUME NEW q \in workload.queries, AskHistory(q) \/ Read(q) PROVE HistoryInv' /\ Promise!PromiseNext
  <2>1. HistoryInv' /\ OnDisk' = OnDisk
    BY <1>1, <1>2, <1>5, HistoryAsked, ShardLookedFor, ShardAdded, ShardsRead DEF Read
  <2>2. UNCHANGED <<pruner, acked, now, pruned>>
    BY <1>5 DEF AskHistory, Read, LookForShard, OpenShard, ReadShard, ReadFails, RowsCutShort, Answer,
                storeHistory
  <2>3. Retention' = Retention
    BY <2>2, ToldSame
  <2> QED BY <1>1, <1>3, <2>1, <2>2, <2>3, Asks
<1>6. CASE BeginTx \/ SaveFails
  <2>1. HistoryInv' /\ OnDisk' = OnDisk
    BY <1>1, <1>6, ShardTxBegins, ShardSaveFails
  <2>2. UNCHANGED <<pruner, acked, now, pruned>>
    BY <1>6 DEF BeginTx, SaveFails, storeHistory
  <2>3. Retention' = Retention
    BY <2>2, ToldSame
  <2> QED BY <1>1, <1>3, <2>1, <2>2, <2>3, Asks
<1>7. CASE CommitTx
  <2>1. HistoryInv'
    BY <1>1, <1>7, ShardCommits
  <2>2. PICK b \in Batches \ acked :
          /\ acked' = acked \cup {b}
          /\ \/ OnDisk' = OnDisk \cup RowsOf[b]
             \/ OnDisk' = OnDisk /\ \A r \in RowsOf[b] : r.minute < pruned
    BY <1>1, <1>7, ShardCommits
  <2>3. UNCHANGED <<pruner, now, pruned>>
    BY <1>7 DEF CommitTx
  <2>4. Retention' = Retention
    BY <2>3, ToldSame
  <2> QED BY <1>3, <2>1, <2>2, <2>3, <2>4, Commits
<1>8. CASE CloseExpired
  <2>1. /\ HistoryInv' /\ OnDisk' = OnDisk
        /\ pruner.at # "idle" /\ pruner'.at # "idle" /\ pruner'.keep = pruner.keep
    BY <1>1, <1>8, ShardClosed
  <2>2. UNCHANGED <<acked, now, pruned>>
    BY <1>8 DEF CloseExpired, storeHistory
  <2>3. Retention' = Retention
    BY <2>1, ToldSame
  <2> QED BY <1>1, <1>3, <2>1, <2>2, <2>3, Asks
<1>9. CASE RemoveExpired
  <2>1. /\ HistoryInv' /\ OnDisk' \subseteq OnDisk /\ \A r \in OnDisk \ OnDisk' : r.minute < pruned
        /\ pruner.at # "idle" /\ pruner'.at # "idle" /\ pruner'.keep = pruner.keep
    BY <1>1, <1>9, ShardRemoved
  <2>2. UNCHANGED <<acked, now, pruned>>
    BY <1>9 DEF RemoveExpired, storeHistory
  <2>3. Retention' = Retention
    BY <2>1, ToldSame
  <2> QED BY <1>3, <2>1, <2>2, <2>3, Expires
<1>10. CASE CleanupEnds
  <2>1. HistoryInv' /\ OnDisk' = OnDisk /\ pruner' = IdlePruner
    BY <1>1, <1>10, CleanupReturns
  <2>2. UNCHANGED <<acked, now, pruned>>
    BY <1>10 DEF CleanupEnds, storeHistory
  <2>3. Retention' \in Nat
    <3>1. mem.retention \in Nat
      BY DEF DaemonInv, SettingsInv, SettingsTyped
    <3>2. Retention' = mem.retention * DayLength
      BY <2>1 DEF Retention, Told, IdlePruner
    <3> QED BY <3>1, <3>2, Lengths
  <2> QED BY <1>3, <2>1, <2>2, <2>3, Asks
<1> QED BY <1>4, <1>5, <1>6, <1>7, <1>8, <1>9, <1>10 DEF ShardStep, Write, Sweep

(* The steps of the DuckDB backend.                                        *)
LEMMA DuckPromised ==
  ASSUME DaemonInv, HistoryInv, DuckStep, UNCHANGED <<mem, workload>>
  PROVE  HistoryInv' /\ Promise!PromiseNext
<1>1. OnDuck /\ OnDuck' /\ Retention \in Nat
  BY ToldTyped DEF DuckStep, OnDuck
<1>2. workload.batches \subseteq Batches /\ workload.queries \subseteq Queries
  BY WorkloadAssumption DEF DaemonInv
<1>3. Kept = InTable /\ Kept' = InTable' /\ (table' = table => InTable' = InTable)
  BY <1>1 DEF Kept, InTable
<1>4. ASSUME NEW b \in workload.batches, DuckSaveAggregates(b)
      PROVE  HistoryInv' /\ Promise!PromiseNext
  <2>1. HistoryInv'
    BY <1>2, <1>4, DuckSaveBegins
  <2>2. UNCHANGED <<table, pruner, acked, now, pruned>>
    BY <1>4 DEF DuckSaveAggregates, duckVars
  <2>3. Retention' = Retention
    BY <2>2, ToldSame
  <2> QED BY <1>1, <1>3, <2>1, <2>2, <2>3, Asks
<1>5. ASSUME NEW q \in workload.queries, DuckQuery(q) \/ ListDevices(q)
      PROVE  HistoryInv' /\ Promise!PromiseNext
  <2>1. HistoryInv' /\ UNCHANGED <<table, acked, pruned, now, pruner>>
    BY <1>2, <1>5, DuckReads
  <2>2. Retention' = Retention
    BY <2>1, ToldSame
  <2> QED BY <1>1, <1>3, <2>1, <2>2, Asks
<1>6. CASE Lock \/ DuckSaveFails
  <2>1. HistoryInv'
    BY <1>6, LockTaken, DuckFails
  <2>2. UNCHANGED <<table, pruner, acked, now, pruned>>
    BY <1>6 DEF Lock, DuckSaveFails, storeVars, storeHistory
  <2>3. Retention' = Retention
    BY <2>2, ToldSame
  <2> QED BY <1>1, <1>3, <2>1, <2>2, <2>3, Asks
<1>7. CASE DuckCommit
  <2>1. HistoryInv'
    BY <1>7, DuckCommits
  <2>2. PICK b \in Batches \ acked : acked' = acked \cup {b} /\ InTable' = InTable \cup RowsOf[b]
    BY <1>7, DuckCommits
  <2>3. UNCHANGED <<pruner, now, pruned>>
    BY <1>7 DEF DuckCommit
  <2>4. Retention' = Retention
    BY <2>3, ToldSame
  <2> QED BY <1>3, <2>1, <2>2, <2>3, <2>4, Commits
<1>8. CASE ReadClock
  <2>1. /\ HistoryInv' /\ Decided(pruner.keep)
        /\ pruner.at # "idle" /\ pruner'.at # "idle" /\ pruner'.keep = pruner.keep
    BY <1>8, DuckDecides
  <2>2. UNCHANGED <<table, acked, now>>
    BY <1>8 DEF ReadClock, duckVars
  <2>3. Told = pruner.keep /\ Retention' = Retention
    BY <2>1, ToldSame DEF Told
  <2> QED BY <1>1, <1>3, <2>1, <2>2, <2>3, Decides
<1>9. CASE DeleteExpired
  <2>1. /\ HistoryInv' /\ InTable' \subseteq InTable /\ \A r \in InTable \ InTable' : r.minute < pruned
        /\ pruner.at # "idle" /\ pruner'.at # "idle" /\ pruner'.keep = pruner.keep
    BY <1>9, DuckDeletes
  <2>2. UNCHANGED <<acked, now, pruned>>
    BY <1>9 DEF DeleteExpired, storeHistory
  <2>3. Retention' = Retention
    BY <2>1, ToldSame
  <2> QED BY <1>3, <2>1, <2>2, <2>3, Expires
<1>10. CASE CleanupEnds /\ UNCHANGED duckVars
  <2>1. HistoryInv' /\ pruner' = IdlePruner
    BY <1>10, CleanupReturns
  <2>2. UNCHANGED <<table, acked, now, pruned>>
    BY <1>10 DEF CleanupEnds, storeHistory, duckVars
  <2>3. Retention' \in Nat
    <3>1. mem.retention \in Nat
      BY DEF DaemonInv, SettingsInv, SettingsTyped
    <3>2. Retention' = mem.retention * DayLength
      BY <2>1 DEF Retention, Told, IdlePruner
    <3> QED BY <3>1, <3>2, Lengths
  <2> QED BY <1>3, <2>1, <2>2, <2>3, Asks
<1> QED BY <1>4, <1>5, <1>6, <1>7, <1>8, <1>9, <1>10 DEF DuckStep, DuckWriters

(* Every step of the process is one of the promise, or none that it knows. *)
LEMMA HistorySteps ==
  ASSUME DaemonInv, HistoryInv, [DaemonNext]_daemonVars, DaemonInv'
  PROVE  HistoryInv' /\ [Promise!PromiseNext]_(Promise!promise)
<1>1. workload' = workload /\ OnDuck' = OnDuck
  <2>1. workload' = workload
    BY DEF DaemonNext, daemonVars, processVars, Start, StartupCleanup, Serve, PeriodicCleanup, Stop,
           HistoryStep, SettingsStep, TailStep
  <2> QED BY <2>1 DEF OnDuck
<1>2. Kept' = Kept \/ ~(UNCHANGED table /\ OnDisk' = OnDisk)
  BY <1>1 DEF Kept, InTable
<1>3. ASSUME HistoryInv', UNCHANGED table, OnDisk' = OnDisk, UNCHANGED <<acked, now, pruned>>
      PROVE  Promise!PromiseNext
  <2>1. Retention' \in Nat
    <3>1. Told' \in Nat
      BY <1>3 DEF Told, DaemonInv, SettingsInv, SettingsTyped, HistoryInv, PrunerKept
    <3>2. Retention' = Told' * DayLength
      BY DEF Retention
    <3> QED BY <3>1, <3>2, Lengths
  <2> QED BY <1>2, <1>3, <2>1, Asks
<1>4. ASSUME UNCHANGED historyVars PROVE HistoryInv' /\ Promise!PromiseNext
  <2>1. UNCHANGED <<storeVars, duckVars>> /\ UNCHANGED <<table, acked, now, pruned>>
    BY <1>4 DEF historyVars, storeVars, duckVars
  <2>2. HistoryInv' /\ OnDisk' = OnDisk
    BY <2>1, HistoryUntouched
  <2> QED BY <1>3, <2>1, <2>2
<1>5. CASE Start \/ Serve \/ SettingsStep \/ TailStep
  BY <1>4, <1>5 DEF Start, Serve, SettingsStep, TailStep
<1>6. CASE StartupCleanup \/ PeriodicCleanup
  BY <1>1, <1>6, CleanupPromised DEF StartupCleanup, PeriodicCleanup
<1>7. CASE Stop
  <2>1. ProcessGone /\ LocksGone
    BY <1>7 DEF Stop
  <2>2. HistoryInv' /\ OnDisk' = OnDisk
    BY <2>1, HistoryLeft
  <2>3. UNCHANGED <<table, acked, now, pruned>>
    BY <2>1 DEF ProcessGone, LocksGone, storeHistory
  <2> QED BY <1>3, <2>2, <2>3
<1>8. CASE HistoryStep
  <2>1. mem' = mem
    BY <1>8 DEF HistoryStep, settingsVars
  <2>2. CASE ShardStep
    BY <1>1, <2>1, <2>2, ShardPromised
  <2>3. CASE DuckStep
    BY <1>1, <2>1, <2>3, DuckPromised
  <2>4. CASE StoreTick /\ UNCHANGED duckVars
    <3>1. HistoryInv' /\ OnDisk' = OnDisk
      BY <2>4, ClockMoves
    <3>2. now < MaxTime /\ now' = now + 1 /\ UNCHANGED <<acked, pruned, table, pruner>>
      BY <2>4 DEF StoreTick, storeHistory, duckVars
    <3>3. Retention' = Retention
      BY <2>1, <3>2, ToldSame
    <3> QED BY <1>2, <3>1, <3>2, <3>3, Ticks
  <2> QED BY <1>8, <2>2, <2>3, <2>4 DEF HistoryStep
<1>9. CASE UNCHANGED daemonVars
  BY <1>4, <1>9 DEF daemonVars
<1> QED BY <1>5, <1>6, <1>7, <1>8, <1>9 DEF DaemonNext

(* The daemon starts with the store's invariant, in an initial state of    *)
(* FlowStore.                                                              *)
LEMMA HistoryBegins ==
  ASSUME DaemonInit
  PROVE  HistoryInv /\ Promise!PromiseInit
<1>1. /\ HistoryInv /\ OnDisk = {} /\ InTable = {}
      /\ acked = {} /\ now = 0 /\ pruned = 0
  BY HistoryStarts DEF DaemonInit, StoreInit
<1>2. Kept = {}
  BY <1>1 DEF Kept
<1>3. Retention \in Nat
  BY <1>1, SettingsStart, ToldTyped
<1>4. Promise!PromiseInit
  BY <1>1, <1>2, <1>3 DEF Promise!PromiseInit, Kept, Retention, Told
<1> QED BY <1>1, <1>4

(* The store's invariant is one of the daemon's, with either backend.      *)
THEOREM HistoryInvariant == DaemonSpec => []HistoryInv
<1>1. DaemonInit => HistoryInv
  BY HistoryBegins
<1>2. HistoryInv /\ DaemonInv /\ DaemonInv' /\ [DaemonNext]_daemonVars => HistoryInv'
  BY HistorySteps
<1> QED BY <1>1, <1>2, SettingsInvariant, PTL DEF DaemonSpec

(* A row younger than what the clean-up was told to keep is never lost,    *)
(* through the races of clean-ups, queries and saves, crashes, and changes *)
(* of the retention while a clean-up waits, in either backend: the process *)
(* implements FlowStore (SaveAggregates, CleanupRetention, main.go).       *)
THEOREM KeepsPromise == DaemonSpec => HistoryPromise
<1>1. DaemonInit => Promise!PromiseInit
  BY HistoryBegins
<1>2. HistoryInv /\ DaemonInv /\ DaemonInv' /\ [DaemonNext]_daemonVars
      => [Promise!PromiseNext]_(Promise!promise)
  BY HistorySteps
<1> QED BY <1>1, <1>2, SettingsInvariant, HistoryInvariant, PTL
        DEF DaemonSpec, HistoryPromise, Promise!PromiseSpec

-------------------------------------------------------------------------------
(* The answers of the history, of whichever backend.                       *)

(* Every step of the process keeps the answers true, those that were given *)
(* and those in the making.                                                *)
LEMMA AnswersSteps ==
  ASSUME DaemonInv, HistoryInv, AnswersInv, [DaemonNext]_daemonVars
  PROVE  AnswersInv'
<1>1. workload.batches \subseteq Batches /\ workload.queries \subseteq Queries
  BY WorkloadAssumption DEF DaemonInv
<1>2. CASE Start \/ Serve \/ SettingsStep \/ TailStep \/ UNCHANGED daemonVars
  <2>1. UNCHANGED storeVars
    BY <1>2 DEF Start, Serve, SettingsStep, TailStep, daemonVars, historyVars
  <2> QED BY <2>1, AnswersUntouched
<1>3. CASE StartupCleanup \/ PeriodicCleanup
  <2>1. CleanupRetention(mem.retention) \/ DuckCleanupRetention(mem.retention)
    BY <1>3 DEF StartupCleanup, PeriodicCleanup, Cleanup
  <2> QED BY <2>1, OthersKeepAnswers
<1>4. CASE Stop
  <2>1. ProcessGone
    BY <1>4 DEF Stop
  <2> QED BY <2>1, StopKeepsAnswers
<1>5. CASE ShardStep
  <2>1. ASSUME NEW b \in workload.batches, SaveAggregates(b) PROVE AnswersInv'
    BY <1>1, <2>1, SaveKeepsAnswers
  <2>2. ASSUME NEW q \in workload.queries, AskHistory(q) \/ Read(q) PROVE AnswersInv'
    BY <1>1, <2>2, AskIsTrue, LookIsTrue, OpenIsTrue, ReadIsTrue, AnswerIsTrue DEF Read
  <2>3. CASE Write
    BY <2>3, OthersKeepAnswers, CommitKeepsAnswers DEF Write
  <2>4. CASE Sweep
    BY <2>4, OthersKeepAnswers, CloseKeepsAnswers, RemoveKeepsAnswers DEF Sweep
  <2> QED BY <1>5, <2>1, <2>2, <2>3, <2>4 DEF ShardStep
<1>6. CASE DuckStep
  <2>1. ASSUME NEW b \in workload.batches, DuckSaveAggregates(b) PROVE AnswersInv'
    BY <2>1, OthersKeepAnswers
  <2>2. ASSUME NEW q \in workload.queries, DuckQuery(q) \/ ListDevices(q) PROVE AnswersInv'
    BY <1>1, <2>2, DuckQueryIsTrue, ListIsTrue
  <2>3. CASE DuckWriters
    BY <2>3, OthersKeepAnswers, DuckCommitKeepsAnswers DEF DuckWriters
  <2> QED BY <1>6, <2>1, <2>2, <2>3 DEF DuckStep
<1>7. CASE StoreTick
  BY <1>7, OthersKeepAnswers
<1> QED BY <1>2, <1>3, <1>4, <1>5, <1>6, <1>7 DEF DaemonNext, HistoryStep

(* An answer that was given without an error misses no row that was there  *)
(* when its query began and is there still, counts none twice, and is made *)
(* of committed rows of the window only, whatever batches, clean-ups,      *)
(* other queries and crashes do meanwhile, in either backend               *)
(* (GetShardsInRange and the queries on its result).                       *)
THEOREM AnswersAlwaysTrue == DaemonSpec => []HistoryAnswersTrue
<1>1. DaemonInit => AnswersInv
  BY AnswersStart DEF DaemonInit
<1>2. AnswersInv /\ HistoryInv /\ DaemonInv /\ [DaemonNext]_daemonVars => AnswersInv'
  BY AnswersSteps
<1>3. AnswersInv => HistoryAnswersTrue
  BY AnswersHold DEF HistoryAnswersTrue
<1> QED BY <1>1, <1>2, <1>3, SettingsInvariant, HistoryInvariant, PTL DEF DaemonSpec

-------------------------------------------------------------------------------
(* Types.                                                                  *)
ProcessTyped ==
  /\ phase \in {"down", "loaded", "cleaning", "up", "refused"}
  /\ starts \in 0..MaxStarts
  /\ cleanedAt \in 0..now

(* Every step of the daemon keeps its phase, its starts and the time of    *)
(* its last clean-up within their types.                                   *)
LEMMA ProcessSteps ==
  ASSUME ProcessTyped, now \in Nat, now' \in Nat, now <= now', [DaemonNext]_daemonVars
  PROVE  ProcessTyped'
<1>1. starts' = starts \/ (starts < MaxStarts /\ starts' = starts + 1)
  BY DEF DaemonNext, daemonVars, processVars, Start, StartupCleanup, Serve, PeriodicCleanup, Stop,
         HistoryStep, SettingsStep, TailStep
<1>2. cleanedAt' \in {cleanedAt, now}
  BY DEF DaemonNext, daemonVars, processVars, Start, StartupCleanup, Serve, PeriodicCleanup, Stop,
         HistoryStep, SettingsStep, TailStep
<1>3. phase' \in {phase, "down", "loaded", "cleaning", "up", "refused"}
  BY DEF DaemonNext, daemonVars, processVars, Start, StartupCleanup, Serve, PeriodicCleanup, Stop,
         HistoryStep, SettingsStep, TailStep
<1>4. starts' \in 0..MaxStarts
  BY <1>1, StartsAssumption DEF ProcessTyped
<1>5. cleanedAt' \in 0..now'
  BY <1>2 DEF ProcessTyped
<1> QED BY <1>3, <1>4, <1>5 DEF ProcessTyped

(* The clock does not go back.                                             *)
LEMMA ClockGoesOn ==
  ASSUME HistoryInv, [DaemonNext]_daemonVars
  PROVE  now \in Nat /\ now' \in Nat /\ now <= now'
<1>1. now \in Nat
  BY DEF HistoryInv, FilesKept
<1>2. now' = now \/ now' = now + 1
  <2>1. CASE Start \/ Serve \/ SettingsStep \/ TailStep \/ UNCHANGED daemonVars
    BY <2>1 DEF Start, Serve, SettingsStep, TailStep, daemonVars, historyVars, storeVars
  <2>2. CASE StartupCleanup \/ PeriodicCleanup
    BY <2>2 DEF StartupCleanup, PeriodicCleanup, Cleanup, CleanupRetention, DuckCleanupRetention
  <2>3. CASE Stop
    BY <2>3 DEF Stop, ProcessGone
  <2>4. CASE HistoryStep
    <3>1. CASE ShardStep
      BY <3>1 DEF ShardStep, SaveAggregates, AskHistory, Write, BeginTx, CommitTx, SaveFails, Read,
                  LookForShard, OpenShard, ReadShard, ReadFails, RowsCutShort, Answer, Sweep,
                  CloseExpired, RemoveExpired, CleanupEnds
    <3>2. CASE DuckStep
      BY <3>2 DEF DuckStep, DuckSaveAggregates, DuckQuery, ListDevices, DuckWriters, Lock, DuckCommit,
                  DuckSaveFails, ReadClock, DeleteExpired, CleanupEnds, storeVars
    <3>3. CASE StoreTick
      BY <3>3 DEF StoreTick
    <3> QED BY <2>4, <3>1, <3>2, <3>3 DEF HistoryStep
  <2> QED BY <2>1, <2>2, <2>3, <2>4 DEF DaemonNext
<1> QED BY <1>1, <1>2

(* The types of the process hold throughout.                               *)
THEOREM ProcessTypes == DaemonSpec => []ProcessTyped
<1>1. DaemonInit => ProcessTyped
  BY StartsAssumption DEF DaemonInit, StoreInit, ProcessTyped
<1>2. ProcessTyped /\ HistoryInv /\ [DaemonNext]_daemonVars => ProcessTyped'
  BY ProcessSteps, ClockGoesOn
<1> QED BY <1>1, <1>2, HistoryInvariant, PTL DEF DaemonSpec

(* Every variable of the process has its type, a cached handle is open and *)
(* on a file of its day, and the lock is held by one that called it.       *)
THEOREM DaemonTypes == DaemonSpec => []DaemonTypeOK
<1>1. DaemonInv /\ HistoryInv /\ TailInv /\ ProcessTyped => DaemonTypeOK
  <2> SUFFICES ASSUME DaemonInv, HistoryInv, TailInv, ProcessTyped PROVE DaemonTypeOK
    OBVIOUS
  <2>1. StoreTypeOK /\ DuckTypeOK
    BY HistoryTyped
  <2>2. TailTypeOK
    BY TailTypes
  <2>3. DOMAIN mem = Fields /\ mem.retention \in Nat /\ mem.pps \in Nat /\ mem.spike \in Nat
    BY FieldsAre DEF DaemonInv, SettingsInv, SettingsTyped
  <2>4. pruner.cutoff <= now
    BY DEF HistoryInv, PrunerKept
  <2> QED BY <2>1, <2>2, <2>3, <2>4 DEF DaemonTypeOK, ProcessTyped, DaemonInv
<1> QED BY <1>1, SettingsInvariant, HistoryInvariant, TailInvariant, ProcessTypes, PTL
================================================================================

------------------------------- MODULE Settings -------------------------------
(***************************************************************************)
(* internal/config and the handlers of internal/api that change it: one    *)
(* Config in memory, shared by pointer with the detectors and main.go, one *)
(* YAML file, and the copies the engines were given.                       *)
(*                                                                         *)
(* Goroutines.  net/http runs each request in a goroutine of its own and   *)
(* nothing protects the Config, so a POST is cut where another request, a  *)
(* crash or an error of the disk can come between: its checks, the         *)
(* assignments, the slow hash of a password, the check before the save,    *)
(* the marshalled copy in a temporary file, the rename, the hand-out to    *)
(* the engines, and the audit log.                                         *)
(*                                                                         *)
(* Data.  A field stands for the fields that are treated alike: ports for  *)
(* what is only read at the start, spike for the bounded numbers, types    *)
(* for the lists, subnets for what the engines copy, pps for what is read  *)
(* from the shared Config, token with the chat id, environment with the    *)
(* log level, dir with the backend.  Numbers keep their                    *)
(* order and their limits, texts whether they are empty, blank or known.   *)
(***************************************************************************)
EXTENDS Integers, Sequences

CONSTANTS
  Requests,     (* POST requests: a kind and a payload each                 *)
  Defaults,     (* DefaultConfig()                                          *)
  Texts,        (* the texts a field may hold                               *)
  MaxRetention, (* MaxRetentionDays                                         *)
  MaxSpike,     (* the largest traffic_spike_min_bytes, 1 << 40             *)
  Null          (* a list missing from a JSON body; no file; a torn file    *)

VARIABLES
  mem,        (* the Config in memory                                       *)
  file,       (* the YAML file, or Null                                     *)
  pushed,     (* the copies the engines were given                          *)
  request,    (* request[q]: how far POST q has got                         *)
  audit,      (* rows of the audit log                                      *)
  current,    (* what the last settings POST saved, or the start (history)  *)
  overlapped  (* two requests have been in their handlers at once (history) *)

settingsVars == <<mem, file, pushed, request, audit, current, overlapped>>

(* The fields of a Config, and those a settings POST carries: the password *)
(* for its hash, and maybe no list.                                        *)
Config ==
  [netflow : Int, sflow : Int, dir : Texts, environment : Texts, subnets : Texts,
   pps : Int, url : Texts, slack : Texts, format : Texts, telegram : BOOLEAN,
   token : Texts, types : Seq(Texts), spike : Int, retention : Int, hash : Texts,
   firstRun : BOOLEAN]
Body ==
  [netflow : Int, sflow : Int, dir : Texts, environment : Texts, subnets : Texts,
   pps : Int, url : Texts, slack : Texts, format : Texts, telegram : BOOLEAN,
   token : Texts, types : Seq(Texts) \cup {Null}, spike : Int, retention : Int,
   password : Texts, firstRun : BOOLEAN]

ASSUME SettingsAssumption ==
  /\ {"", "generic"} \subseteq Texts
  /\ Defaults \in Config
  /\ Null \notin Config \cup Seq(Texts)
  /\ MaxRetention \in Nat /\ MaxSpike \in Nat
  /\ \A q \in Requests :
       \/ q.kind = "settings" /\ q.payload \in Body
       \/ q.kind = "setup" /\ q.payload \in [password : Texts]

Fields == DOMAIN Defaults
New == [at |-> "new", payload |-> Null, next |-> Null, sections |-> {}]
InHandler(q) == request[q].at \notin {"new", "200", "400", "409", "500", "lost"}

-------------------------------------------------------------------------------
(* Bugs a change could introduce, each replacing the definition it is      *)
(* named after in one mutation run.                                        *)
TruncatedFile == Defaults
SavedUnchecked == TRUE
FailureOnlyLogged == "push"

-------------------------------------------------------------------------------
(* config.go: Validate, LoadConfig and the environment over the file.      *)
PortsConflict(c) == c.netflow > 0 /\ c.netflow = c.sflow
NoDuplicates(s) == \A i, j \in 1..Len(s) : s[i] = s[j] => i = j

Valid(c) ==
  /\ ~PortsConflict(c)
  /\ c.dir # "blank"
  /\ c.environment \in {"development", "staging", "production", "test"}
  /\ c.format \in {"generic", "slack", "telegram"}
  /\ c.retention \in 1..MaxRetention
  /\ c.pps > 0
  /\ c.subnets # "malformed"
  /\ NoDuplicates(c.types)
  /\ c.spike \in 1..MaxSpike
  /\ c.telegram => c.token # ""

ASSUME DefaultsAssumption == Valid(Defaults)

Overridden(c, env) == [f \in Fields |-> IF f \in DOMAIN env THEN env[f] ELSE c[f]]

(* Empty fields get their defaults, and the webhook of format slack that   *)
(* older files have moves to a field of its own.                           *)
EmptyIn(c) == {f \in {"format", "environment"} : c[f] = ""} \cup {f \in {"spike"} : c[f] = 0}
Normalised(c) ==
  LET full == Overridden(c, [f \in EmptyIn(c) |-> Defaults[f]])
  IN  IF full.slack = "" /\ full.format = "slack" /\ full.url # ""
      THEN Overridden(full, [slack |-> full.url, url |-> "", format |-> "generic"])
      ELSE full

OfFile(f) == IF f = Null THEN Defaults ELSE f
Loaded(f, env) == Normalised(Overridden(OfFile(f), env))

(* What the engines keep a copy of: profiler, DDoS detector, baseline,     *)
(* anomaly and webhook engine.                                             *)
Copies(c) == [subnets |-> c.subnets, types |-> c.types, spike |-> c.spike,
              url |-> c.url, slack |-> c.slack, format |-> c.format,
              telegram |-> c.telegram, token |-> c.token]

LoadConfig(env) ==
  /\ Valid(Loaded(file, env))
  /\ mem' = Loaded(file, env)
  /\ pushed' = Copies(mem')
  /\ current' = mem'
  /\ UNCHANGED <<file, request, audit, overlapped>>

-------------------------------------------------------------------------------
(* handlePostSettings.  Zero values of a body are filled from memory, then *)
(* the payload is checked, in other words than the file will be.           *)
MissingFrom(p) == {f \in {"dir", "format"} : p[f] = ""} \cup {f \in {"types"} : p[f] = Null}
                  \cup {f \in {"spike"} : p[f] = 0}
Filled(p) == [f \in DOMAIN p |-> IF f \in MissingFrom(p) THEN mem[f] ELSE p[f]]

PayloadAccepted(p) ==
  /\ ~PortsConflict(p)
  /\ p.retention \in 1..MaxRetention
  /\ p.pps >= 1
  /\ p.subnets # "malformed"
  /\ p.spike >= 1
  /\ p.environment \in {"production", "development"}
  /\ p.password # "short"

Enter(q, next) ==
  /\ request' = [request EXCEPT ![q] = next]
  /\ overlapped' = (overlapped \/ \E r \in Requests \ {q} : InHandler(r))
  /\ UNCHANGED <<mem, file, pushed, audit, current>>

PostSettings(q) ==
  /\ request[q].at = "new"
  /\ q.kind = "settings"
  /\ LET p == Filled(q.payload)
     IN  Enter(q, IF PayloadAccepted(p)
                  THEN [New EXCEPT !.at = "apply", !.payload = p]
                  ELSE [New EXCEPT !.at = "400"])

(* The sections in which the payload differs from memory, for the audit.   *)
Sections(c, d) ==
  (IF c.subnets # d.subnets THEN {"network"} ELSE {}) \cup
  (IF c.netflow # d.netflow \/ c.sflow # d.sflow THEN {"collectors"} ELSE {}) \cup
  (IF c.dir # d.dir \/ c.retention # d.retention THEN {"storage"} ELSE {}) \cup
  (IF c.pps # d.pps \/ c.spike # d.spike \/ c.types # d.types THEN {"thresholds"} ELSE {}) \cup
  (IF c.slack # d.slack \/ c.url # d.url \/ c.format # d.format
      \/ c.telegram # d.telegram \/ c.token # d.token THEN {"notifications"} ELSE {}) \cup
  (IF c.environment # d.environment THEN {"system"} ELSE {})

(* An absent or masked token keeps the one in memory; the password hash is *)
(* none of the fields the payload carries.                                 *)
Applied(q) ==
  LET p == request[q].payload
  IN  [f \in Fields |-> CASE f = "token" -> IF p.token \in {"", "masked"} THEN mem.token ELSE p.token
                          [] f = "hash" -> mem.hash
                          [] OTHER -> p[f]]

ApplySettings(q) ==
  /\ request[q].at = "apply"
  /\ mem' = Applied(q)
  /\ request' = [request EXCEPT ![q].at = IF request[q].payload.password = "" THEN "check" ELSE "hash",
                                ![q].sections = Sections(mem, mem')]
  /\ UNCHANGED <<file, pushed, audit, current, overlapped>>

-------------------------------------------------------------------------------
(* handleAuthSetup: refused when a password is set, otherwise its hash and *)
(* a session secret go into memory and the file.                           *)
PostSetup(q) ==
  /\ request[q].at = "new"
  /\ q.kind = "setup"
  /\ Enter(q, IF mem.hash # "" THEN [New EXCEPT !.at = "409"]
              ELSE IF q.payload.password \in {"", "short"} THEN [New EXCEPT !.at = "400"]
              ELSE [New EXCEPT !.at = "hash", !.payload = q.payload])

HashPassword(q) ==
  /\ request[q].at = "hash"
  /\ mem' = [mem EXCEPT !.hash = request[q].payload.password]
  /\ request' = [request EXCEPT ![q].at = "check",
                                ![q].sections = IF q.kind = "settings" THEN @ \cup {"access"} ELSE @]
  /\ UNCHANGED <<file, pushed, audit, current, overlapped>>

-------------------------------------------------------------------------------
(* SaveConfig: Validate, marshal into a temporary file, rename.            *)
SaveAllowed == Valid(mem)
CheckBeforeSave(q) ==
  /\ request[q].at = "check"
  /\ request' = [request EXCEPT ![q].at = IF SaveAllowed THEN "marshal" ELSE "500"]
  /\ UNCHANGED <<mem, file, pushed, audit, current, overlapped>>

FileWhileWriting == file
Marshal(q) ==
  /\ request[q].at = "marshal"
  /\ request' = [request EXCEPT ![q].at = "rename", ![q].next = mem]
  /\ file' = FileWhileWriting
  /\ UNCHANGED <<mem, pushed, audit, current, overlapped>>

Rename(q) ==
  /\ request[q].at = "rename"
  /\ file' = request[q].next
  /\ request' = [request EXCEPT ![q].at = IF q.kind = "settings" THEN "push" ELSE "audit"]
  /\ current' = IF q.kind = "settings" THEN request[q].next ELSE current
  /\ UNCHANGED <<mem, pushed, audit, overlapped>>

(* No salt, or the temporary file cannot be created, written or renamed.   *)
AfterFailedSave == "500"
SaveConfigFails(q) ==
  /\ request[q].at \in {"hash", "marshal", "rename"}
  /\ request' = [request EXCEPT ![q].at = AfterFailedSave]
  /\ UNCHANGED <<mem, file, pushed, audit, current, overlapped>>

(* Only what was saved is handed out.                                      *)
Propagate(q) ==
  /\ request[q].at = "push"
  /\ pushed' = Copies(mem)
  /\ request' = [request EXCEPT ![q].at = "audit"]
  /\ UNCHANGED <<mem, file, audit, current, overlapped>>

(* One row per section; errors of SaveAuditLog are ignored.                *)
AuditAndAnswer(q) ==
  /\ request[q].at = "audit"
  /\ audit' = audit \cup ({q} \X (IF request[q].sections = {} THEN {"none"} ELSE request[q].sections))
  /\ request' = [request EXCEPT ![q].at = "200"]
  /\ UNCHANGED <<mem, file, pushed, current, overlapped>>

-------------------------------------------------------------------------------
RequestsGone ==
  /\ request' = [q \in Requests |-> IF InHandler(q) THEN [New EXCEPT !.at = "lost"] ELSE request[q]]
  /\ UNCHANGED <<mem, file, pushed, audit, current, overlapped>>

SettingsInit ==
  /\ mem = Defaults
  /\ file = Null
  /\ pushed = Copies(Defaults)
  /\ request = [q \in Requests |-> New]
  /\ audit = {}
  /\ current = Defaults
  /\ overlapped = FALSE

Handle(q) ==
  \/ ApplySettings(q) \/ HashPassword(q)
  \/ CheckBeforeSave(q) \/ Marshal(q) \/ Rename(q) \/ SaveConfigFails(q)
  \/ Propagate(q) \/ AuditAndAnswer(q)
-------------------------------------------------------------------------------
(* Whatever POSTs were answered, refused, failed or cut off by a crash in  *)
(* the middle of a save, the file is one the next start accepts: the       *)
(* handlers let settings pass that Validate refuses, and what is written   *)
(* is what was checked.  Two requests at once are the exception: the       *)
(* Config is checked and marshalled without a lock (SaveConfig,            *)
(* writeFileAtomic, LoadConfig).                                           *)
SavedSettingsLoad == ~overlapped => file = Null \/ Valid(Normalised(file))

(* A password whose setup was answered with success is in the file, so a   *)
(* restart, a later settings POST or one that failed does not bring the    *)
(* first-run setup back (handleAuthSetup, handlePostSettings).             *)
SetupSurvives ==
  ~overlapped =>
    \A q \in Requests : q.kind = "setup" /\ request[q].at = "200" => file # Null /\ file.hash # ""
===============================================================================

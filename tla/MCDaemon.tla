------------------------------- MODULE MCDaemon -------------------------------
(* A small instance of Daemon.  Days of two minutes, of which one is kept.  In *)
(* some workloads the history is written, queried and cleaned up, in one of    *)
(* them while a settings POST lengthens the retention; in the others the       *)
(* settings handlers run: POSTs that change several sections, that only        *)
(* SaveConfig refuses, that race, and the setup of the password.               *)
EXTENDS Daemon, TLC

CONSTANTS b1, b2, b3

Row(m, from, to, n) == [minute |-> m, src |-> from, dst |-> to, port |-> n, bytes |-> n]
MCBatches == {b1, b2, b3}
MCBucket == b1 :> 1 @@ b2 :> 2 @@ b3 :> 4
(* b2 carries a late row: of the last minute of the day before its bucket.     *)
MCRowsOf == b1 :> {Row(0, "x", "y", 1), Row(1, "x", "z", 2)}
            @@ b2 :> {Row(1, "y", "y", 2), Row(2, "x", "y", 1)}
            @@ b3 :> {Row(4, "x", "z", 1)}
MCKnownDevices == {"x", "y"}
Asked(k, a, b, n) == [kind |-> k, from |-> a, to |-> b, limit |-> n, ip |-> "x", peer |-> "y"]
Long == {Asked("sources", 0, 4, 1)}
Short == {Asked("records", 1, 3, 2), Asked("destinations", 0, 3, 2), Asked("ports", 0, 2, 1),
          Asked("devices", 0, 2, 1), Asked("peers", 0, 2, 1), Asked("devicePorts", 1, 3, 1),
          Asked("series", 0, 3, 2), Asked("deviceSeries", 0, 3, 1), Asked("samples", 0, 3, 1),
          Asked("destinationSeen", 1, 3, 1), Asked("portSeen", 0, 2, 1)}
MCQueries == Long \cup Short

MCTexts == {"", "blank", "data", "lan", "vlan", "hook", "slack", "generic", "production", "staging",
            "spike", "longer", "short"}
MCDefaults ==
  [netflow |-> 1, sflow |-> 2, dir |-> "data", environment |-> "production",
   subnets |-> "lan", pps |-> 2, url |-> "", slack |-> "", format |-> "generic",
   telegram |-> FALSE, token |-> "", types |-> <<>>, spike |-> 1, retention |-> 1,
   hash |-> "", firstRun |-> FALSE]
Same == [f \in DOMAIN MCDefaults \ {"hash"} |-> MCDefaults[f]] @@ "password" :> ""
Posted(n, p) == [kind |-> "settings", name |-> n, payload |-> p]
Setup(n, w) == [kind |-> "setup", name |-> n, payload |-> [password |-> w]]

Longer == Posted("longer", [Same EXCEPT !.retention = 2])
Refused == Posted("refused", [Same EXCEPT !.retention = 2, !.telegram = TRUE, !.firstRun = TRUE])
Moved == Posted("moved", [Same EXCEPT !.subnets = "vlan", !.retention = 2, !.sflow = 3,
                                      !.url = "hook", !.format = "slack", !.dir = ""])
Odd == Posted("odd", [Same EXCEPT !.types = <<"spike", "spike">>, !.password = "longer"])
MCRequests == {Longer, Refused, Moved, Odd, Setup("first", "longer"), Setup("weak", "short")}
Work(B, Q, R, minute, vars) ==
  [batches |-> B, queries |-> Q, requests |-> R, until |-> minute, env |-> vars, lines |-> 0,
   backend |-> "sqlite"]
MCAlertOf == <<[ip |-> "x", sig |-> 1], [ip |-> "x", sig |-> 2], [ip |-> "x", sig |-> 1]>>
Log(n) == [Work({}, {}, {}, 0, <<>>) EXCEPT !.lines = n]
Duck(B, Q, R, minute) == [Work(B, Q, R, minute, <<>>) EXCEPT !.backend = "duckdb"]
MCDuckWorkloads == {Duck({b1, b2}, {Asked("devices", 0, 2, 1)}, {}, 4)}
MCWorkloads ==
  {Work({b1, b2}, {q}, {}, 4, <<>>) : q \in Short} \cup
  {Work(B, Long, {}, 5, <<>>) : B \in {{b1, b2}, {b1, b3}}} \cup
  {Work({b1, b2}, {}, {Longer}, 5, <<>>), Work({b1}, {}, {Longer, Refused}, 5, <<>>)} \cup
  {Work({}, {}, R, 0, vars) :
     R \in {{Refused, Moved, Setup("first", "longer")},
           {Odd, Setup("first", "longer"), Setup("weak", "short")}},
     vars \in {<<>>, "sflow" :> 1, "environment" :> "staging" @@ "slack" :> "hook"}} \cup
  {Duck({b1, b2}, {q}, {}, 4) : q \in {r \in Short : r.kind \in {"devices", "samples", "records"}}} \cup
  {Duck({b2}, {}, {Longer}, 5), Log(MaxLines)}
===============================================================================

----------------------------- MODULE MCService ------------------------------
(* A small instance of Service: for every key the texts that are told apart, *)
(* and a line of each format, one that two formats know, and one of none.    *)
EXTENDS Service

Offer(sources, key, texts) == [source : sources, key : {key}, text : texts]

MCOffers ==
  UNION {
    Offer({"flag", "env", "file"}, "format", {"nginx", "json"}),
    Offer({"env"}, "format", {"odd"}),
    Offer({"flag"}, "window", {"1"}),
    Offer({"file"}, "window", {"1", "x"}),
    Offer({"flag"}, "bucket", {"2", "-1"}),
    Offer({"env", "file"}, "bucket", {"2", "x"}),
    Offer({"file"}, "method", {"sigma", "odd"}),
    Offer({"flag"}, "method", {"ratio"}),
    Offer({"file"}, "multiplier", {"60", "x"}),
    Offer({"env"}, "cooldown", {"x", "-1"}),
    Offer({"flag"}, "rate", {"1"}),
    Offer({"env", "file"}, "rate", {"2", "x"}),
    Offer({"flag", "file"}, "workers", {"1"}),
    Offer({"flag"}, "url", {"", "u"}),
    Offer({"env", "file"}, "url", {"u"}),
    Offer({"env", "file"}, "secret", {"s"}),
    Offer({"env", "file"}, "hook", {"true", "false"}),
    Offer({"env"}, "retries", {"1"}),
    Offer({"flag"}, "path", {"", "p"}),
    Offer({"file"}, "path", {"p"}),
    Offer({"env", "file"}, "tofile", {"true"}),
    Offer({"file"}, "metrics", {"m"})}

None == [access |-> {}, syslog |-> {}, json |-> {}]
Access(agents, status) == [host |-> "h", status |-> status, agents |-> agents, secs |-> 1]
Text(s) == [type |-> "string", val |-> s]
Num(n) == [type |-> "number", val |-> n]

MCLines ==
  {None,
   [None EXCEPT !.access = {Access(TRUE, 500)}],
   [None EXCEPT !.access = {Access(FALSE, 200)}],
   [None EXCEPT !.syslog = {[pri |-> 131, host |-> "h"]}],
   [None EXCEPT !.access = {Access(TRUE, 404)}, !.syslog = {[pri |-> 30, host |-> "h"]}],
   [None EXCEPT !.json = {[level |-> Text("error"), status_code |-> Num(200)]}],
   [None EXCEPT !.json = {[level |-> Num(3), severity |-> Text("ERROR"),
                           latency_ms |-> Text("slow"), duration_ms |-> Num(5)]}]}
=============================================================================

------------------------------ MODULE Formats -------------------------------
(***************************************************************************)
(* internal/parser: nginx.go, apache.go, syslog.go and json.go.  A line is *)
(* what the four matchers find in it, each a set of at most one element:   *)
(*   access  a match of the part nginxRe and apacheRe have in common:      *)
(*           [host, status, agents, secs], agents telling if referer and   *)
(*           user agent follow, secs the request time (0 if there is none, *)
(*           or it is no number)                                           *)
(*   syslog  a match of syslogRe: [pri, host]                              *)
(*   json    the object the line decodes to: a function from its keys to   *)
(*           values [type, val], numbers being integers.                   *)
(* A parser returns the set of the event it makes, empty if it has none.   *)
(* Time stamps, methods, paths and sizes are left out: no stage reads them.*)
(***************************************************************************)
EXTENDS LogEvent, Sequences, FiniteSetsExt

FormatNames == {"nginx", "apache", "syslog", "json"}

NginxParse(l) ==
  {[NoEvent EXCEPT !.host = m.host, !.status = m.status, !.lat = 1000 * m.secs] :
     m \in {x \in l.access : x.agents}}

ApacheParse(l) ==
  {[NoEvent EXCEPT !.host = m.host, !.status = m.status] :
     m \in {x \in l.access : ~x.agents}}

\* Variant: the facility is taken for the severity.
FacilityToLevel(pri) ==
  CASE pri \div 8 <= 2 -> "fatal"
    [] pri \div 8 = 3 -> "error"
    [] pri \div 8 = 4 -> "warn"
    [] OTHER -> "info"

PriToLevel(pri) ==
  CASE pri % 8 \in 0..2 -> "fatal"
    [] pri % 8 = 3 -> "error"
    [] pri % 8 = 4 -> "warn"
    [] pri % 8 \in 5..6 -> "info"
    [] OTHER -> "debug"

SyslogParse(l) ==
  {[NoEvent EXCEPT !.host = m.host, !.level = PriToLevel(m.pri)] : m \in l.syslog}

\* strings.ToLower, on the words that are told apart.
ToLower(s) == CASE s = "ERROR" -> "error" [] s = "Fatal" -> "fatal" [] OTHER -> s

LevelKeys == <<"level", "severity", "lvl">>
LatencyKeys == <<"latency_ms", "duration_ms", "elapsed_ms">>

IsText(v) == v.type = "string"
IsWord(v) == IsText(v) /\ v.val # ""
IsNumber(v) == v.type = "number"

\* The keys of an object under which there is a value of each kind.
Texts(obj) == {k \in DOMAIN obj : IsText(obj[k])}
Words(obj) == {k \in DOMAIN obj : IsWord(obj[k])}
Numbers(obj) == {k \in DOMAIN obj : IsNumber(obj[k])}

\* The value under the first of the keys that is one of `fit`.
FirstOf(obj, keys, fit, default) ==
  LET hits == {i \in DOMAIN keys : keys[i] \in fit}
  IN  IF hits = {} THEN default ELSE obj[keys[Min(hits)]].val

JsonParse(l) ==
  {[host   |-> FirstOf(obj, <<"host">>, Texts(obj), ""),
    status |-> FirstOf(obj, <<"status_code">>, Numbers(obj), 0),
    level  |-> ToLower(FirstOf(obj, LevelKeys, Words(obj), "")),
    lat    |-> FirstOf(obj, LatencyKeys, Numbers(obj), 0)] : obj \in l.json}

\* The parser registered under a name.
Parsed(f, l) == CASE f = "nginx"  -> NginxParse(l)
                  [] f = "apache" -> ApacheParse(l)
                  [] f = "syslog" -> SyslogParse(l)
                  [] f = "json"   -> JsonParse(l)

\* Variant: syslog is tried first, as it is tried before json.
ProbesSyslogFirst == <<"syslog", "nginx", "json", "apache">>

\* The candidates of the automatic parser, in the order they are tried.
Probes == <<"nginx", "syslog", "json", "apache">>

Unset == "unset"

\* The first name in a list whose parser knows the line.
FirstToKnow(names, l) ==
  LET knowing == {i \in DOMAIN names : Parsed(names[i], l) # {}}
  IN  IF knowing = {} THEN Unset ELSE names[Min(knowing)]

\* The candidate that takes a line.
Probe(l) == FirstToKnow(Probes, l)
=============================================================================

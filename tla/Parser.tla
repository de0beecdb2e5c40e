------------------------------- MODULE Parser -------------------------------
(***************************************************************************)
(* internal/parser: the pool's workers and the parser each of them owns.   *)
(* Lines are named here, unlike in Pipeline, because what becomes of one   *)
(* depends on the lines the same worker had before it.  Cancellation of    *)
(* the pool's context is the business of Pipeline.                         *)
(***************************************************************************)
EXTENDS Formats, SequencesExt

CONSTANTS
  Lines,    \* the lines there are
  MaxCrew   \* bound: workers

VARIABLES
  format,   \* the format the pool was made for
  crew,     \* the workers that have not returned
  queue,    \* the channel of lines
  closed,   \* it is closed
  locked,   \* per worker, the format its automatic parser has locked to
  holding,  \* per worker, the set of the event it is about to send
  taken     \* history: per worker, [line, events] for each line it took

vars == <<format, crew, queue, closed, locked, holding, taken>>

Workers == 1..MaxCrew

\* NewPool, and Run starting its goroutines.
Open(f, n) ==
  /\ format' = f
  /\ crew' = 1..(IF n < 1 THEN 1 ELSE n)
  /\ UNCHANGED <<queue, closed, locked, holding, taken>>

Init ==
  /\ format = Unset
  /\ crew = {}
  /\ queue = <<>>
  /\ closed = FALSE
  /\ locked = [w \in Workers |-> Unset]
  /\ holding = [w \in Workers |-> {}]
  /\ taken = [w \in Workers |-> <<>>]

-----------------------------------------------------------------------------

Feed(l) ==
  /\ ~closed
  /\ queue' = Append(queue, l)
  /\ UNCHANGED <<format, crew, closed, locked, holding, taken>>

Close ==
  /\ ~closed
  /\ closed' = TRUE
  /\ UNCHANGED <<format, crew, queue, locked, holding, taken>>

\* The parser that worker w applies to line l: the one of the pool's format or,
\* if that is automatic, the one it has locked to or now locks to.
Choice(w, l) ==
  IF format # "auto" THEN format
  ELSE IF locked[w] # Unset THEN locked[w]
  ELSE Probe(l)

\* A worker receives a line and parses it; it drops it or has an event to send.
WorkerTake(w) ==
  /\ w \in crew
  /\ holding[w] = {}
  /\ queue # <<>>
  /\ queue' = Tail(queue)
  /\ LET l == Head(queue)
         f == Choice(w, l)
         events == IF f = Unset THEN {} ELSE Parsed(f, l)
     IN  /\ locked' = [locked EXCEPT ![w] = IF format = "auto" THEN f ELSE @]
         /\ holding' = [holding EXCEPT ![w] = events]
         /\ taken' = [taken EXCEPT ![w] = Append(@, [line |-> l, events |-> events])]
  /\ UNCHANGED <<format, crew, closed>>

\* out <- event.
WorkerSend(w) ==
  /\ holding[w] # {}
  /\ holding' = [holding EXCEPT ![w] = {}]
  /\ UNCHANGED <<format, crew, queue, closed, locked, taken>>

\* Variant: the worker returns when the channel is closed, not when it is empty.
WorkerReturnAtClose(w) ==
  /\ w \in crew
  /\ holding[w] = {}
  /\ closed
  /\ crew' = crew \ {w}
  /\ UNCHANGED <<format, queue, closed, locked, holding, taken>>

WorkerReturn(w) ==
  /\ w \in crew
  /\ holding[w] = {}
  /\ queue = <<>> /\ closed
  /\ crew' = crew \ {w}
  /\ UNCHANGED <<format, queue, closed, locked, holding, taken>>

Worker(w) == WorkerTake(w) \/ WorkerSend(w) \/ WorkerReturn(w)

Next == Close \/ (\E l \in Lines : Feed(l)) \/ (\E w \in Workers : Worker(w))

-----------------------------------------------------------------------------

TypeOK ==
  /\ format \in FormatNames \cup {"auto", "odd", Unset}
  /\ crew \subseteq Workers
  /\ queue \in Seq(Lines)
  /\ locked \in [Workers -> FormatNames \cup {Unset}]
  /\ \A w \in Workers :
       /\ holding[w] # {} => w \in crew /\ taken[w] # <<>> /\ holding[w] = Last(taken[w]).events
       /\ locked[w] # Unset => taken[w] # <<>>

\* The lines any worker has taken, with what it made of them.
Takings == UNION {ToSet(taken[w]) : w \in Workers}

\* The order auto.go:14-17 gives for the candidates.
DocumentedOrder == <<"nginx", "syslog", "json", "apache">>
Claimant(l) == FirstToKnow(DocumentedOrder, l)

\* As long as one format claims all lines that any format claims, detection loses
\* none of them, however many workers there are and whoever takes which line.
HomogeneousLossless ==
  LET known == {t \in Takings : Claimant(t.line) # Unset}
  IN  format = "auto" /\ (\A t, u \in known : Claimant(t.line) = Claimant(u.line))
        => \A t \in known : t.events # {}

\* The word an object has for its level: under the first of json.go's aliases that
\* has one.
LevelWord(obj, word) ==
  \E i \in DOMAIN LevelKeys :
    /\ LevelKeys[i] \in Words(obj) /\ obj[LevelKeys[i]].val = word
    /\ \A j \in 1..(i - 1) : LevelKeys[j] \notin Words(obj)

\* Whether a line reports an error, in the terms of its format: a status that is one
\* in HTTP, a syslog severity of 0 to 3 (RFC 5424) or, in json, a word for it if
\* there is no status.
SaysError(f, l) ==
  CASE f \in {"nginx", "apache"} -> \E m \in l.access : m.status >= 400
    [] f = "syslog" -> \E m \in l.syslog : \E facility \in 0..m.pri : m.pri \in (8 * facility)..(8 * facility + 3)
    [] f = "json" -> \E obj \in l.json :
         LET http == "status_code" \in Numbers(obj) /\ obj["status_code"].val # 0
         IN  \/ http /\ obj["status_code"].val >= 400
             \/ ~http /\ \E word \in {"error", "ERROR", "fatal", "Fatal"} : LevelWord(obj, word)

\* The milliseconds a line took by its own account, 0 if it has none; only nginx
\* (in seconds) and json tell.
SaysLatency(f, l, ms) ==
  CASE f = "nginx" -> \A m \in l.access : ms = 1000 * m.secs
    [] f = "json" -> \A obj \in l.json :
         LET said == {obj[k].val : k \in ToSet(LatencyKeys) \cap Numbers(obj)}
         IN  IF said = {} THEN ms = 0 ELSE ms \in said
    [] OTHER -> ms = 0

\* The meaning of a line survives its format: by the counter's rule its event is an
\* error exactly if the line reports one, and the latency has the one unit that
\* p99s are compared in.
MeaningKept ==
  \A w \in Workers : \A i \in DOMAIN taken[w] :
    LET t == taken[w][i]
        f == IF format = "auto" THEN locked[w] ELSE format
    IN  \A e \in t.events :
          /\ IsError(e) <=> SaysError(f, t.line)
          /\ SaysLatency(f, t.line, e.lat)
=============================================================================

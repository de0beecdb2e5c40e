------------------------------ MODULE Service -------------------------------
(***************************************************************************)
(* The whole of a process seen from its two ends: the settings it is given *)
(* (Startup), and the lines that its pool of parsers, made from these      *)
(* settings, takes (Parser).  What follows the pool is in Pipeline.        *)
(***************************************************************************)
EXTENDS Integers, Sequences, FiniteSets

CONSTANTS
  Offers, NumCPU, Lines,
  MaxCrew,    \* bound: workers, at least as many as any setting asks for
  MaxInputs   \* bound: settings given and lines written, together

ASSUME OffersAssumption == \A o \in Offers : o.source \in {"flag", "env", "file"}
ASSUME CrewAssumption == NumCPU \in 1..MaxCrew /\ MaxCrew \in Nat /\ MaxInputs \in Nat

VARIABLES given, pc, cfg, alerters, recorder, ioError
VARIABLES format, crew, queue, closed, locked, holding, taken, written

startVars == <<given, pc, cfg, alerters, recorder, ioError>>
poolVars == <<format, crew, queue, closed, locked, holding, taken>>
vars == <<startVars, poolVars, written>>

S == INSTANCE Startup
P == INSTANCE Parser

\* What the matchers find in a line: one thing at most each, with digits for numbers.
ASSUME LinesAssumption ==
  \A l \in Lines :
    /\ \A found \in {l.access, l.syslog, l.json} : \A m, n \in found : m = n
    /\ \A m \in l.access : {m.status, m.secs} \subseteq Nat
    /\ \A m \in l.syslog : m.pri \in Nat
    /\ \A obj \in l.json : \A k \in P!Numbers(obj) : obj[k].val \in Int

ASSUME WorkersAssumption ==
  \A o \in Offers : o.key = "workers" => S!Number(o.text) <= MaxCrew

Init == S!Init /\ P!Init /\ written = 0

GivenCount ==
  Cardinality(DOMAIN given["flag"]) + Cardinality(DOMAIN given["env"]) + Cardinality(DOMAIN given["file"])

Give ==
  /\ GivenCount < MaxInputs
  /\ \E o \in Offers : S!Give(o)
  /\ UNCHANGED <<poolVars, written>>

Prepare == S!Prepare /\ UNCHANGED <<poolVars, written>>

\* The pool is made from the settings.
Start ==
  /\ S!Launch
  /\ IF pc' = "run" THEN P!Open(cfg.format, S!CrewSize) ELSE UNCHANGED poolVars
  /\ UNCHANGED written

\* Another process writes a line, which the tailer passes on.
Write ==
  /\ pc = "run"
  /\ GivenCount + written < MaxInputs
  /\ written' = written + 1
  /\ \E l \in Lines : P!Feed(l)
  /\ UNCHANGED startVars

CloseInput == pc = "run" /\ P!Close /\ UNCHANGED <<startVars, written>>

Work(w) == pc = "run" /\ P!Worker(w) /\ UNCHANGED <<startVars, written>>

\* The pool has returned, and with it, in the end, Pipeline.Run.
Exit ==
  /\ closed /\ crew = {}
  /\ S!Exit
  /\ UNCHANGED <<poolVars, written>>

Finished == pc \in S!Ended /\ UNCHANGED vars

Next ==
  \/ Give \/ Prepare \/ Start \/ Write \/ CloseInput \/ Exit \/ Finished
  \/ \E w \in 1..MaxCrew : Work(w)

Spec == Init /\ [][Next]_vars

-----------------------------------------------------------------------------

\* Every variable of the two components has its type, a running process has a
\* pool, and one that has exited has nothing left in it.
TypeOK ==
  /\ S!TypeOK
  /\ P!TypeOK
  /\ pc \notin {"run", "exited"} => crew = {} /\ format = "unset"
  /\ pc = "run" => format = cfg.format
  /\ pc = "exited" => queue = <<>> /\ \A w \in 1..MaxCrew : holding[w] = {}

\* README.md:377: the strongest setting given for a key decides (see Startup).
SettingsPrecedence == S!SettingsPrecedence

\* Every end of the process, and its running, is earned (see Startup).
EndsEarned == S!EndsEarned

\* One worker is asked for, by README.md:374 and 377 in the file as well as elsewhere;
\* or, by docs/application_knowledge.md:283, "exactly one format wins the race across
\* all pool workers". Either way no two parsers lock to different formats.
OneWorkerOneFormat ==
  S!Winner("workers") = "1" =>
    \A v, w \in 1..MaxCrew : {locked[v], locked[w]} \subseteq P!FormatNames => locked[v] = locked[w]

\* Detection loses no line of an input that one format claims as a whole, whoever
\* takes which line (see Parser).
HomogeneousLossless == P!HomogeneousLossless

\* An event is counted as an error exactly if its line reports one, and its latency
\* is in milliseconds (see Parser).
MeaningKept == P!MeaningKept
=============================================================================

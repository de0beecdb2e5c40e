------------------------------ MODULE Pipeline ------------------------------
(***************************************************************************)
(* internal/pipeline/pipeline.go: the goroutines Pipeline.Run starts, the  *)
(* seven channels between them, cancellation, and the ordered drain.       *)
(*                                                                         *)
(*   tailer > instrRaw > fwdRaw > raw > pool > instrEvt > fwdEvt > evt     *)
(*     > counter > instrCnt > fwdCnt > cnt > analyzer > anom > alert       *)
(*                                                                         *)
(* Lines, events, buckets and anomalies are counted, not named: which line *)
(* goes where is decided by no code of this component.  A channel is its   *)
(* length and whether it is closed.  What a stage does with an item (how   *)
(* a file is tailed, a bucket filled, a rule evaluated) is the business of *)
(* the stage's own module; here a stage keeps every step at which it       *)
(* blocks, looks at a context, closes a channel or returns.                *)
(***************************************************************************)
EXTENDS Integers

CONSTANTS
  Modes,       \* the input modes a behaviour may be started in
  MaxLines,    \* bound: lines the tailer reads in one behaviour
  Workers,     \* parser workers
  RawCap, EvtCap, CntCap, AnomCap,   \* channel capacities
  MaxTicks,    \* bound: ticks of the counter's ticker
  Rules,       \* detection rules that may fire on one bucket
  CtxAlerter,  \* TRUE if the alerter's Send gives up once ctx is cancelled
  Faults       \* TRUE if files and alerters may fail

ASSUME ModesAssumption == Modes \subseteq {"file", "follow", "stdin"}
ASSUME BoundsAssumption == MaxLines \in Nat /\ MaxTicks \in Nat /\ Rules \in Nat
ASSUME WorkersAssumption == Workers \in Nat \ {0}
ASSUME CapAssumption == {RawCap, EvtCap, CntCap, AnomCap} \subseteq Nat \ {0}
ASSUME FlagsAssumption == CtxAlerter \in BOOLEAN /\ Faults \in BOOLEAN

Chan == {"instrRaw", "raw", "instrEvt", "evt", "instrCnt", "cnt", "anom"}

\* The buffer sizes given to make(chan ...).
Cap == [c \in Chan |-> CASE c \in {"instrRaw", "raw"} -> RawCap
                         [] c \in {"instrEvt", "evt"} -> EvtCap
                         [] c \in {"instrCnt", "cnt"} -> CntCap
                         [] OTHER -> AnomCap]

\* The three forwarding goroutines, and the channels each moves items between.
Fwd == {"fwdRaw", "fwdEvt", "fwdCnt"}
From == [fwdRaw |-> "instrRaw", fwdEvt |-> "instrEvt", fwdCnt |-> "instrCnt"]
To == [fwdRaw |-> "raw", fwdEvt |-> "evt", fwdCnt |-> "cnt"]

Stages == Fwd \cup {"tailer", "pool", "counter", "analyzer", "alert", "sampler"}
Proc == Stages \cup {"main"}

VARIABLES
  mode,        \* how this pipeline reads: LogFile and Follow of the config
  pc,          \* where each goroutine is
  buf, closed, \* length of each channel; the channels closed so far
  ctx, ctrCtx, \* the context given to Run, and the counter's, are cancelled
  unread,      \* lines the source holds beyond the tailer's position
  srcOpen,     \* the other end of stdin is still open
  scanned,     \* lines the tailer has read and means to send
  idle, sending, \* workers waiting for a line; workers holding an event
  rejected,    \* lines no parser recognised
  inOpen,      \* the counter's local variable `in` is not nil
  counted,     \* events added to a bucket
  ticks,       \* ticks the counter has taken
  flushed,     \* buckets the counter has sent
  evaluated,   \* buckets the analyzer has received
  firing,      \* anomalies the current evaluation has still to send
  emitted,     \* anomalies sent by the analyzer
  delivered, failed  \* outcomes of alerter.Send

chanVars == <<buf, closed>>
ctxVars == <<ctx, ctrCtx>>
srcVars == <<unread, srcOpen, scanned>>
poolVars == <<idle, sending, rejected>>
ctrVars == <<inOpen, counted, ticks, flushed>>
anlVars == <<evaluated, firing, emitted>>
alertVars == <<delivered, failed>>
vars == <<mode, pc, chanVars, ctxVars, srcVars, poolVars, ctrVars, anlVars, alertVars>>

-----------------------------------------------------------------------------
(* Channels and program counters. *)

CanSend(c) == buf[c] < Cap[c]
Put(c) == buf' = [buf EXCEPT ![c] = @ + 1]

CanRecv(c) == buf[c] > 0
Take(c) == buf' = [buf EXCEPT ![c] = @ - 1]

\* A receive yields the zero value and ok = FALSE.
Exhausted(c) == c \in closed /\ buf[c] = 0

Goto(p, l) == pc' = [pc EXCEPT ![p] = l]

\* A goroutine returns: its deferred close(c) and wg.Done() run.
Finish(p, c) ==
  /\ Goto(p, "done")
  /\ closed' = closed \cup {c}
  /\ UNCHANGED buf

Init ==
  /\ mode \in Modes
  /\ pc = [p \in Proc |-> IF p = "main" THEN "preflight" ELSE "off"]
  /\ buf = [c \in Chan |-> 0]
  /\ closed = {}
  /\ ctx = FALSE
  /\ ctrCtx = FALSE
  /\ unread \in 0..MaxLines
  /\ srcOpen = TRUE
  /\ scanned = 0
  /\ idle = Workers
  /\ sending = 0
  /\ rejected = 0
  /\ inOpen = TRUE
  /\ counted = 0
  /\ ticks = 0
  /\ flushed = 0
  /\ evaluated = 0
  /\ firing = 0
  /\ emitted = 0
  /\ delivered = 0
  /\ failed = 0

-----------------------------------------------------------------------------
(* Run itself, and the world around it. *)

Entry(p) == CASE p = "main" -> "wait"
              [] p = "tailer" -> IF mode = "stdin" THEN "scan" ELSE "open"
              [] p \in {"pool", "sampler"} -> "run"
              [] p = "counter" -> "select"
              [] OTHER -> "recv"

\* The preflight open either fails, and Run returns the error, or every
\* goroutine is started.
Preflight ==
  /\ pc["main"] = "preflight"
  /\ \/ Faults /\ mode # "stdin" /\ Goto("main", "failed")
     \/ pc' = [p \in Proc |-> Entry(p)]
  /\ UNCHANGED <<mode, chanVars, ctxVars, srcVars, poolVars, ctrVars, anlVars, alertVars>>

\* Variant: Run waits for the alert loop instead of everyone.
ReturnAfterAlerts ==
  /\ pc["main"] = "wait"
  /\ pc["alert"] = "done"
  /\ Goto("main", "returned")
  /\ UNCHANGED <<mode, chanVars, ctxVars, srcVars, poolVars, ctrVars, anlVars, alertVars>>

\* wg.Wait() returns once every goroutine has.
Return ==
  /\ pc["main"] = "wait"
  /\ \A p \in Stages : pc[p] = "done"
  /\ Goto("main", "returned")
  /\ UNCHANGED <<mode, chanVars, ctxVars, srcVars, poolVars, ctrVars, anlVars, alertVars>>

\* SIGINT or SIGTERM. ctrCtx is a child of ctx, so it is cancelled with it.
Cancel ==
  /\ ~ctx
  /\ pc["main"] \in {"preflight", "wait"}
  /\ ctx' = TRUE
  /\ ctrCtx' = TRUE
  /\ UNCHANGED <<mode, pc, chanVars, srcVars, poolVars, ctrVars, anlVars, alertVars>>

\* Another process appends a line to the log file, or writes one to stdin. (What
\* is there before Run is in Init; what comes after it is nobody's business.)
Append ==
  /\ pc["main"] = "wait"
  /\ srcOpen
  /\ scanned + unread < MaxLines
  /\ unread' = unread + 1
  /\ UNCHANGED <<mode, pc, chanVars, ctxVars, srcOpen, scanned, poolVars, ctrVars, anlVars, alertVars>>

\* The other end of stdin is closed.
CloseStdin ==
  /\ pc["main"] = "wait"
  /\ mode = "stdin"
  /\ srcOpen
  /\ srcOpen' = FALSE
  /\ UNCHANGED <<mode, pc, chanVars, ctxVars, unread, scanned, poolVars, ctrVars, anlVars, alertVars>>

-----------------------------------------------------------------------------
(* The tailer. *)

TailReturn == Finish("tailer", "instrRaw") /\ UNCHANGED srcVars

\* openFile, and the seek to the end of the file that follow mode asks for.
TailOpen ==
  /\ pc["tailer"] = "open"
  /\ \/ Faults /\ TailReturn
     \/ /\ Goto("tailer", "poll")
        /\ unread' = IF mode = "follow" THEN 0 ELSE unread
        /\ UNCHANGED <<chanVars, srcOpen, scanned>>

\* Top of the read loop: the only look at ctx while lines keep coming.
TailPoll ==
  /\ pc["tailer"] = "poll"
  /\ \/ (ctx \/ Faults) /\ TailReturn
     \/ ~ctx /\ Goto("tailer", "scan") /\ UNCHANGED <<chanVars, srcVars>>

\* scanner.Scan() finds a line. On stdin ctx is looked at before it is sent.
TailScan ==
  /\ pc["tailer"] = "scan"
  /\ unread > 0
  /\ unread' = unread - 1
  /\ IF mode = "stdin"
     THEN Goto("tailer", "got") /\ UNCHANGED scanned
     ELSE Goto("tailer", "send") /\ scanned' = scanned + 1
  /\ UNCHANGED <<chanVars, srcOpen>>

\* The stdin reader's check of ctx: the line in hand is abandoned.
TailGot ==
  /\ pc["tailer"] = "got"
  /\ \/ ctx /\ TailReturn
     \/ /\ ~ctx
        /\ Goto("tailer", "send")
        /\ scanned' = scanned + 1
        /\ UNCHANGED <<chanVars, unread, srcOpen>>

\* The blocking send, which looks at no context.
TailSend ==
  /\ pc["tailer"] = "send"
  /\ CanSend("instrRaw")
  /\ Put("instrRaw")
  /\ Goto("tailer", "scan")
  /\ UNCHANGED <<closed, srcVars>>

\* Scan() returns false: at the end of a file, on a read error, or when the
\* other end of stdin is gone. An empty but open stdin blocks instead.
TailDrained ==
  /\ pc["tailer"] = "scan"
  /\ Faults \/ unread = 0
  /\ mode = "stdin" => Faults \/ ~srcOpen
  /\ IF mode = "follow"
     THEN Goto("tailer", "stat") /\ UNCHANGED <<chanVars, srcVars>>
     ELSE TailReturn

\* Follow mode looks at the file again. Rotation, truncation, and an append it
\* mistakes for a truncation put the reader back at the start of a file that
\* holds any number of lines.
TailStat ==
  /\ pc["tailer"] = "stat"
  /\ \/ Goto("tailer", "sleep") /\ UNCHANGED <<chanVars, srcVars>>
     \/ /\ Goto("tailer", "poll")
        /\ unread' \in 0..(MaxLines - scanned)
        /\ UNCHANGED <<chanVars, srcOpen, scanned>>

TailSleep ==
  /\ pc["tailer"] = "sleep"
  /\ \/ ctx /\ TailReturn
     \/ Goto("tailer", "poll") /\ UNCHANGED <<chanVars, srcVars>>

Tailer ==
  /\ TailOpen \/ TailPoll \/ TailScan \/ TailGot \/ TailSend \/ TailDrained \/ TailStat \/ TailSleep
  /\ UNCHANGED <<mode, ctxVars, poolVars, ctrVars, anlVars, alertVars>>

-----------------------------------------------------------------------------
(* The forwarding goroutines: for x := range in { record; out <- x }. *)

FwdRecv(f) ==
  /\ pc[f] = "recv"
  /\ CanRecv(From[f])
  /\ Take(From[f])
  /\ Goto(f, "send")
  /\ UNCHANGED closed

FwdSend(f) ==
  /\ pc[f] = "send"
  /\ CanSend(To[f])
  /\ Put(To[f])
  /\ Goto(f, "recv")
  /\ UNCHANGED closed

FwdExit(f) == pc[f] = "recv" /\ Exhausted(From[f]) /\ Finish(f, To[f])

Forward(f) ==
  /\ FwdRecv(f) \/ FwdSend(f) \/ FwdExit(f)
  /\ UNCHANGED <<mode, ctxVars, srcVars, poolVars, ctrVars, anlVars, alertVars>>

-----------------------------------------------------------------------------
(* The parser pool: the workers, and the goroutine that waits for them. *)

WorkerAccept ==
  /\ idle' = idle - 1
  /\ sending' = sending + 1
  /\ UNCHANGED rejected

WorkerReject ==
  /\ rejected' = rejected + 1
  /\ UNCHANGED <<idle, sending>>

\* A worker's select receives a line; it parses, or it is silently dropped.
WorkerTake ==
  /\ pc["pool"] = "run"
  /\ idle > 0
  /\ CanRecv("raw")
  /\ Take("raw")
  /\ WorkerAccept \/ WorkerReject
  /\ UNCHANGED <<pc, closed, ctxVars>>

\* The blocking send of a parsed event, which looks at no context.
WorkerSend ==
  /\ sending > 0
  /\ CanSend("instrEvt")
  /\ Put("instrEvt")
  /\ sending' = sending - 1
  /\ idle' = idle + 1
  /\ UNCHANGED <<pc, closed, ctxVars, rejected>>

\* A worker returns: ctx is cancelled, or the channel of lines is used up.
WorkerQuit ==
  /\ pc["pool"] = "run"
  /\ idle > 0
  /\ ctx \/ Exhausted("raw")
  /\ idle' = idle - 1
  /\ UNCHANGED <<pc, chanVars, ctxVars, sending, rejected>>

\* Variant: the workers that still hold an event are not waited for.
PoolReturnEarly ==
  /\ pc["pool"] = "run"
  /\ idle = 0
  /\ ctrCtx' = TRUE
  /\ Goto("pool", "close")
  /\ UNCHANGED <<chanVars, ctx, poolVars>>

\* Variant: nobody cancels ctrCtx at end of file.
PoolReturnNoCancel ==
  /\ pc["pool"] = "run"
  /\ idle = 0 /\ sending = 0
  /\ Goto("pool", "close")
  /\ UNCHANGED <<chanVars, ctxVars, poolVars>>

\* The pool's wg.Wait() returns. Deferred calls run last in, first out:
\* the counter's context is cancelled before instrEvt is closed.
PoolReturn ==
  /\ pc["pool"] = "run"
  /\ idle = 0 /\ sending = 0
  /\ ctrCtx' = TRUE
  /\ Goto("pool", "close")
  /\ UNCHANGED <<chanVars, ctx, poolVars>>

PoolClose ==
  /\ pc["pool"] = "close"
  /\ Finish("pool", "instrEvt")
  /\ UNCHANGED <<ctxVars, poolVars>>

Pool ==
  /\ WorkerTake \/ WorkerSend \/ WorkerQuit \/ PoolReturn \/ PoolClose
  /\ UNCHANGED <<mode, srcVars, ctrVars, anlVars, alertVars>>

-----------------------------------------------------------------------------
(* The counter: select over the events, the ticker and its context. *)

CtrAdd ==
  /\ pc["counter"] \in {"select", "drain"}
  /\ inOpen
  /\ CanRecv("evt")
  /\ Take("evt")
  /\ counted' = counted + 1
  /\ UNCHANGED <<pc, closed, inOpen, ticks, flushed>>

CtrInClosed ==
  /\ pc["counter"] = "select"
  /\ inOpen
  /\ Exhausted("evt")
  /\ inOpen' = FALSE
  /\ UNCHANGED <<pc, chanVars, counted, ticks, flushed>>

CtrTick ==
  /\ pc["counter"] = "select"
  /\ ticks < MaxTicks
  /\ ticks' = ticks + 1
  /\ Goto("counter", "flush")
  /\ UNCHANGED <<chanVars, inOpen, counted, flushed>>

CtrFlush ==
  /\ pc["counter"] = "flush"
  /\ CanSend("instrCnt")
  /\ Put("instrCnt")
  /\ flushed' = flushed + 1
  /\ Goto("counter", "select")
  /\ UNCHANGED <<closed, inOpen, counted, ticks>>

CtrStop ==
  /\ pc["counter"] = "select"
  /\ ctrCtx
  /\ Goto("counter", "drain")
  /\ UNCHANGED <<chanVars, inOpen, counted, ticks, flushed>>

\* The non-blocking drain ends at the first moment evt is empty, closed or not.
CtrDrained ==
  /\ pc["counter"] = "drain"
  /\ ~inOpen \/ buf["evt"] = 0
  /\ Goto("counter", "final")
  /\ UNCHANGED <<chanVars, inOpen, counted, ticks, flushed>>

\* Variant: the last bucket is counted as sent and never is.
CtrFinalUnsent ==
  /\ pc["counter"] = "final"
  /\ Finish("counter", "instrCnt")
  /\ flushed' = flushed + 1
  /\ UNCHANGED <<inOpen, counted, ticks>>

\* The last, partial bucket is sent; then the deferred close.
CtrFinal ==
  /\ pc["counter"] = "final"
  /\ CanSend("instrCnt")
  /\ Put("instrCnt")
  /\ flushed' = flushed + 1
  /\ closed' = closed \cup {"instrCnt"}
  /\ Goto("counter", "done")
  /\ UNCHANGED <<inOpen, counted, ticks>>

Counter ==
  /\ CtrAdd \/ CtrInClosed \/ CtrTick \/ CtrFlush \/ CtrStop \/ CtrDrained \/ CtrFinal
  /\ UNCHANGED <<mode, ctxVars, srcVars, poolVars, anlVars, alertVars>>

-----------------------------------------------------------------------------
(* The analyzer, the alert loop and the sampler. *)

\* A bucket is received and evaluated: any number of the rules may fire.
AnlTake ==
  /\ pc["analyzer"] = "recv"
  /\ CanRecv("cnt")
  /\ Take("cnt")
  /\ evaluated' = evaluated + 1
  /\ firing' \in 0..Rules
  /\ Goto("analyzer", "eval")
  /\ UNCHANGED <<closed, emitted>>

AnlEmit ==
  /\ pc["analyzer"] = "eval"
  /\ firing > 0
  /\ CanSend("anom")
  /\ Put("anom")
  /\ firing' = firing - 1
  /\ emitted' = emitted + 1
  /\ UNCHANGED <<pc, closed, evaluated>>

AnlNext ==
  /\ pc["analyzer"] = "eval"
  /\ firing = 0
  /\ Goto("analyzer", "recv")
  /\ UNCHANGED <<chanVars, anlVars>>

\* Variant: the analyzer runs under ctx.
AnlExitOnCtx ==
  /\ pc["analyzer"] = "recv"
  /\ ctx \/ Exhausted("cnt")
  /\ Finish("analyzer", "anom")
  /\ UNCHANGED anlVars

\* The analyzer runs under context.Background(): only the close of its input
\* stops it.
AnlExit ==
  /\ pc["analyzer"] = "recv"
  /\ Exhausted("cnt")
  /\ Finish("analyzer", "anom")
  /\ UNCHANGED anlVars

Analyzer ==
  /\ AnlTake \/ AnlEmit \/ AnlNext \/ AnlExit
  /\ UNCHANGED <<mode, ctxVars, srcVars, poolVars, ctrVars, alertVars>>

AlertTake ==
  /\ pc["alert"] = "recv"
  /\ CanRecv("anom")
  /\ Take("anom")
  /\ Goto("alert", "send")
  /\ UNCHANGED <<closed, alertVars>>

Refused == CtxAlerter /\ ctx

AlertOK ==
  /\ pc["alert"] = "send"
  /\ ~Refused
  /\ delivered' = delivered + 1
  /\ Goto("alert", "recv")
  /\ UNCHANGED <<chanVars, failed>>

\* An error is logged and the anomaly is gone.
AlertFail ==
  /\ pc["alert"] = "send"
  /\ Refused \/ Faults
  /\ failed' = failed + 1
  /\ Goto("alert", "recv")
  /\ UNCHANGED <<chanVars, delivered>>

AlertExit ==
  /\ pc["alert"] = "recv"
  /\ Exhausted("anom")
  /\ Goto("alert", "done")
  /\ UNCHANGED <<chanVars, alertVars>>

Alert ==
  /\ AlertTake \/ AlertOK \/ AlertFail \/ AlertExit
  /\ UNCHANGED <<mode, ctxVars, srcVars, poolVars, ctrVars, anlVars>>

\* Variant: the sampler does not hear of samplerDone.
SamplerExitOnCtx == pc["sampler"] = "run" /\ ctx /\ Goto("sampler", "done")

\* samplerDone is closed when the alert loop is done.
SamplerExit == pc["sampler"] = "run" /\ (ctx \/ pc["alert"] = "done") /\ Goto("sampler", "done")

Sampler ==
  /\ SamplerExit
  /\ UNCHANGED <<mode, chanVars, ctxVars, srcVars, poolVars, ctrVars, anlVars, alertVars>>

-----------------------------------------------------------------------------

\* Run has returned: nothing is left to do.
Terminated == pc["main"] \in {"returned", "failed"} /\ UNCHANGED vars

Next ==
  \/ Preflight \/ Return \/ Cancel \/ Append \/ CloseStdin
  \/ Tailer \/ Pool \/ Counter \/ Analyzer \/ Alert \/ Sampler
  \/ \E f \in Fwd : Forward(f)
  \/ Terminated

Spec == Init /\ [][Next]_vars

(***************************************************************************)
(* Fairness: the Go scheduler runs every goroutine that can run, and Send  *)
(* returns.  Nothing is assumed of signals, of the writers of the log, or  *)
(* of a reader that stops: ticks and lines are bounded, so weak fairness   *)
(* of the counter as a whole is enough to get it past its ticker.          *)
(***************************************************************************)
Fairness ==
  /\ WF_vars(Preflight) /\ WF_vars(Return)
  /\ WF_vars(Tailer) /\ WF_vars(Pool) /\ WF_vars(Counter)
  /\ WF_vars(Analyzer) /\ WF_vars(Alert) /\ WF_vars(Sampler)
  /\ \A f \in Fwd : WF_vars(Forward(f))

FairSpec == Spec /\ Fairness

-----------------------------------------------------------------------------
(* Type invariant. *)

Labels == {"preflight", "wait", "returned", "failed", "off", "open", "poll", "scan", "got",
           "send", "stat", "sleep", "recv", "run", "close", "select", "flush", "drain",
           "final", "eval", "done"}

PlacesOK ==
  /\ mode \in {"file", "follow", "stdin"}
  /\ pc \in [Proc -> Labels]

ChannelsOK ==
  /\ buf \in [Chan -> Nat]
  /\ \A c \in Chan : buf[c] <= Cap[c]

FlagsOK ==
  /\ closed \subseteq Chan
  /\ ctx \in BOOLEAN
  /\ ctrCtx \in BOOLEAN
  /\ srcOpen \in BOOLEAN
  /\ inOpen \in BOOLEAN

NumbersOK ==
  /\ unread \in Nat /\ scanned \in Nat
  /\ idle \in Nat /\ sending \in Nat /\ rejected \in Nat
  /\ counted \in Nat /\ ticks \in Nat /\ flushed \in Nat
  /\ evaluated \in Nat /\ firing \in Nat /\ emitted \in Nat
  /\ delivered \in Nat /\ failed \in Nat

\* Every variable has its type, and no channel holds more than its capacity.
TypeOK == PlacesOK /\ ChannelsOK /\ FlagsOK /\ NumbersOK

-----------------------------------------------------------------------------
(* Conservation: nothing is lost or made twice while it is under way. *)

\* What goroutine p holds between its receive and its send.
Held(p) == IF pc[p] = "send" THEN 1 ELSE 0

\* Lines between the tailer and the bucket they end in.
LinesUnderWay ==
  Held("tailer") + buf["instrRaw"] + Held("fwdRaw") + buf["raw"] + sending
    + buf["instrEvt"] + Held("fwdEvt") + buf["evt"]

\* Every line the tailer read is rejected, counted, or still under way.
LinesConserved == scanned = rejected + counted + LinesUnderWay

\* Every bucket the counter sent is evaluated or on its way to the analyzer.
BucketsConserved == flushed = evaluated + buf["instrCnt"] + Held("fwdCnt") + buf["cnt"]

\* Every anomaly sent is delivered, failed, queued or being delivered.
AnomaliesConserved == emitted = delivered + failed + buf["anom"] + Held("alert")

-----------------------------------------------------------------------------
(* Safety. *)

\* No goroutine is ever about to send on a closed channel, which would panic:
\* every channel outlives its last sender, all the workers of the pool included
\* (the defer order of pipeline.go:141-147).
NoSendOnClosed ==
  /\ pc["tailer"] = "send" => "instrRaw" \notin closed
  /\ \A f \in Fwd : pc[f] = "send" => To[f] \notin closed
  /\ sending > 0 => "instrEvt" \notin closed
  /\ pc["counter"] \in {"flush", "final"} => "instrCnt" \notin closed
  /\ firing > 0 => "anom" \notin closed

\* The ordered drain of pipeline.go:47-54, as far as it goes: a channel is
\* closed only once the one before it is closed and empty; the pool and the
\* counter may also stop early, the pool because ctx is cancelled, the counter
\* because ctx is cancelled or the pool is through with every line.
DrainOrder ==
  /\ \A f \in Fwd : To[f] \in closed => Exhausted(From[f])
  /\ "instrEvt" \in closed => ctx \/ Exhausted("raw")
  /\ "instrCnt" \in closed => ctx \/ (Exhausted("raw") /\ sending = 0)
  /\ "anom" \in closed => Exhausted("cnt")
  /\ pc["alert"] = "done" => Exhausted("anom")

Returned == pc["main"] = "returned"

\* What is left when Run returns. The only events that can be missing from the
\* buckets are those still in evt, behind the counter's back; after end of file
\* no unparsed line is left, after a cancel some may be, in raw alone. Nothing
\* is left between the counter and the alerter: every bucket was evaluated and
\* every anomaly handed to Send (pipeline.go:206-209).
SettledAtReturn ==
  Returned =>
    /\ scanned = rejected + counted + buf["raw"] + buf["evt"]
    /\ ctx \/ buf["raw"] = 0
    /\ flushed = evaluated
    /\ emitted = delivered + failed

-----------------------------------------------------------------------------
(* The inductive invariant. *)

\* Before the goroutines are started nothing has happened.
NotStarted ==
  pc["main"] \in {"preflight", "failed"} =>
    /\ \A p \in Stages : pc[p] = "off"
    /\ idle = Workers

\* A channel is closed exactly by the goroutine that owns its sending end.
ClosedByOwner ==
  /\ "instrRaw" \in closed <=> pc["tailer"] = "done"
  /\ \A f \in Fwd : To[f] \in closed <=> pc[f] = "done"
  /\ "instrEvt" \in closed <=> pc["pool"] = "done"
  /\ "instrCnt" \in closed <=> pc["counter"] = "done"
  /\ "anom" \in closed <=> pc["analyzer"] = "done"

\* Workers stop only for a reason, and the pool after all of its workers.
PoolState ==
  /\ idle + sending <= Workers
  /\ idle + sending < Workers => ctx \/ Exhausted("raw")
  /\ pc["pool"] \in {"off", "run", "close", "done"}
  /\ pc["pool"] = "off" => sending = 0 /\ idle = Workers
  /\ pc["pool"] \in {"close", "done"} => idle = 0 /\ sending = 0 /\ ctrCtx

\* The counter's context ends with ctx or with the pool; the counter after it.
CounterState ==
  /\ ctx => ctrCtx
  /\ ctrCtx => ctx \/ pc["pool"] \in {"close", "done"}
  /\ pc["counter"] \in {"drain", "final", "done"} => ctrCtx
  /\ ~inOpen => Exhausted("evt")
  /\ firing > 0 => pc["analyzer"] = "eval"

AllDone == Returned => \A p \in Stages : pc[p] = "done"

IInv ==
  /\ TypeOK
  /\ LinesConserved /\ BucketsConserved /\ AnomaliesConserved
  /\ DrainOrder
  /\ NotStarted /\ ClosedByOwner /\ PoolState /\ CounterState /\ AllDone

-----------------------------------------------------------------------------
(* Refinement: the pipeline keeps the contract on lines. *)

Flow == INSTANCE LineFlow WITH
  read <- scanned,
  ended <- pc["main"] \in {"returned", "failed"}

FlowSpec == Flow!FlowSpec

-----------------------------------------------------------------------------
(* Liveness. *)

\* The forwarder of events faces a full channel the counter no longer reads.
StuckOnEvt == pc["counter"] = "done" /\ pc["fwdEvt"] = "send" /\ ~CanSend("evt")

\* The forwarder of lines faces a full channel the workers no longer read.
StuckOnRaw == pc["pool"] = "done" /\ pc["fwdRaw"] = "send" /\ ~CanSend("raw")

\* The tailer sits in a read of stdin that nothing will end.
StuckOnStdin == mode = "stdin" /\ pc["tailer"] = "scan" /\ unread = 0 /\ srcOpen

\* Reading a file to its end returns as long as it holds no more events than evt
\* can buffer, whenever the counter stops. The bound is sharp: see RunReturns.
SmallFileReturns ==
  (mode = "file" /\ pc["main"] = "wait")
    ~> (Returned \/ ctx \/ scanned - rejected > Cap["evt"])

\* Once ctx is cancelled or the pool is through, Run returns or is stuck in one
\* of three ways: there is no other way to hang.
HangsOnlyThere ==
  (pc["main"] = "wait" /\ (ctx \/ pc["pool"] = "done"))
    ~> (Returned \/ StuckOnEvt \/ StuckOnRaw \/ StuckOnStdin)

\* Even then the back half winds down: the last bucket is evaluated and the
\* alert loop ends.
AlertsFinish ==
  (pc["main"] = "wait" /\ (ctx \/ pc["pool"] = "done")) ~> pc["alert"] = "done"

-----------------------------------------------------------------------------
(* What the documentation and the tests say, and the code does not do. *)

\* "Guarantees no events are lost" at shutdown: here after a plain end of file.
NoEventLost == Returned /\ ~ctx => scanned = rejected + counted

\* "pipeline must return after EOF, not block forever".
RunReturns == (mode = "file" /\ pc["main"] = "wait") ~> (Returned \/ ctx)
=============================================================================

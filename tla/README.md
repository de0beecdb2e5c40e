# A verification project for loganalyser

TLA+ specifications of loganalyser, the TLC runs that check them on small
instances, and theorems about them that TLAPS proves for every value of their
constants. Paths are relative to `src/`. `PROJECT.json` maps every definition
that models code to its lines, and lists the runs, seeded bugs, hazards,
findings and theorems.

## 1. The system

loganalyser follows a log (a file or stdin), parses its lines, counts events
into buckets of `BucketDuration`, compares each bucket with a sliding window of
earlier ones, and sends an alert for each anomaly. Everything runs in one
process, as goroutines joined by bounded channels:

    tailer > instrRaw > fwdRaw > raw > pool of workers > instrEvt > fwdEvt > evt
      > counter > instrCnt > fwdCnt > cnt > analyzer > anom > alert loop > alerters

Nothing is persisted. The only state two goroutines share is the sliding window
(analyzer and `fwdCnt`), behind an RWMutex, the file that is tailed, written by
other programs, and the two contexts: the caller's `ctx` and the counter's
`ctrCtx`, which the pool cancels as well when it is through.

| Component | State | Operations | What makes it correct |
|---|---|---|---|
| pipeline (`internal/pipeline`) | goroutines, 7 channels, 2 contexts, WaitGroup | `Run`: preflight, start, ordered drain, return | no send on a closed channel; nothing lost or made twice on the way; channels drain from front to back; `Run` returns |
| tailer (`internal/tailer`) | open file, offset, last stat, scanner's buffer | `runFile` (open, seek, scan, stat, reopen, poll), `runStdin` | whole lines, in order; rotation and truncation noticed; old content not sent in follow mode; ends on cancel |
| parser pool (`internal/parser`) | workers, each with its own automatic parser | `Run`, `Parse` | every line rejected or sent once; the channel closed after the last worker; what is rejected is explained by the format |
| parsers (`internal/parser`) | the format an automatic parser has locked to | `Parse` of nginx, apache, syslog, json, auto | one unit of time and one scale of severity out of four formats |
| counter (`internal/counter`) | current bucket, ticker, local `in` | event, tick, cancel, drain, last flush | each event in one bucket; windows follow one another; the numbers in a bucket agree; buffered events counted at shutdown |
| sliding window (`internal/window`, `pkg/ringbuf`) | slots, head, count, RWMutex | `Push`, `Snapshot`, `Len`, `Cap` | the last buckets, oldest first; snapshots are atomic |
| statistics (`internal/window/stats.go`) | none | `Mean`, `StdDev`, `P99Latency`, `ErrorRate` | equal to their definitions |
| analyzer (`internal/analyzer`) | window, cooldown per kind | `evaluate`: five rules; cooldown; blocking send | no false alarm; nothing missed; one kind not more often than its cooldown |
| alerters (`internal/alerter`) | files, HTTP client, retry loop | `Send`, `Close` | nil means delivered; given up only for a cause; bounded retries; `Send` returns |
| config (`internal/config`) | the merged settings | `Load`, `extract`, `Validate` | flags over environment over file over defaults; what runs was valid; no secret out of a file |
| command line (`cmd/loganalyser`) | flags, the alerters and the recorder built | `RunE`: load, override, validate, build, run, exit | every destination that is set has an alerter; a refusal has a cause |
| metrics (`internal/metrics`) | Prometheus counters, HTTP server | counting, `Shutdown` | nothing reads the counters back |
| demo programs | load | | not part of the program |

What is hard here: *interleaving* (six stages, three forwarders and a sampler,
any of which may be anywhere when `ctx` is cancelled), *order of shutdown*
(seven channels, each closed by a deferred call of its sender, and two contexts),
*blocking sends* on bounded channels whose reader may be gone, *a file that is
written, renamed, truncated and recreated between any two system calls*, *ticks
that come late or not at all*, *retries* with lost answers. `hazards` in
`PROJECT.json` has them at their lines.

## 2. Modules

| Module | Models | Relation |
|---|---|---|
| `LineFlow` | what `Run` promises about lines | abstract specification of `Pipeline` |
| `Pipeline` | `pipeline.go`, with `Pool.Run` and `runStdin` | implements `LineFlow` |
| `PipelineProofs` | | theorems about `Pipeline` |
| `SlidingWindow` | what `window` promises; `Slide` is used by `Analyzer` too | abstract specification of `Window` |
| `RingBuf` | index arithmetic of `ringbuf.go` | extended by `Window` |
| `Window` | `window.go` under its lock, one step per assignment | implements `SlidingWindow` |
| `WindowProofs` | | theorems about `Window` |
| `Tailer` | `runFile`, and the writers of the file | |
| `TailerProofs` | | theorems about `Tailer` |
| `Stats` | sums and the percentile by the nearest rank, of `counter.go` and `stats.go` | extended by `Counter` and `Analyzer` |
| `StatsProofs` | | lemmas about `Stats`; induction in the form the provers take |
| `LogEvent` | what of a `ParsedEvent` later stages read, and which is an error | used by `Formats` and `Counter` |
| `Formats` | `nginx.go`, `apache.go`, `syslog.go`, `json.go`, and the order of `auto.go` | extended by `Parser` |
| `Parser` | `Pool.Run` and `autoParser`, line by line and worker by worker | component of `Service` |
| `Startup` | `internal/config` and `RunE` of `cmd/loganalyser` | component of `Service` |
| `Service` | the process from its settings to what its pool makes of its input | composes `Startup` and `Parser`; implements `Startup` |
| `ServiceProofs` | | theorems about `Service`, and so about `Startup` and `Parser` |
| `Counter` | `counter.go`, with a clock | |
| `CounterProofs`, `AnalyzerProofs`, `AlertersProofs` | | theorems about these three |
| `Analyzer` | `analyzer.go` and what it uses of `stats.go`, with a clock | window by its contract |
| `Alerters` | the alert loop's `Send`, `multi.go`, `file.go`, `console.go`, `webhook.go` | |
| `MC...` | constants of the instances TLC checks | extend their module |

A comment `Variant:` marks an operator that is no part of a specification: it is
a plausible bug in the definition that follows it. `PROJECT.json` pairs each with
a property, which TLC finds violated when the variant takes its place.

### How they correspond to the code

**Pipeline.** `pc[p]` is where goroutine `p` stands; a step runs up to the next
point at which the goroutine can block, look at a context, close a channel or
return. Items are counted, not named, so a channel is its length and whether it
is closed. Deferred calls run in the order Go runs them: the pool cancels
`ctrCtx` before it closes `instrEvt` (`PoolReturn`, `PoolClose`), a forwarder
closes its target when it leaves its loop. A select with several ready cases is
a disjunction. Between its receive and its send a forwarder *holds* an item that is in no
channel: state a test cannot see, and the invariants account for.
In `stdin` mode the tailer blocks in a read that only a line or end of input
ends. Inside a stage only what blocks or ends is kept; the rest is in the module
of that stage.

**Tailer.** Files are sequences of bytes, as few as tell things apart: a line is
one byte or, if written in two parts, two, and a newline; one line may have three,
which with its newline is more than `BufMax`, the scanner's buffer (1 MB in the
code), can hold. `Scan` then fails, and nobody asks why: for `Drained` that is the
end of the file. `path` is the file the
name stands for now, `fd` the one that is open. Every system call is a step, so
writers act between any two of them; `Fill` is one read of the scanner's buffer,
which may be ahead of the lines that were sent. `mtime` is a clock that each
write advances: two writes never have the same time stamp.

**Startup.** A setting is a key and a text in one of three sources. Settings the
code treats alike are one key: `rate` is every setting that has to be in (0, 1],
`multiplier` every one that only has to be positive, `cooldown` the one that may be 0,
and `workers` and `retries` are keys that `extract` does not read. Conversions do what viper does: a text that is no number is 0, silently.
`cfg` is made in the order of the code: `Extract` merges defaults, file and
environment and drops what `extract` drops, `Override` puts the flags that were
given on top. Reading a file, opening the alert file and the preflight may each
fail (`ioError`). The flag values are already converted when the code sees them;
cobra refuses others before.

**Parser and Formats.** A line *is* what the four matchers find in it, each
possibly nothing, so a line two formats know is one of the sorts. `Formats` is
what the parsers do with the captures: seconds to milliseconds, PRI to a level,
keys in their order of preference, letters to lower case. `Parser` takes lines one
at a time per worker; `locked` is the detection each worker makes for itself.
`taken` is history.

**Service.** Settings are given, the process starts or not, then lines come; the
pool is made for `cfg.format` with as many workers as `CrewSize` says. It is one
behaviour: a format set in the environment decides what becomes of a line later.

**Stats.** The p99 is the value of rank `(percent * n + 99) \div 100`, found by
counting what is below it instead of sorting. The analyzer's p99 over a window is
the same operator.

**Counter.** `Percent` is 99 in the code; with two events 99 would only
ever be the maximum, so TLC has 50. `now` is a clock, `due` the tick that waits in the ticker's channel
of capacity one or is to come; ticks that find it full are dropped. `out <-` may
block for any time, which is `FlushTick` taken late. `prompt` records that
nothing was held up.

**Analyzer.** A bucket is its total, errors, p99 and hosts. Comparisons of ratios
are multiplied out into integers, standard deviations squared; both are exact,
where the code rounds to float64. A setting of type float64 is a fraction, as every
finite float64 is: `AnalyzerAssumption` admits any positive multiplier and any rate in
(0, 1], which is what `Validate` does. `evaluate` is one step per rule, since each
may block in a send with the cooldown already set.

**Alerters.** The alerters run as goroutines of `MultiAlerter.Send`, which joins
them. A post is `Do` then one of its outcomes; whether the receiver took the
request is a separate choice, so an answer may be lost. `do` makes an error of a
status from 400 on only (`webhook.go:147`), so a redirect that the client cannot
follow, or has followed with a GET, passes for success: the outcome `redirected`, after
which the receiver may have taken the alert or not. `verdict` is history: the outcome
that ended the retries.

**Window.** One step per assignment of `Push` and per entry copied by
`Snapshot`, under a lock modelled as its holders.

## 3. Runs

| Run | Bounds | Shows |
|---|---|---|
| `pipeline_safety` | file and follow mode, 2 lines, 2 workers, 1 tick, 1 rule, channels of 1, faults | the inductive invariant, no send on a closed channel, what may be left at return, refinement of `LineFlow` |
| `pipeline_live` | every mode, 2 lines, 1 worker, no tick, no faults | `Run` returns, or hangs in one of three places and no other; the alert side always finishes |
| `pipeline_event_lost` | file of up to 2 lines | finding 1 |
| `pipeline_hangs` | file of up to 2 lines | finding 2 |
| `window` | 3 slots, 2 values, pusher and reader | lock discipline; refinement of `SlidingWindow` |
| `tailer` | 2 lines of which one may be too long, 2 files, 1 truncation, both modes | order, completeness and liveness of tailing |
| `tailer_reread` | 2 lines, 1 file | finding 3 |
| `counter` | bucket of 2, channel of 2, 2 events of 4 sorts, 5 time units | contents, percentile and windows of buckets |
| `service` | 3 settings and lines in all, out of 47 settings and 7 sorts of lines, 2 workers | which settings win, what starts, what becomes of lines |
| `service_one_worker` | the same | findings 4 and 5 |
| `analyzer` | window of 3, 5 buckets of 3 sorts, 2 hosts, 2 time units | alarms against the detection table |
| `alerters` | 4 attempts, 2 delays, 2 anomalies | what nil and what an error mean, retries, cancellation |

Why the bounds are enough to be worth it. *Pipeline*: channels of one item are
full and empty at once in all combinations; two lines are one more than `evt`
holds, which is what a forwarder needs to be stuck; two workers let one stop
while the other still sends. A reader on stdin makes twice as many states as the
other two modes together and is left to `pipeline_live` and to the proofs, which
cover every mode and all other values too. *Window*: with 3
slots head wraps after the third push, and a reader that copies can be anywhere.
*Tailer*: two files allow one rotation and the case in which the new file is not
there yet; one truncation may come before, between or after the lines.
*Service*: precedence needs two settings of one key and an invalid start two of
different keys, so three leave one to disturb; detection needs a line that locks,
a line of another format and a second worker, or one format set and two lines.
*Counter*: 5 time units are two whole periods and one unfinished, with room for
a tick that is two periods late. *Analyzer*: five buckets fill the window and
slide it twice; the multipliers (5/2) and rates (1/200, 2/5) are no integers, and such
that each rule both fires and does not fire. *Alerters*: four attempts are more than delays plus one, so
the clamped index is used twice; a delay of 0 makes the timer and `ctx` ready at
once.

Deadlock is checked except in the runs of `Pipeline`: there `Run` really can
stop with every goroutine blocked (finding 2, and after a cancel), and
`HangsOnlyThere` says where. Everywhere else a stop is an explicit stuttering
step of the end state.

### Safety, in words

- `Pipeline.NoSendOnClosed`, `SettledAtReturn`, and in `IInv` conservation of
  lines, buckets and anomalies, and `DrainOrder`.
- `Tailer.PassInOrder`: what was sent since the last seek is exactly the bytes
  between there and `offset`, as whole lines, as long as writers write whole
  lines. `EofReadsAll`: without follow all that was there at the start is sent.
- `EofReadsAll` and `QuietFileIsRead` are excused by a line that does not fit the
  scanner's buffer, from there on, and by nothing else that is in the file. A
  torn line is in fact only made whole because of finding 3: it leaves the offset
  wrong, which passes for a truncation, and the file is read again. A line too long
  after it prevents even that, and `PassInOrder` says what is certain then.
- `Counter.EventsKept`, `WindowsTile`, `PromptBuckets`, `BufferedCounted`;
  `BucketsExplained`: the tallies of a bucket agree with one another and its p99
  is the latency of an event it holds, of the rank the definition demands.
- `Service.SettingsPrecedence`: `cfg` has, for every key that is read, the strongest
  setting given. `EndsEarned`: what runs was valid *after* the last override and
  has an alerter for each destination set; what was refused had a cause; only a
  bucket duration that is not positive crashes.
- `Service.HomogeneousLossless`: as long as one
  format claims all the lines, no scheduling loses any. `MeaningKept`: an event is
  an error to the counter exactly if its line says so in the terms of its format,
  and latencies are milliseconds.
- `Analyzer.CooldownKept`; `NoFalseAlarm` and `NothingMissed`, which compare what
  was reported with the detection table of `README.md:229-234`, restated over the
  history of buckets and not over the analyzer's window.
- `Alerters.NilMeansDelivered`: a nil of `Send` means that every destination has the
  alert, with one exception that is named: an exchange that ended in a redirect.
  `GivesUpForCause`: an error, though the writers wrote, means that `ctx` was cancelled,
  that the receiver refused with a 4xx, that the client timed out, or that the whole
  budget was used. The timeout is an exception too: `webhook.go:67` names the other
  causes only. `WritersKeepUp`, `RetriesBounded`.

### Liveness and fairness

`Pipeline.FairSpec` is weak fairness of each goroutine: the Go scheduler runs
what can run. A goroutine's steps are one action, so this never promises that a
select takes a particular case; lines and ticks are bounded, so the counter
cannot loop on them. Nothing is assumed of signals, of writers or of the other
end of stdin. It is also assumed that `Send` returns, which `Alerters.SendReturns`
shows under weak fairness of the alerter goroutines, of timers, and of the HTTP
client, whose own timeout ends every request. (A client built from a loaded
configuration has the timeout 0, which is none, `main.go:255`; it is never used for a
post as long as such a configuration has no attempts either, `ZeroRetries`.) `Tailer.FairSpec` is weak fairness
of the tailer's goroutine, its poll timer included; writers may stop anywhere.
`QuietFileIsRead` is therefore about lines that stay at the path, and excuses only
a cancel and a path that named nothing when it was opened.

## 4. Proofs

`tlapm M.tla` checks the proofs of a module `M`.

**Pipeline** (assumptions: one worker or more, channels of capacity one or more,
bounds that are naturals; nothing about modes or faults beyond their types).
`Invariance` proves `IInv`. `TypeCorrect`, `NoPanic`, `Settlement` and
`Implements` follow from it. None of these is inductive by itself:

- A send on a closed channel is excluded by *ownership* (`ClosedByOwner`: a
  channel is closed if and only if its only sender is done) and, for the pool,
  by its counters (`PoolState`: no worker holds an event once the pool closes).
- What may be left at return needs *conservation* (scanned = rejected + counted +
  under way), and that everything but `raw` and `evt` is empty, which is
  `DrainOrder` applied from the last stage back to the tailer, together with why
  each stage may stop (`PoolState`, `CounterState`).
- `DrainOrder` in turn needs ownership, since an exhausted channel stays so only
  because its sender is done, and `NotStarted`, since nothing is closed before
  the goroutines start.
- Refinement: the steps of the pool and the counter map to `Reject` and `Count`,
  enabled by conservation (a line held by a worker is unsettled); all others
  stutter; `AllDone` shows that nothing moves after `End`.

Why the pipeline winds down is proved as far as it can be without fairness, from the
moment the counter's context is cancelled (`Stopping`: `ctx` was, or the pool is through
with every line). A predicate `...Ready` for each goroutine joins the guards of its
actions; it is read off them by hand, and it is `ENABLED` of the goroutine, which
TLC confirms on small instances and the prover cannot state.

- `OnlyThere`: if nobody is ready the pipeline is in one of the three states of
  `HangsOnlyThere`. The argument goes from the alert loop back: who cannot move waits
  for a channel, so its neighbour has room for what it holds or input to take, and
  cannot be done because of ownership; so the next one is stuck for the same reason,
  back to the counter, whose select is ready once its context is cancelled. Then the
  same from `fwdEvt` to the tailer, each of which may be left in front of a full
  channel nobody reads. `BackHalfFree` is the first half of it.
- `WindingDown`: every step but a tick of the counter and a line that others append
  makes `(Front, Back)` smaller in the order of pairs. `Front` charges each item for the
  steps still before it, up to the channel the analyzer reads, `Back` for the rest; an
  evaluation, which may emit any number of anomalies, is paid for by the bucket it takes
  from `Front`. Before `ctx` is cancelled the counter's context ends only with the pool,
  and then the tailer is done (`TailerGone`); afterwards it passes the top of its loop no
  more. The exceptions are real: while lines come as fast as the tailer scans, it does
  not look at `ctx`.

Together they say that a pipeline left to itself runs out of steps, and where. That
each goroutine that is ready does take its step is fairness, and stays with TLC.

**Window** (assumption: capacity one or more, which is what `Validate`'s
`WindowSize >= BucketDuration` gives for positive durations; the pusher is one of
the threads). `PushSlides` is the arithmetic: writing the slot at `head` and
advancing head and count turns the logical contents `s` into `Slide(s, b)`, for
every capacity, wrapped or not. `Invariance` proves the lock discipline and that
a partial copy is a beginning of the buffer. `Implements` maps a push to the
moment it writes its slot, and a snapshot to the moment it is complete.

**Startup, Parser and Service** (assumptions: a matcher finds at most one thing in a
line, with digits for its codes and times, as the expressions demand; and `MaxCrew`, a
bound of the model that may be any number, is not below the workers a setting asks for). `IInv` says how `cfg` is put together at each stage and what
every check that has been passed guarantees from there on; `SettingsPrecedence` and
`EndsEarned` are not inductive, since they say nothing of the stages before
`Validate`. The step from one to the other is `FinalIsIntended`: three overlays, in
the order of the code, give each key its strongest text. `ImplementsStartup` shows that
nothing that happens to lines touches the settings. For the lines, `EachForItself` and
`MeaningKept` are statements about everything a worker ever took, and need what the
next line will meet: that `locked` is what the first line the worker knew decided, and
that `format` is the one in `cfg`. `EachForItself` (theorem `EachDetects`) is what the
code does about detection: a worker's lines are judged by what that worker had seen
before, and by no other's. It is a theorem and not a property of a run, because the
documents promise something else (finding 5). `Meaning` then goes through the four parsers,
format by format and key by key.

**Stats.** `PercentileIs`: for every list of integers and every percent the `CHOOSE`
in `Percentile` has a value, it is an element of the list, and it has the rank asked
for. No smaller instance shows that, and `BucketsExplained` rests on it.

**Counter** (assumptions: durations and capacities positive, `Percent` from 1 to 100,
latencies integers). `WindowsTile` needs that
the last window delivered ends where the bucket being filled starts (`Tiles`), and
that this start is before the next tick, which rests on `NextTick`: the ticker moves
on to a multiple of its period that is later than now by at most a period.
`PromptBuckets` needs, for each place `Run` can be at, how the tick, the bucket's
start and the clock relate (`Punctual`). `EventsKept` says that *some* cutting of `sent`
into buckets exists; `Flow` carries the cuts along and says where the first event
not yet taken is, so that a count lengthens the last slice and a flush begins an empty
one. `BufferedCounted` is the part of `Flow` about `promised`: an event that was
buffered when `ctx` was cancelled leaves the channel before the drain ends.
`BucketsExplained` compares maps with counts of events; `Accounts` says that each tally
is the number of events of its sort, and one event changes both by one.
`DeliveredAsAssumed` adds that a bucket's errors are among its events (`Rates`) and that
no p99 is negative, and so discharges what the analyzer assumes of its input.

**Analyzer** (assumptions: what `Validate` checks, for settings that are finite numbers,
each a fraction of positive integers; and `BucketsAssumption`, that
errors and the events of one host are among a bucket's events, which
`CounterProofs.DeliveredAsAssumed` proves of every bucket the counter delivers). `CooldownKept`
needs that the cooldown of a kind is the time of its latest anomaly (`Stamped`): then an
anomaly that is not suppressed is a cooldown later than all of its kind. `NoFalseAlarm`
and `NothingMissed` speak of the history, the rules of the window; `Windowed` says that
the window is the last `Capacity` buckets of the history before the bucket at hand,
`DetectedIsExpected` that on such a window each rule is the table's row: that sums,
deviations, percentiles and runs of silent buckets come out the same. `Account` adds
what has been judged so far: each anomaly by the table, and each row of the table up to
the rule at hand either reported or within a cooldown that a reported anomaly began.
Two theorems follow from these about settings `Validate` lets through.
`MutedBySettings`: a window too small for `MinBaselineSamples` is never warm, so nothing
is ever reported, and one too small for `SilenceThreshold` never yields a silence.
`SilenceWithoutThreshold`: with a threshold of zero or less every bucket that meets a warm
window is a silence, however busy it was. No document forbids such settings or says what
they mean, so neither is a finding.

**Tailer** (assumptions: one line or more and one file or more, and no line is too long
that is not a line). `PassInOrder` relates `pass`, which only grows by tokens, to
`offset`, which is summed up from their lengths. It needs `InStep`: every file is tidy
(whole lines, those begun later further back), `offset` is a place where a line
begins, and what the scanner has read ahead is what follows `offset` in the file, up to
a line's end if it has seen the end of the file. Then a token is never the rest of a torn
line (`TokenIsLine`), and the byte `Scan` skips is a newline. A writer's append keeps all
that because a file only grows (`Grown`), and a rotation because the reader starts
again at a boundary. `EofReadsAll` needs `ReadingOnce` on top: every line before
`offset` has been sent; the lines that were there at the opening are all there, before any
others; once the end of the file was seen, all of them are within what was read. When
`Scan` fails because of a line too long, that line is the one at `offset`, and what is
readable lies before it. `PassEnds` is about time: each step of the tailer but the start
of a new pass makes `PassLeft` smaller, which charges a byte in the file for its read, its
scan and its send. Writers may add to it between any two steps, so a pass over a file that
grows as fast as it is read has no end, and within it nobody looks at `ctx`.

**Alerters** (assumption: there is at least one delay; `NilDelivered` also that the
budget is not 0). `Budget` counts attempts against
posts, `Taken` says that the retry loop goes on only while every request taken was
blurred, `HookNil` and `Written` what a nil of each alerter means before it is joined.
`ZeroRetries` is the other case: with a budget of 0, which is that of every loaded
configuration, nothing is posted and `Send` returns nil. `GivenUp` needs `Spent`, that
each attempt of the loop but the one under way was posted and ended in something to
retry, and `ErrorMeans`, why an alerter that has returned an error did.
`SendEnds` counts the steps a `Send` has left, four for each attempt of the budget, one
for each writer and one for the join; whatever the receiver answers and whenever `ctx` is
cancelled, no step but the next anomaly adds to them.

*Induction.* Several of these theorems are about sequences of any length. The
induction theorems of the library take an operator and cannot be used; instead
`StatsProofs.Inductive` is stated for sets: a set of numbers that contains 0 and the
successor of each of its members contains all. It follows from the well-foundedness of
`<`, and a lemma about every length defines the set of the lengths it holds for.

Every safety invariant that a passing run checks is proved, and so are the refinements of `LineFlow` and `SlidingWindow`. **Only
model-checked** is liveness (`SmallFileReturns`, `HangsOnlyThere`, `AlertsFinish`,
`QuietFileIsRead`, `CancelStops`, `SendReturns`): all of it rests on fairness, and so on
`ENABLED`, which the prover does not reason about. For `HangsOnlyThere`, `AlertsFinish`,
`CancelStops` and `SendReturns` the part that needs no fairness is proved for all
constants, as told above: a measure that every step makes smaller, and for the first two
and the last that somebody can move. `PassInOrder` and `EofReadsAll` say
nothing of writers that tear lines or truncate (`tidy`); that such a file is still read
in the end is `QuietFileIsRead`.

## 5. Findings

1. *An event can be lost at a plain end of file* (`pipeline_event_lost`). The
   pool cancels the counter's context before `instrEvt` is drained, and the
   counter stops at the first moment `evt` is empty; events the forwarder still
   holds are never counted. `README.md:181` says none are dropped.
2. *`Run` may never return at end of file* (`pipeline_hangs`). The same order: when
   the counter has gone, the forwarder fills `evt` and blocks for ever. It takes
   more events in flight than `evt` holds; `SmallFileReturns` shows that with
   fewer `Run` returns.
3. *Follow mode sends old content* (`tailer_reread`). The stat kept from the
   opening is not refreshed by reading, so an append that has just been read
   looks like an overwrite of the same size and the file is read again from the
   start.
4. *`parser_workers` works only as a flag* (`service_one_worker`). The documents list
   it as a key of the file, under the precedence of `README.md:377`; `extract`
   (`config.go:185`) does not read it. A file that asks for one worker gets as many as
   there are CPUs.
5. *Each worker detects a format of its own* (`service_one_worker`). The documents
   describe one race across the pool, with one winner, on the first line; every worker
   has its own `autoParser` (`parser.go:88`) and locks by its own first line, so with
   mixed input which lines are dropped depends on the scheduling. The run needs both:
   with one worker there would be nothing to race.

Each is shown by a run TLC finds violated, with the line of a document or a test it
contradicts in `PROJECT.json`.

Met while modelling, without a run of their own:

- *A loaded configuration makes no webhook attempt.* `extract` leaves `MaxRetries` at 0
  (`config.go:207`), and the loop of `webhook.go:83` then returns nil without a post, while
  `docs/application_knowledge.md:852` promises nil on success only. Proved
  (`AlertersProofs.ZeroRetries`).
- A 3xx that is not followed, or followed with a GET, makes `Send` return nil
  (`webhook.go:147`), so nil is not always delivery. The comment at `webhook.go:153`
  suggests that this is meant.
- The client's own timeout satisfies `errors.Is(err, context.DeadlineExceeded)`, so it
  ends the retries (`webhook.go:113`) although `ctx` is alive.
- The silence rule counts buckets, the table (`README.md:233`) seconds; they agree for
  buckets of one second.
- A text that is no duration or number reads as 0; for the bucket duration that
  passes `Validate` and crashes at `pipeline.go:101` (`EndsEarned` allows it).
- `Validate` compares neither the minimum baseline nor the silence threshold with
  the capacity of the window; above it the analyzer reports nothing, or never notices
  a silence (proved: `MutedBySettings`).
- An alerter is built if its URL or path is set; `enabled` alone decides nothing but
  whether `Validate` demands one.
- `MultiAlerter` has no `Close`, so the alert file is closed only by the end of the
  process, which loses nothing as `Send` does not buffer.
- Under cobra `cmd.Context()` is never nil, so the branch of `main.go:87` that
  installs the signal handler is not taken, and a signal ends the process undrained.
- A worker whose `NewParser` fails returns without a word; `Validate` keeps unknown
  formats from getting that far.

## 6. What is left out

- Matching: which text the regular expressions and the JSON decoder accept. A line
  is given by what they find. Time stamps, methods, paths and sizes, which nothing
  reads; wording, severity, payload and signature of alerts; log output.
- CRLF, and two writes within one time stamp.
- Rounding of float64, and NaN and the infinities, which `Validate` does not refuse as a
  multiplier. The analyzer takes a bucket's p99 as given, the counter
  computes it.
- viper's second set of environment names and bare numbers as durations; the keys
  `follow`, `verbose` and `poll_interval`, which nothing checks; `LoadFile`, which
  only tests call; the `validate` command, which is `Startup` up to `Validate`.
- Signals (see above), and the Prometheus counters, which nothing reads back. The
  demo programs.
- `ErrorRate`, `Len`, `Cap` beyond reading.
- Crash recovery: nothing is persisted, so there is none.

## 7. Plan

In this order; the first four groups are done.

1. *Core*: `Pipeline` and `LineFlow`, with proofs; `Window` and `SlidingWindow`,
   with proofs.
2. *Stages*: `Tailer`, `Counter`, `Analyzer`, `Alerters`, each with its run.
3. *Edges*: `Startup`, `Formats`, `Parser`, and `Service` that composes them, with
   proofs about the settings; the percentile of a bucket; lines too long to scan.
4. *Proofs*: done for every safety invariant, and for the part of liveness that needs
   no fairness; left is the order of tokens that were torn, for which no property is
   stated yet.
5. *Composition*: the counter's shutdown contract as seen by `Pipeline`, so that
   `Counter.BufferedCounted` and `Pipeline.SettledAtReturn` meet in one
   specification.

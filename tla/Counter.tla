------------------------------ MODULE Counter ------------------------------
(***************************************************************************)
(* internal/counter/counter.go: events are counted into buckets of         *)
(* BucketDuration.  Time is discrete.  A ticker keeps one tick for a       *)
(* receiver that is late, with the time it was due at, and drops the ticks *)
(* after it; that is how a counter held up in `out <-` falls behind.       *)
(* ErrorRate is kept as the two counts it is the quotient of.              *)
(***************************************************************************)
EXTENDS LogEvent, Stats

CONSTANTS
  BucketDuration,
  Percent,    \* 99 in the code; any other makes p99 differ from the maximum sooner
  Events,     \* the events there are
  InCap,      \* capacity of `in`
  MaxEvents,  \* bound: events sent
  MaxTime     \* bound: the clock

ASSUME CounterAssumption ==
  /\ {BucketDuration, InCap, MaxEvents} \subseteq Nat \ {0}
  /\ MaxTime \in Nat
  /\ Percent \in 1..100

\* A latency is a time.Duration, an integer.
ASSUME EventsAssumption == \A e \in Events : e.lat \in Int

VARIABLES
  now,
  prompt,   \* time waits for the goroutine and the reader of `out`
  in,       \* the channel
  closed,   \* `in` is closed
  inNil,    \* the local variable `in` was set to nil
  ctx,      \* the context is cancelled
  due,      \* when the tick at hand, or the next one, is due
  pc,
  cur,      \* the bucket being filled
  end,      \* WindowEnd of the bucket being sent
  out,      \* the EventCounts delivered
  sent,     \* history: the events ever sent into `in`
  promised  \* history: how many of them before ctx was cancelled

vars == <<now, prompt, in, closed, inNil, ctx, due, pc, cur, end, out, sent, promised>>

Hosts == {e.host : e \in Events} \ {""}
Statuses == {e.status : e \in Events} \ {0}
Levels == {e.level : e \in Events} \ {""}

\* The map of a bucket starts empty; a missing key reads as zero.
Zero(keys) == [k \in keys |-> 0]
CountOne(m, k) == IF k \in DOMAIN m THEN [m EXCEPT ![k] = @ + 1] ELSE m

\* evs is history: each event counted and the time it was.
NewBucket(t) ==
  [start |-> t, total |-> 0, errors |-> 0,
   byStatus |-> Zero(Statuses), byHost |-> Zero(Hosts), byLevel |-> Zero(Levels),
   latencies |-> <<>>, evs |-> <<>>]

\* A latency of 0 is one that the line did not tell.
Timed(l, e) == IF e.lat > 0 THEN Append(l, e.lat) ELSE l

\* Variant: an event with a status and a level is in both maps.
AddBothKinds(b, e) ==
  [start |-> b.start,
   total |-> b.total + 1,
   errors |-> IF IsError(e) THEN b.errors + 1 ELSE b.errors,
   byStatus |-> CountOne(b.byStatus, e.status),
   byHost |-> CountOne(b.byHost, e.host),
   byLevel |-> CountOne(b.byLevel, e.level),
   latencies |-> Timed(b.latencies, e),
   evs |-> Append(b.evs, [e |-> e, at |-> now])]

Add(b, e) ==
  [start |-> b.start,
   total |-> b.total + 1,
   errors |-> IF IsError(e) THEN b.errors + 1 ELSE b.errors,
   byStatus |-> CountOne(b.byStatus, e.status),
   byHost |-> CountOne(b.byHost, e.host),
   byLevel |-> IF IsHttp(e) THEN b.byLevel ELSE CountOne(b.byLevel, e.level),
   latencies |-> Timed(b.latencies, e),
   evs |-> Append(b.evs, [e |-> e, at |-> now])]

Flush(b, t) ==
  [start |-> b.start, end |-> t, total |-> b.total, errors |-> b.errors,
   byStatus |-> b.byStatus, byHost |-> b.byHost, byLevel |-> b.byLevel,
   p99 |-> Percentile(Percent, b.latencies), evs |-> b.evs]

Init ==
  /\ now = 0
  /\ prompt \in BOOLEAN
  /\ in = <<>>
  /\ closed = FALSE
  /\ inNil = FALSE
  /\ ctx = FALSE
  /\ due = BucketDuration
  /\ pc = "new"
  /\ cur = NewBucket(0)
  /\ end = 0
  /\ out = <<>>
  /\ sent = <<>>
  /\ promised = 0

-----------------------------------------------------------------------------
(* The writer of `in`, the owner of ctx, and time. *)

Put(e) ==
  /\ ~closed
  /\ Len(in) < InCap
  /\ Len(sent) < MaxEvents
  /\ in' = Append(in, e)
  /\ sent' = Append(sent, e)
  /\ UNCHANGED <<now, prompt, closed, inNil, ctx, due, pc, cur, end, out, promised>>

Close ==
  /\ ~closed
  /\ closed' = TRUE
  /\ UNCHANGED <<now, prompt, in, inNil, ctx, due, pc, cur, end, out, sent, promised>>

Cancel ==
  /\ ~ctx
  /\ ctx' = TRUE
  /\ promised' = Len(sent)
  /\ UNCHANGED <<now, prompt, in, closed, inNil, due, pc, cur, end, out, sent>>

CanReceive == ~inNil /\ (in # <<>> \/ closed)
Busy == IF pc = "select" THEN CanReceive \/ now >= due \/ ctx ELSE pc # "done"

Pass ==
  /\ now < MaxTime
  /\ ~(prompt /\ Busy)
  /\ now' = now + 1
  /\ UNCHANGED <<prompt, in, closed, inNil, ctx, due, pc, cur, end, out, sent, promised>>

-----------------------------------------------------------------------------
(* Run. *)

\* The ticker was created at time 0; the first bucket starts now.
FirstBucket ==
  /\ pc = "new"
  /\ cur' = NewBucket(now)
  /\ pc' = "select"
  /\ UNCHANGED <<now, prompt, in, closed, inNil, ctx, due, end, out, sent, promised>>

\* Variant: `ok` is not looked at.
CountZeroValues ==
  /\ pc = "select"
  /\ CanReceive
  /\ in' = IF in # <<>> THEN Tail(in) ELSE in
  /\ cur' = Add(cur, IF in # <<>> THEN Head(in) ELSE NoEvent)
  /\ UNCHANGED <<now, prompt, closed, inNil, ctx, due, pc, end, out, sent, promised>>

\* Variant: time.After in the select instead of a ticker.
CountRestartsTimer ==
  /\ pc = "select"
  /\ in # <<>>
  /\ cur' = Add(cur, Head(in))
  /\ in' = Tail(in)
  /\ due' = now + BucketDuration
  /\ UNCHANGED <<now, prompt, closed, inNil, ctx, pc, end, out, sent, promised>>

Count ==
  /\ pc = "select"
  /\ ~inNil
  /\ \/ /\ in # <<>>
        /\ cur' = Add(cur, Head(in))
        /\ in' = Tail(in)
        /\ UNCHANGED inNil
     \/ /\ in = <<>>
        /\ closed
        /\ inNil' = TRUE
        /\ UNCHANGED <<in, cur>>
  /\ UNCHANGED <<now, prompt, closed, ctx, due, pc, end, out, sent, promised>>

\* The tick is taken out of the ticker, which moves on to the first multiple of
\* its period that has not passed yet. The bucket's end is the time the tick was
\* due at.
Tick ==
  /\ pc = "select"
  /\ now >= due
  /\ end' = due
  /\ due' = due + BucketDuration * (1 + (now - due) \div BucketDuration)
  /\ pc' = "flush"
  /\ UNCHANGED <<now, prompt, in, closed, inNil, ctx, cur, out, sent, promised>>

\* Variant: the next bucket starts when the last one was taken.
FlushRestartNow ==
  /\ pc = "flush"
  /\ out' = Append(out, Flush(cur, end))
  /\ cur' = NewBucket(now)
  /\ pc' = "select"
  /\ UNCHANGED <<now, prompt, in, closed, inNil, ctx, due, end, sent, promised>>

\* out <- cur.flush(t) goes through, and the next bucket starts where it ended.
FlushTick ==
  /\ pc = "flush"
  /\ out' = Append(out, Flush(cur, end))
  /\ cur' = NewBucket(end)
  /\ pc' = "select"
  /\ UNCHANGED <<now, prompt, in, closed, inNil, ctx, due, end, sent, promised>>

\* Variant: the channel is not drained.
StopUndrained ==
  /\ pc = "select"
  /\ ctx
  /\ end' = now
  /\ pc' = "last"
  /\ UNCHANGED <<now, prompt, in, closed, inNil, ctx, due, cur, out, sent, promised>>

Stop ==
  /\ pc = "select"
  /\ ctx
  /\ pc' = "drain"
  /\ UNCHANGED <<now, prompt, in, closed, inNil, ctx, due, cur, end, out, sent, promised>>

\* Variant: the last bucket is given a full period.
DrainFillsPeriod ==
  /\ pc = "drain"
  /\ in = <<>>
  /\ end' = due
  /\ pc' = "last"
  /\ UNCHANGED <<now, prompt, in, closed, inNil, ctx, due, cur, out, sent, promised>>

\* Receives as long as one is possible at once; then the last bucket ends now.
Drain ==
  /\ pc = "drain"
  /\ \/ /\ ~inNil
        /\ in # <<>>
        /\ cur' = Add(cur, Head(in))
        /\ in' = Tail(in)
        /\ UNCHANGED <<pc, end>>
     \/ /\ inNil \/ in = <<>>
        /\ end' = now
        /\ pc' = "last"
        /\ UNCHANGED <<in, cur>>
  /\ UNCHANGED <<now, prompt, closed, inNil, ctx, due, out, sent, promised>>

FlushLast ==
  /\ pc = "last"
  /\ out' = Append(out, Flush(cur, end))
  /\ pc' = "done"
  /\ UNCHANGED <<now, prompt, in, closed, inNil, ctx, due, cur, end, sent, promised>>

Run == FirstBucket \/ Count \/ Tick \/ FlushTick \/ Stop \/ Drain \/ FlushLast

Finished == pc = "done" /\ UNCHANGED vars

Next ==
  \/ \E e \in Events : Put(e)
  \/ Close \/ Cancel \/ Pass \/ Run \/ Finished

Spec == Init /\ [][Next]_vars

-----------------------------------------------------------------------------

BucketOK(b) ==
  /\ b.start \in 0..now
  /\ b.total = Len(b.evs)
  /\ b.byStatus \in [Statuses -> 0..b.total]
  /\ b.byHost \in [Hosts -> 0..b.total]
  /\ b.byLevel \in [Levels -> 0..b.total]

\* Every variable has its type; the tick at hand is never more than one period
\* ahead of the clock.
TypeOK ==
  /\ BucketOK(cur)
  /\ \A i \in DOMAIN out : BucketOK(out[i]) /\ out[i].end \in 0..now
  /\ end \in 0..now
  /\ due \in 1..(now + BucketDuration)
  /\ promised \in 0..Len(sent)
  /\ inNil => closed /\ in = <<>>
  /\ pc \in {"new", "select", "flush", "drain", "last", "done"}

\* The buckets delivered, with the one that is being filled or sent.
Buckets == IF pc = "done" THEN out ELSE Append(out, Flush(cur, end))

EventsOf(evs) == [i \in DOMAIN evs |-> evs[i].e]

\* The events sent fall apart at the places of `cut` into those of each bucket and
\* those still in the channel.
CutBy(cut) ==
  /\ cut[0] = 0
  /\ \A i \in DOMAIN Buckets :
       cut[i - 1] <= cut[i] /\ EventsOf(Buckets[i].evs) = SubSeq(sent, cut[i - 1] + 1, cut[i])
  /\ in = SubSeq(sent, cut[Len(Buckets)] + 1, Len(sent))

Cuts == {cut \in [0..Len(Buckets) -> 0..Len(sent)] : CutBy(cut)}

\* Whatever the order of events, ticks, close and cancel, every event taken from
\* the channel is in exactly one bucket, in the order sent, and closing the channel
\* counts nothing.
EventsKept == Cuts # {}

\* The sum of m over some of its keys, counted out.
Units(m, keys) == UNION {{k} \X (1..m[k]) : k \in keys}
Total(m, keys) == Cardinality(Units(m, keys))

\* What a bucket reports is consistent: its errors are those its status and level
\* maps account for, no event is in both maps, and no rate or share exceeds one.
TalliesAgree(b) ==
  /\ b.errors = Total(b.byStatus, {s \in Statuses : s >= 400})
                + Total(b.byLevel, Levels \cap {"error", "fatal"})
  /\ Total(b.byStatus, Statuses) + Total(b.byLevel, Levels) <= b.total
  /\ Total(b.byHost, Hosts) <= b.total

\* Its p99 is 0 if none of its events tells a latency, and otherwise the latency of
\* one of those, which at least Percent of a hundred of them do not exceed, though
\* fewer stay below it. Events that tell none count for nothing here.
P99Explained(b) ==
  LET timed == {j \in DOMAIN b.evs : b.evs[j].e.lat > 0}
      CountThat(P(_)) == 100 * Cardinality({j \in timed : P(b.evs[j].e.lat)})
      share == Percent * Cardinality(timed)
  IN  /\ timed = {} <=> b.p99 = 0
      /\ timed # {} =>
           /\ \E j \in timed : b.evs[j].e.lat = b.p99
           /\ CountThat(LAMBDA x : x <= b.p99) >= share
           /\ CountThat(LAMBDA x : x < b.p99) < share

\* The numbers that the analyzer will compare agree with the events of their bucket
\* and with one another.
BucketsExplained ==
  \A i \in DOMAIN Buckets : TalliesAgree(Buckets[i]) /\ P99Explained(Buckets[i])

\* The windows reported follow one another without gap or overlap however late
\* the ticks are taken, none but the first and the last can be empty, and no event
\* was counted before its window began.
WindowsTile ==
  /\ \A i \in 2..Len(out) : out[i].start = out[i - 1].end
  /\ \A i \in 2..Len(out) : (pc = "done" /\ i = Len(out)) \/ out[i].start < out[i].end
  /\ \A i \in DOMAIN Buckets :
       \A j \in DOMAIN Buckets[i].evs : Buckets[i].evs[j].at >= Buckets[i].start

\* counter.go:24: buckets are "fixed-duration". So they are as long as nothing
\* holds the counter up: each lasts BucketDuration, the last one at most that, and
\* holds only events that were counted within its window.
PromptBuckets ==
  prompt => \A i \in DOMAIN out :
    LET b == out[i]
    IN  /\ b.end - b.start <= BucketDuration
        /\ b.end - b.start = BucketDuration \/ (pc = "done" /\ i = Len(out))
        /\ \A j \in DOMAIN b.evs : b.evs[j].at \in b.start..b.end

\* counter.go:115-118: on shutdown the events already buffered in the channel are
\* in the buckets that were delivered.
BufferedCounted == pc = "done" => \E cut \in Cuts : cut[Len(Buckets)] >= promised
=============================================================================

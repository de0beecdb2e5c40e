---------------------------- MODULE CounterProofs ---------------------------
(***************************************************************************)
(* Theorems about Counter, for every duration of a bucket, every capacity, *)
(* every set of events and any number of them, and time without end.       *)
(***************************************************************************)
EXTENDS Counter, StatsProofs, SequenceTheorems, TLAPS

Bucket ==
  [start : Nat, total : Nat, errors : Nat,
   byStatus : [Statuses -> Nat], byHost : [Hosts -> Nat], byLevel : [Levels -> Nat],
   latencies : Seq({e.lat : e \in Events}), evs : Seq([e : Events, at : Nat])]

Delivered == {Flush(b, t) : b \in Bucket, t \in Nat}

Types ==
  /\ now \in Nat
  /\ prompt \in BOOLEAN
  /\ in \in Seq(Events) /\ sent \in Seq(Events)
  /\ promised \in 0..Len(sent)
  /\ closed \in BOOLEAN /\ inNil \in BOOLEAN /\ ctx \in BOOLEAN
  /\ inNil => closed /\ in = <<>>
  /\ due \in Nat \ {0}
  /\ end \in Nat
  /\ pc \in {"new", "select", "flush", "drain", "last", "done"}
  /\ cur \in Bucket
  /\ out \in Seq(Delivered)

\* A bucket is consistent with the events it holds, all of which came after it began.
Full(b) ==
  /\ b.total = Len(b.evs)
  /\ b.byStatus \in [Statuses -> 0..b.total]
  /\ b.byHost \in [Hosts -> 0..b.total]
  /\ b.byLevel \in [Levels -> 0..b.total]
  /\ \A j \in DOMAIN b.evs : b.evs[j].at >= b.start

\* Nothing is later than now, and the tick at hand no more than a period later.
Clock ==
  /\ due <= now + BucketDuration
  /\ end <= now
  /\ cur.start <= now
  /\ \A j \in DOMAIN cur.evs : cur.evs[j].at <= now
  /\ \A i \in DOMAIN out : out[i].start <= now /\ out[i].end <= now

Books == Full(cur) /\ \A i \in DOMAIN out : Full(out[i])

\* Windows without gaps; a window is only empty if it is the first or the last.
Tiles ==
  /\ \A i \in 2..Len(out) : out[i].start = out[i - 1].end
  /\ \A i \in 2..Len(out) : (pc = "done" /\ i = Len(out)) \/ out[i].start < out[i].end
  /\ pc = "new" => out = <<>>
  /\ pc # "done" /\ out # <<>> => out[Len(out)].end = cur.start /\ cur.start < due
  /\ pc = "flush" => end < due /\ (out # <<>> => cur.start < end)

\* Where the clock can be if nothing holds the counter up.
Punctual ==
  prompt =>
    /\ pc = "new" => now = 0 /\ due = BucketDuration
    /\ pc \in {"select", "drain"} => now <= due /\ due = cur.start + BucketDuration
    /\ pc = "flush" => end = now /\ end = cur.start + BucketDuration /\ due = end + BucketDuration
    /\ pc = "last" => end = now /\ now <= cur.start + BucketDuration
    /\ \A i \in DOMAIN out :
         /\ out[i].end - out[i].start <= BucketDuration
         /\ out[i].end - out[i].start = BucketDuration \/ (pc = "done" /\ i = Len(out))
         /\ \A j \in DOMAIN out[i].evs : out[i].evs[j].at \in out[i].start..out[i].end

\* The inductive invariant.
IInv == Types /\ Clock /\ Books /\ Tiles /\ Punctual

-----------------------------------------------------------------------------

\* A new bucket is empty and consistent.
LEMMA NewIsFull ==
  ASSUME NEW t \in Nat
  PROVE  /\ NewBucket(t) \in Bucket /\ Full(NewBucket(t))
         /\ NewBucket(t).start = t /\ NewBucket(t).evs = <<>>
<1>1. NewBucket(t) \in Bucket
  BY DEF NewBucket, Bucket, Zero
<1>2. Full(NewBucket(t))
  BY DEF NewBucket, Full, Zero
<1> QED BY <1>1, <1>2 DEF NewBucket

\* Counting one more leaves the tallies within the total.
LEMMA CountOneBounded ==
  ASSUME NEW K, NEW n \in Nat, NEW m \in [K -> 0..n], NEW k
  PROVE  CountOne(m, k) \in [K -> 0..(n + 1)]
BY DEF CountOne

\* Adding an event counts it once, at the present time.
LEMMA AddIsFull ==
  ASSUME NEW b \in Bucket, Full(b), NEW e \in Events, now \in Nat, b.start <= now
  PROVE  /\ Add(b, e) \in Bucket /\ Full(Add(b, e))
         /\ Add(b, e).start = b.start
         /\ Add(b, e).evs = Append(b.evs, [e |-> e, at |-> now])
<1>1. /\ b.start \in Nat /\ b.total \in Nat /\ b.errors \in Nat
      /\ b.latencies \in Seq({x.lat : x \in Events}) /\ b.evs \in Seq([e : Events, at : Nat])
  BY DEF Bucket
<1> DEFINE total == b.total + 1
           status == CountOne(b.byStatus, e.status)
           host == CountOne(b.byHost, e.host)
           level == IF IsHttp(e) THEN b.byLevel ELSE CountOne(b.byLevel, e.level)
           evs == Append(b.evs, [e |-> e, at |-> now])
           c == Add(b, e)
<1>2. total \in Nat
  BY <1>1
<1>3. status \in [Statuses -> 0..total]
  BY <1>1, CountOneBounded DEF Full
<1>4. host \in [Hosts -> 0..total]
  BY <1>1, CountOneBounded DEF Full
<1>5. level \in [Levels -> 0..total]
  <2>1. CountOne(b.byLevel, e.level) \in [Levels -> 0..total]
    BY <1>1, CountOneBounded DEF Full
  <2>2. b.byLevel \in [Levels -> 0..total]
    BY <1>1 DEF Full
  <2> QED BY <2>1, <2>2
<1>6. Timed(b.latencies, e) \in Seq({x.lat : x \in Events})
  BY <1>1 DEF Timed
<1>7. evs \in Seq([e : Events, at : Nat])
  <2>1. [e |-> e, at |-> now] \in [e : Events, at : Nat]
    OBVIOUS
  <2> QED BY <1>1, <2>1
<1>8. (IF IsError(e) THEN b.errors + 1 ELSE b.errors) \in Nat
  BY <1>1
<1>9. 0..total \subseteq Nat
  BY <1>2
<1>10. status \in [Statuses -> Nat] /\ host \in [Hosts -> Nat] /\ level \in [Levels -> Nat]
  <2> HIDE DEF total, status, host, level
  <2> QED BY <1>3, <1>4, <1>5, <1>9
<1>11. c = [start |-> b.start, total |-> total,
            errors |-> IF IsError(e) THEN b.errors + 1 ELSE b.errors,
            byStatus |-> status, byHost |-> host, byLevel |-> level,
            latencies |-> Timed(b.latencies, e), evs |-> evs]
  BY DEF Add
<1>12. Len(evs) = total /\ \A j \in DOMAIN evs : evs[j].at >= b.start
  <2>1. Len(b.evs) = b.total /\ \A j \in DOMAIN b.evs : b.evs[j].at >= b.start
    BY DEF Full
  <2>2. now >= b.start
    BY <1>1
  <2> QED BY <1>1, <2>1, <2>2
<1> HIDE DEF total, status, host, level, evs, c
<1>13. c \in Bucket
  BY <1>1, <1>2, <1>6, <1>7, <1>8, <1>10, <1>11 DEF Bucket
<1>14. Full(c)
  BY <1>3, <1>4, <1>5, <1>11, <1>12 DEF Full
<1> QED BY <1>11, <1>13, <1>14 DEF c, evs

\* What is delivered is the bucket with the end of its window.
LEMMA FlushKeeps ==
  ASSUME NEW b \in Bucket, NEW t \in Nat
  PROVE  /\ Flush(b, t) \in Delivered
         /\ Flush(b, t).start = b.start /\ Flush(b, t).end = t /\ Flush(b, t).evs = b.evs
         /\ Full(b) => Full(Flush(b, t))
<1>1. Flush(b, t) \in Delivered
  BY DEF Delivered
<1> QED BY <1>1 DEF Flush, Full

\* What was delivered has the times of a window.
LEMMA DeliveredTimes ==
  ASSUME out \in Seq(Delivered), NEW i \in DOMAIN out
  PROVE  /\ out[i].start \in Nat /\ out[i].end \in Nat
         /\ \A j \in DOMAIN out[i].evs : out[i].evs[j].at \in Nat
<1>1. out[i] \in Delivered
  OBVIOUS
<1>2. PICK b \in Bucket, t \in Nat : out[i] = Flush(b, t)
  BY <1>1 DEF Delivered
<1>3. out[i].start = b.start /\ out[i].end = t /\ out[i].evs = b.evs
  BY <1>2, FlushKeeps
<1>4. b.start \in Nat /\ b.evs \in Seq([e : Events, at : Nat])
  BY DEF Bucket
<1>5. ASSUME NEW j \in DOMAIN b.evs PROVE b.evs[j].at \in Nat
  <2> DEFINE Entry == [e : Events, at : Nat]
             s == b.evs
  <2>1. s[j] \in Entry
    <3> HIDE DEF Entry
    <3>1. s \in Seq(Entry) /\ j \in DOMAIN s
      BY <1>4, <1>5 DEF Entry
    <3> HIDE DEF s
    <3> QED BY <3>1
  <2> QED BY <2>1
<1> QED BY <1>3, <1>4, <1>5

\* So has the bucket being filled.
LEMMA CurTimes ==
  ASSUME cur \in Bucket
  PROVE  cur.start \in Nat /\ \A j \in DOMAIN cur.evs : cur.evs[j].at \in Nat
<1> DEFINE Entry == [e : Events, at : Nat]
           s == cur.evs
<1>1. cur.start \in Nat /\ s \in Seq(Entry)
  BY DEF Bucket
<1>2. ASSUME NEW j \in DOMAIN s PROVE s[j] \in Entry
  <2> HIDE DEF Entry, s
  <2> QED BY <1>1, <1>2
<1> QED BY <1>1, <1>2

\* The next multiple of a period that has not passed is later than now, by no more
\* than the period.
LEMMA NextTick ==
  ASSUME NEW d \in Nat \ {0}, NEW x \in Nat
  PROVE  /\ d * (1 + x \div d) \in Nat
         /\ x < d * (1 + x \div d) /\ d * (1 + x \div d) <= x + d
         /\ x = 0 => d * (1 + x \div d) = d
<1> DEFINE q == x \div d
<1>1. q \in Nat /\ d * q <= x /\ x < d * q + d
  OBVIOUS
<1>2. d * (1 + q) = d + d * q /\ d * q \in Nat
  BY <1>1
<1>3. x = 0 => q = 0
  BY <1>1
<1> QED BY <1>1, <1>2, <1>3
-----------------------------------------------------------------------------

\* Nothing is counted at the start.
LEMMA Initially == Init => IInv
<1> SUFFICES ASSUME Init PROVE IInv
  OBVIOUS
<1> USE CounterAssumption DEF Init
<1>1. cur \in Bucket /\ Full(cur) /\ cur.start = 0 /\ cur.evs = <<>>
  BY NewIsFull
<1>2. Types
  <2>1. in \in Seq(Events) /\ sent \in Seq(Events) /\ promised \in 0..Len(sent) /\ out \in Seq(Delivered)
    OBVIOUS
  <2>2. due \in Nat \ {0} /\ now \in Nat /\ end \in Nat
    OBVIOUS
  <2> QED BY <1>1, <2>1, <2>2 DEF Types
<1>3. Clock /\ Books /\ Tiles /\ Punctual
  BY <1>1 DEF Clock, Books, Tiles, Punctual
<1> QED BY <1>2, <1>3 DEF IInv

\* The writers of `in`, the owner of ctx and the clock: no bucket changes.
LEMMA OthersKeep ==
  ASSUME IInv, (\E e \in Events : Put(e)) \/ Close \/ Cancel \/ Pass
  PROVE  IInv'
<1> USE CounterAssumption
<1>1. Types /\ Clock /\ Books /\ Tiles /\ Punctual
  BY DEF IInv
<1>2. UNCHANGED <<prompt, inNil, due, pc, cur, end, out>>
  BY DEF Put, Close, Cancel, Pass
<1>3. now' \in Nat /\ now' >= now /\ (now' # now => Pass)
  BY <1>1 DEF Put, Close, Cancel, Pass, Types
<1>4. Types'
  <2>1. ASSUME NEW e \in Events, Put(e) PROVE Types'
    <3>1. in' \in Seq(Events) /\ sent' \in Seq(Events) /\ Len(sent') = Len(sent) + 1
      BY <1>1, <2>1 DEF Put, Types
    <3>2. ~inNil
      BY <1>1, <2>1 DEF Put, Types
    <3> QED BY <1>1, <2>1, <3>1, <3>2 DEF Put, Types
  <2>2. CASE Close
    BY <1>1, <2>2 DEF Close, Types
  <2>3. CASE Cancel
    BY <1>1, <2>3 DEF Cancel, Types
  <2>4. CASE Pass
    BY <1>1, <1>3, <2>4 DEF Pass, Types
  <2> QED BY <2>1, <2>2, <2>3, <2>4
<1>5. Clock'
  <2>1. now \in Int /\ now' \in Int /\ due \in Int /\ end \in Int /\ cur.start \in Int
        /\ \A j \in DOMAIN cur.evs : cur.evs[j].at \in Int
    BY <1>1, <1>3, CurTimes DEF Types
  <2>2. \A i \in DOMAIN out : out[i].start \in Int /\ out[i].end \in Int
    BY <1>1, DeliveredTimes DEF Types
  <2> QED BY <1>1, <1>2, <1>3, <2>1, <2>2 DEF Clock
<1>6. Books' /\ Tiles'
  BY <1>1, <1>2 DEF Books, Full, Tiles
<1>7. Punctual'
  <2>1. CASE now' = now
    BY <1>1, <1>2, <2>1 DEF Punctual
  <2>2. CASE Pass /\ prompt
    <3>1. ~Busy /\ now' = now + 1
      BY <2>2 DEF Pass
    <3>2. (pc = "select" /\ now < due) \/ pc = "done"
      BY <1>1, <3>1 DEF Busy, Types
    <3> QED BY <1>1, <1>2, <3>1, <3>2 DEF Types, Punctual
  <2>3. CASE ~prompt
    BY <1>2, <2>3 DEF Punctual
  <2> QED BY <1>1, <1>3, <2>1, <2>2, <2>3 DEF Types
<1> QED BY <1>4, <1>5, <1>6, <1>7 DEF IInv

\* An event is taken from the channel and added to the bucket being filled.
LEMMA AddKeeps ==
  ASSUME IInv, pc \in {"select", "drain"}, in # <<>>,
         cur' = Add(cur, Head(in)), in' = Tail(in),
         UNCHANGED <<now, prompt, closed, inNil, ctx, due, pc, end, out, sent, promised>>
  PROVE  IInv'
<1> USE CounterAssumption
<1>1. Types /\ Clock /\ Books /\ Tiles /\ Punctual
  BY DEF IInv
<1>2. Head(in) \in Events /\ in' \in Seq(Events)
  BY <1>1 DEF Types
<1>3. /\ cur' \in Bucket /\ Full(cur') /\ cur'.start = cur.start
      /\ cur'.evs = Append(cur.evs, [e |-> Head(in), at |-> now])
  BY <1>1, <1>2, AddIsFull DEF Types, Clock, Books
<1>4. Types'
  BY <1>1, <1>2, <1>3 DEF Types
<1>5. Clock'
  <2>1. ASSUME NEW j \in DOMAIN cur'.evs PROVE cur'.evs[j].at <= now
    <3> DEFINE Entry == [e : Events, at : Nat]
               x == [e |-> Head(in), at |-> now]
               s == cur.evs
               t == cur'.evs
    <3>1. s \in Seq(Entry) /\ now \in Nat /\ t = Append(s, x) /\ x.at = now /\ j \in DOMAIN t
      BY <1>1, <1>3, <2>1 DEF Types, Bucket
    <3>2. (j \in DOMAIN s /\ t[j] = s[j]) \/ t[j].at = now
      <4> HIDE DEF Entry, x, s, t
      <4>1. t = Append(s, x) /\ s \in Seq(Entry) /\ j \in DOMAIN t
        BY <3>1
      <4>2. (j \in DOMAIN s /\ t[j] = s[j]) \/ t[j] = x
        BY <4>1
      <4> QED BY <3>1, <4>2
    <3> QED BY <1>1, <3>1, <3>2 DEF Clock
  <2> QED BY <1>1, <1>3, <2>1 DEF Clock
<1>6. Books'
  BY <1>1, <1>3 DEF Books, Full
<1>7. Tiles'
  BY <1>1, <1>3 DEF Tiles
<1>8. Punctual'
  BY <1>1, <1>3 DEF Punctual
<1> QED BY <1>4, <1>5, <1>6, <1>7, <1>8 DEF IInv

\* One more bucket is delivered.
LEMMA DeliverKeeps ==
  ASSUME IInv, out' = Append(out, Flush(cur, end))
  PROVE  /\ out' \in Seq(Delivered) /\ Len(out') = Len(out) + 1 /\ Len(out) \in Nat
         /\ DOMAIN out = 1..Len(out) /\ DOMAIN out' = 1..(Len(out) + 1)
         /\ \A i \in DOMAIN out : out'[i] = out[i]
         /\ out'[Len(out) + 1].start = cur.start /\ out'[Len(out) + 1].end = end
         /\ out'[Len(out) + 1].evs = cur.evs /\ Full(out'[Len(out) + 1])
<1>1. cur \in Bucket /\ end \in Nat /\ out \in Seq(Delivered) /\ Full(cur)
  BY DEF IInv, Types, Books
<1> DEFINE b == Flush(cur, end)
<1>2. b \in Delivered /\ b.start = cur.start /\ b.end = end /\ b.evs = cur.evs /\ Full(b)
  BY <1>1, FlushKeeps
<1> HIDE DEF b
<1>3. out' = Append(out, b)
  BY DEF b
<1> QED BY <1>1, <1>2, <1>3

\* The first bucket begins.
LEMMA FirstBucketKeeps == IInv /\ FirstBucket => IInv'
<1> SUFFICES ASSUME IInv, FirstBucket PROVE IInv'
  OBVIOUS
<1> USE CounterAssumption
<1>1. Types /\ Clock /\ Books /\ Tiles /\ Punctual
  BY DEF IInv
<1>2. cur' \in Bucket /\ Full(cur') /\ cur'.start = now /\ cur'.evs = <<>>
  BY <1>1, NewIsFull DEF FirstBucket, Types
<1>3. /\ pc = "new" /\ pc' = "select" /\ out = <<>>
      /\ UNCHANGED <<now, prompt, in, closed, inNil, ctx, due, end, out, sent, promised>>
  BY <1>1 DEF FirstBucket, Tiles
<1>4. Types'
  BY <1>1, <1>2, <1>3 DEF Types
<1>5. Clock'
  BY <1>1, <1>2, <1>3 DEF Clock, Types
<1>6. Books'
  BY <1>1, <1>2, <1>3 DEF Books, Full
<1>7. Tiles'
  BY <1>1, <1>2, <1>3 DEF Tiles
<1>8. Punctual'
  BY <1>1, <1>2, <1>3 DEF Punctual, Types
<1> QED BY <1>4, <1>5, <1>6, <1>7, <1>8 DEF IInv

\* A tick is taken: it is not late if nothing held the counter up.
LEMMA TickKeeps == IInv /\ Tick => IInv'
<1> SUFFICES ASSUME IInv, Tick PROVE IInv'
  OBVIOUS
<1> USE CounterAssumption
<1>1. Types /\ Clock /\ Books /\ Tiles /\ Punctual
  BY DEF IInv
<1> DEFINE step == BucketDuration * (1 + (now - due) \div BucketDuration)
<1>2. /\ pc = "select" /\ pc' = "flush" /\ end' = due /\ due <= now /\ due' = due + step
      /\ UNCHANGED <<now, prompt, in, closed, inNil, ctx, cur, out, sent, promised>>
  BY <1>1 DEF Tick, Types
<1>3. now - due \in Nat /\ now \in Nat /\ due \in Nat
  BY <1>1, <1>2 DEF Types
<1>4. /\ step \in Nat /\ now - due < step /\ step <= now - due + BucketDuration
      /\ now - due = 0 => step = BucketDuration
  BY <1>3, NextTick
<1> HIDE DEF step
<1>5. Types'
  BY <1>1, <1>2, <1>3, <1>4 DEF Types
<1>6. Clock'
  BY <1>1, <1>2, <1>3, <1>4 DEF Clock
<1>7. Books'
  BY <1>1, <1>2 DEF Books, Full
<1>8. Tiles'
  <2>1. due < due'
    BY <1>2, <1>3, <1>4
  <2>2. out # <<>> => cur.start < due /\ cur.start < due'
    BY <1>1, <1>2, <1>3, <1>4, CurTimes DEF Tiles, Types
  <2> QED BY <1>1, <1>2, <2>1, <2>2 DEF Tiles
<1>9. Punctual'
  <2>1. prompt => now = due /\ due = cur.start + BucketDuration
    BY <1>1, <1>2, <1>3 DEF Punctual
  <2>2. prompt => due' = due + BucketDuration
    BY <1>2, <1>3, <1>4, <2>1
  <2> QED BY <1>1, <1>2, <2>1, <2>2 DEF Punctual
<1> QED BY <1>5, <1>6, <1>7, <1>8, <1>9 DEF IInv

\* A bucket is delivered and the next one begins where it ended.
LEMMA FlushTickKeeps == IInv /\ FlushTick => IInv'
<1> SUFFICES ASSUME IInv, FlushTick PROVE IInv'
  OBVIOUS
<1> USE CounterAssumption
<1>1. Types /\ Clock /\ Books /\ Tiles /\ Punctual
  BY DEF IInv
<1>2. /\ pc = "flush" /\ pc' = "select" /\ cur' = NewBucket(end)
      /\ out' = Append(out, Flush(cur, end))
      /\ UNCHANGED <<now, prompt, in, closed, inNil, ctx, due, end, sent, promised>>
  BY DEF FlushTick
<1>3. cur' \in Bucket /\ Full(cur') /\ cur'.start = end /\ cur'.evs = <<>>
  BY <1>1, <1>2, NewIsFull DEF Types
<1>4. /\ out' \in Seq(Delivered) /\ Len(out') = Len(out) + 1 /\ Len(out) \in Nat
      /\ DOMAIN out = 1..Len(out) /\ DOMAIN out' = 1..(Len(out) + 1)
      /\ \A i \in DOMAIN out : out'[i] = out[i]
      /\ out'[Len(out) + 1].start = cur.start /\ out'[Len(out) + 1].end = end
      /\ out'[Len(out) + 1].evs = cur.evs /\ Full(out'[Len(out) + 1])
  BY <1>2, DeliverKeeps
<1>5. Types'
  BY <1>1, <1>2, <1>3, <1>4 DEF Types
<1>6. Clock'
  BY <1>1, <1>2, <1>3, <1>4 DEF Clock
<1>7. Books'
  <2>1. \A i \in DOMAIN out : Full(out'[i])
    BY <1>1, <1>4 DEF Books
  <2>2. \A i \in DOMAIN out' : i \in DOMAIN out \/ i = Len(out) + 1
    BY <1>4
  <2> QED BY <1>3, <1>4, <2>1, <2>2 DEF Books
<1>8. Tiles'
  BY <1>1, <1>2, <1>3, <1>4 DEF Tiles
<1>9. Punctual'
  <2>0. prompt => now <= due /\ due = cur'.start + BucketDuration
    BY <1>1, <1>2, <1>3 DEF Punctual, Types
  <2>1. prompt => /\ end = now /\ end = cur.start + BucketDuration
                  /\ due = end + BucketDuration
    BY <1>1, <1>2 DEF Punctual
  <2>2. prompt => \A j \in DOMAIN cur.evs : cur.evs[j].at \in cur.start..end
    <3> SUFFICES ASSUME prompt, NEW j \in DOMAIN cur.evs PROVE cur.evs[j].at \in cur.start..end
      OBVIOUS
    <3>1. cur \in Bucket /\ now \in Nat /\ end = now
      BY <1>1, <2>1 DEF Types
    <3>2. cur.start \in Nat /\ cur.evs[j].at \in Nat
      BY <3>1, CurTimes
    <3>3. cur.evs[j].at >= cur.start /\ cur.evs[j].at <= now
      BY <1>1 DEF Books, Full, Clock
    <3> QED BY <3>1, <3>2, <3>3
  <2>3. prompt => \A i \in DOMAIN out :
          /\ out[i].end - out[i].start = BucketDuration
          /\ \A j \in DOMAIN out[i].evs : out[i].evs[j].at \in out[i].start..out[i].end
    BY <1>1, <1>2 DEF Punctual
  <2>4. end \in Nat /\ cur.start \in Nat
    BY <1>1, CurTimes DEF Types
  <2>5. prompt => \A i \in DOMAIN out' :
          /\ out'[i].end - out'[i].start = BucketDuration
          /\ \A j \in DOMAIN out'[i].evs : out'[i].evs[j].at \in out'[i].start..out'[i].end
    <3> SUFFICES ASSUME prompt, NEW i \in DOMAIN out'
                 PROVE  /\ out'[i].end - out'[i].start = BucketDuration
                        /\ \A j \in DOMAIN out'[i].evs : out'[i].evs[j].at \in out'[i].start..out'[i].end
      OBVIOUS
    <3>1. CASE i \in DOMAIN out
      BY <1>4, <2>3, <3>1
    <3>2. CASE i = Len(out) + 1
      <4>1. out'[i].start = cur.start /\ out'[i].end = end /\ out'[i].evs = cur.evs
        BY <1>4, <3>2
      <4>2. BucketDuration \in Int /\ end = cur.start + BucketDuration
        BY <2>1
      <4>3. end - cur.start = BucketDuration
        BY <2>4, <4>2
      <4> QED BY <2>2, <4>1, <4>3
    <3> QED BY <1>4, <3>1, <3>2
  <2>6. BucketDuration <= BucketDuration
    OBVIOUS
  <2> QED BY <1>2, <2>0, <2>5, <2>6 DEF Punctual
<1> QED BY <1>5, <1>6, <1>7, <1>8, <1>9 DEF IInv

\* The last bucket is delivered; it may be shorter than the others, and empty.
LEMMA FlushLastKeeps == IInv /\ FlushLast => IInv'
<1> SUFFICES ASSUME IInv, FlushLast PROVE IInv'
  OBVIOUS
<1> USE CounterAssumption
<1>1. Types /\ Clock /\ Books /\ Tiles /\ Punctual
  BY DEF IInv
<1>2. /\ pc = "last" /\ pc' = "done"
      /\ out' = Append(out, Flush(cur, end))
      /\ UNCHANGED <<now, prompt, in, closed, inNil, ctx, due, cur, end, sent, promised>>
  BY DEF FlushLast
<1>3. /\ out' \in Seq(Delivered) /\ Len(out') = Len(out) + 1 /\ Len(out) \in Nat
      /\ DOMAIN out = 1..Len(out) /\ DOMAIN out' = 1..(Len(out) + 1)
      /\ \A i \in DOMAIN out : out'[i] = out[i]
      /\ out'[Len(out) + 1].start = cur.start /\ out'[Len(out) + 1].end = end
      /\ out'[Len(out) + 1].evs = cur.evs /\ Full(out'[Len(out) + 1])
  BY <1>2, DeliverKeeps
<1>4. Types'
  BY <1>1, <1>2, <1>3 DEF Types
<1>5. Clock'
  BY <1>1, <1>2, <1>3 DEF Clock
<1>6. Books'
  <2>1. \A i \in DOMAIN out : Full(out'[i])
    BY <1>1, <1>3 DEF Books
  <2>2. \A i \in DOMAIN out' : i \in DOMAIN out \/ i = Len(out) + 1
    BY <1>3
  <2>3. cur' = cur
    BY <1>2
  <2> QED BY <1>1, <1>3, <2>1, <2>2, <2>3 DEF Books
<1>7. Tiles'
  BY <1>1, <1>2, <1>3 DEF Tiles
<1>8. Punctual'
  <2>1. prompt => end = now /\ end <= cur.start + BucketDuration
    BY <1>1, <1>2 DEF Punctual
  <2>2. prompt => \A j \in DOMAIN cur.evs : cur.evs[j].at \in cur.start..end
    <3> SUFFICES ASSUME prompt, NEW j \in DOMAIN cur.evs PROVE cur.evs[j].at \in cur.start..end
      OBVIOUS
    <3>1. cur \in Bucket /\ now \in Nat /\ end = now
      BY <1>1, <2>1 DEF Types
    <3>2. cur.start \in Nat /\ cur.evs[j].at \in Nat
      BY <3>1, CurTimes
    <3>3. cur.evs[j].at >= cur.start /\ cur.evs[j].at <= now
      BY <1>1 DEF Books, Full, Clock
    <3> QED BY <3>1, <3>2, <3>3
  <2>3. prompt => \A i \in DOMAIN out :
          /\ out[i].end - out[i].start = BucketDuration
          /\ \A j \in DOMAIN out[i].evs : out[i].evs[j].at \in out[i].start..out[i].end
    BY <1>1, <1>2 DEF Punctual
  <2>4. end \in Nat /\ cur.start \in Nat
    BY <1>1, CurTimes DEF Types
  <2> QED BY <1>2, <1>3, <2>1, <2>2, <2>3, <2>4 DEF Punctual
<1> QED BY <1>4, <1>5, <1>6, <1>7, <1>8 DEF IInv

\* The branches that leave the loop, and those that see the channel closed or empty.
LEMMA LeaveKeeps ==
  ASSUME IInv,
         \/ Count /\ in = <<>>
         \/ Stop
         \/ Drain /\ (inNil \/ in = <<>>)
  PROVE  IInv'
<1> USE CounterAssumption
<1>1. Types /\ Clock /\ Books /\ Tiles /\ Punctual
  BY DEF IInv
<1>2. /\ UNCHANGED <<now, prompt, in, closed, ctx, due, cur, out, sent, promised>>
      /\ \/ pc = "select" /\ pc' = "select" /\ in = <<>> /\ closed /\ inNil' = TRUE /\ end' = end
         \/ pc = "select" /\ pc' = "drain" /\ UNCHANGED <<inNil, end>>
         \/ pc = "drain" /\ pc' = "last" /\ end' = now /\ UNCHANGED inNil
  BY <1>1 DEF Count, Stop, Drain, Types
<1>3. Types'
  <2>1. inNil' \in BOOLEAN /\ (inNil' => closed' /\ in' = <<>>)
    <3>1. CASE inNil' = inNil
      BY <1>1, <1>2, <3>1, Zenon DEF Types
    <3>2. CASE inNil' = TRUE /\ closed /\ in = <<>>
      BY <1>2, <3>2, Zenon
    <3> QED BY <1>2, <3>1, <3>2, Zenon
  <2>2. end' \in Nat /\ pc' \in {"select", "drain", "last"}
    BY <1>1, <1>2 DEF Types
  <2>3. UNCHANGED <<now, prompt, in, closed, ctx, due, cur, out, sent, promised>>
    BY <1>2
  <2> QED BY <1>1, <2>1, <2>2, <2>3 DEF Types
<1>4. Clock'
  BY <1>1, <1>2 DEF Clock, Types
<1>5. Books'
  BY <1>1, <1>2 DEF Books, Full
<1>6. Tiles'
  BY <1>1, <1>2 DEF Tiles
<1>7. Punctual'
  BY <1>1, <1>2 DEF Punctual
<1> QED BY <1>3, <1>4, <1>5, <1>6, <1>7 DEF IInv

\* Every step keeps the invariant.
LEMMA Consecution == IInv /\ [Next]_vars => IInv'
<1> SUFFICES ASSUME IInv, [Next]_vars PROVE IInv'
  OBVIOUS
<1>1. CASE (\E e \in Events : Put(e)) \/ Close \/ Cancel \/ Pass
  BY <1>1, OthersKeep
<1>2. CASE FirstBucket \/ Tick \/ FlushTick \/ FlushLast
  BY <1>2, FirstBucketKeeps, TickKeeps, FlushTickKeeps, FlushLastKeeps
<1>3. CASE Stop
  BY <1>3, LeaveKeeps
<1>4. CASE Count
  <2>1. CASE in # <<>>
    BY <1>4, <2>1, AddKeeps DEF Count
  <2>2. CASE in = <<>>
    BY <1>4, <2>2, LeaveKeeps
  <2> QED BY <2>1, <2>2
<1>5. CASE Drain
  <2>1. CASE ~inNil /\ in # <<>>
    BY <1>5, <2>1, AddKeeps DEF Drain
  <2>2. CASE inNil \/ in = <<>>
    BY <1>5, <2>2, LeaveKeeps
  <2> QED BY <2>1, <2>2
<1>6. CASE Finished \/ UNCHANGED vars
  <2>1. UNCHANGED vars
    BY <1>6 DEF Finished
  <2> QED BY <2>1 DEF vars, IInv, Types, Clock, Books, Full, Tiles, Punctual
<1> QED BY <1>1, <1>2, <1>3, <1>4, <1>5, <1>6 DEF Next, Run

\* The counter's clock, its books and its windows fit together at all times.
THEOREM Invariance == Spec => []IInv
BY Initially, Consecution, PTL DEF Spec

-----------------------------------------------------------------------------

\* Types; no tally exceeds the events of its bucket.
THEOREM TypeCorrect == Spec => []TypeOK
<1>1. IInv => TypeOK
  <2> SUFFICES ASSUME IInv PROVE TypeOK
    OBVIOUS
  <2>1. Types /\ Clock /\ Books
    BY DEF IInv
  <2>2. BucketOK(cur)
    <3>1. cur.start \in Nat /\ cur.start <= now /\ now \in Nat
      BY <2>1, CurTimes DEF Types, Clock
    <3> QED BY <2>1, <3>1 DEF BucketOK, Books, Full
  <2>3. ASSUME NEW i \in DOMAIN out PROVE BucketOK(out[i]) /\ out[i].end \in 0..now
    <3>1. /\ out[i].start \in Nat /\ out[i].end \in Nat /\ now \in Nat
          /\ out[i].start <= now /\ out[i].end <= now
      BY <2>1, DeliveredTimes DEF Types, Clock
    <3>2. Full(out[i])
      BY <2>1 DEF Books
    <3> QED BY <3>1, <3>2 DEF BucketOK, Full
  <2> QED BY <2>1, <2>2, <2>3, CounterAssumption DEF TypeOK, Types, Clock
<1> QED BY <1>1, Invariance, PTL

\* However late ticks are taken, windows follow one another without gap or overlap.
THEOREM Tiling == Spec => []WindowsTile
<1>1. IInv => WindowsTile
  <2> SUFFICES ASSUME IInv PROVE WindowsTile
    OBVIOUS
  <2>1. ASSUME NEW i \in DOMAIN Buckets, NEW j \in DOMAIN Buckets[i].evs
        PROVE  Buckets[i].evs[j].at >= Buckets[i].start
    <3>1. out \in Seq(Delivered) /\ cur \in Bucket /\ end \in Nat
      BY DEF IInv, Types
    <3>2. \/ i \in DOMAIN out /\ Buckets[i] = out[i]
          \/ Buckets[i] = Flush(cur, end)
      BY <2>1, <3>1 DEF Buckets
    <3>3. \A k \in DOMAIN out : \A l \in DOMAIN out[k].evs : out[k].evs[l].at >= out[k].start
      BY DEF IInv, Books, Full
    <3>4. \A l \in DOMAIN cur.evs : cur.evs[l].at >= cur.start
      BY DEF IInv, Books, Full
    <3>5. Flush(cur, end).evs = cur.evs /\ Flush(cur, end).start = cur.start
      BY <3>1, FlushKeeps
    <3> QED BY <2>1, <3>2, <3>3, <3>4, <3>5
  <2> QED BY <2>1 DEF IInv, Tiles, WindowsTile
<1> QED BY <1>1, Invariance, PTL

\* As long as nothing holds the counter up, buckets are of the fixed duration.
THEOREM FixedDuration == Spec => []PromptBuckets
<1>1. IInv => PromptBuckets
  BY DEF IInv, Punctual, PromptBuckets
<1> QED BY <1>1, Invariance, PTL

-----------------------------------------------------------------------------
(* What was sent, and where it is. *)

\* How many of the events sent were taken from the channel.
Taken == Len(sent) - Len(in)

\* The events of evs are those of s after the first a, as far as the b-th.
Slice(evs, s, a, b) ==
  /\ a <= b /\ b <= Len(s)
  /\ Len(evs) = b - a
  /\ \A j \in 1..(b - a) : evs[j].e = s[a + j]

\* The buckets bs hold the first k events of s, cut at the places of c.
Laid(bs, s, k, c) ==
  /\ c \in [0..Len(bs) -> Nat]
  /\ c[0] = 0 /\ c[Len(bs)] = k
  /\ \A i \in 1..Len(bs) : Slice(bs[i].evs, s, c[i - 1], c[i])

\* The buckets hold the events taken and the channel the others; what was sent
\* before the context was cancelled has been taken when the draining is over.
Flow ==
  /\ Len(in) <= Len(sent)
  /\ \A j \in 1..Len(in) : in[j] = sent[Taken + j]
  /\ \E c : Laid(Buckets, sent, Taken, c)
  /\ pc = "new" => cur.evs = <<>>
  /\ pc \in {"drain", "last", "done"} => ctx
  /\ pc \in {"last", "done"} => promised <= Taken

\* Events sent later leave a slice as it is.
LEMMA SliceStays ==
  ASSUME NEW S, NEW s \in Seq(S), NEW x \in S, NEW evs, NEW a \in Nat, NEW b \in Nat,
         Slice(evs, s, a, b)
  PROVE  Slice(evs, Append(s, x), a, b)
<1>1. a <= b /\ b <= Len(s) /\ Len(evs) = b - a /\ \A j \in 1..(b - a) : evs[j].e = s[a + j]
  BY DEF Slice
<1>2. Len(Append(s, x)) = Len(s) + 1 /\ \A j \in 1..Len(s) : Append(s, x)[j] = s[j]
  OBVIOUS
<1>3. \A j \in 1..(b - a) : a + j \in 1..Len(s)
  BY <1>1
<1> QED BY <1>1, <1>2, <1>3 DEF Slice

\* So the buckets still hold the first k events.
LEMMA LaidStays ==
  ASSUME NEW S, NEW s \in Seq(S), NEW x \in S, NEW D, NEW bs \in Seq(D),
         NEW k, NEW c, Laid(bs, s, k, c)
  PROVE  Laid(bs, Append(s, x), k, c)
<1>1. /\ c \in [0..Len(bs) -> Nat] /\ c[0] = 0 /\ c[Len(bs)] = k
      /\ \A i \in 1..Len(bs) : Slice(bs[i].evs, s, c[i - 1], c[i])
  BY DEF Laid
<1>2. ASSUME NEW i \in 1..Len(bs) PROVE Slice(bs[i].evs, Append(s, x), c[i - 1], c[i])
  <2>1. c \in [0..Len(bs) -> Nat] /\ i \in 0..Len(bs) /\ i - 1 \in 0..Len(bs)
    BY <1>1
  <2>2. c[i - 1] \in Nat /\ c[i] \in Nat
    BY <2>1
  <2>3. Slice(bs[i].evs, s, c[i - 1], c[i])
    BY <1>1
  <2> QED BY <2>2, <2>3, SliceStays
<1> QED BY <1>1, <1>2 DEF Laid

\* Nor does it matter what else a bucket says.
LEMMA LaidAlike ==
  ASSUME NEW bs, NEW ds, Len(ds) = Len(bs), \A i \in 1..Len(bs) : ds[i].evs = bs[i].evs,
         NEW s, NEW k, NEW c, Laid(bs, s, k, c)
  PROVE  Laid(ds, s, k, c)
BY DEF Laid

\* An empty bucket at the end holds nothing.
LEMMA LaidLonger ==
  ASSUME NEW D, NEW bs \in Seq(D), NEW d \in D, d.evs = <<>>,
         NEW s, Len(s) \in Nat, NEW k \in Nat, k <= Len(s), NEW c, Laid(bs, s, k, c)
  PROVE  \E f : Laid(Append(bs, d), s, k, f)
<1> DEFINE n == Len(bs)
           f == [i \in 0..(n + 1) |-> IF i \in 0..n THEN c[i] ELSE k]
           ds == Append(bs, d)
<1>1. /\ c \in [0..n -> Nat] /\ c[0] = 0 /\ c[n] = k /\ n \in Nat
      /\ \A i \in 1..n : Slice(bs[i].evs, s, c[i - 1], c[i])
  BY DEF Laid
<1>2. Len(ds) = n + 1 /\ ds[n + 1] = d /\ \A i \in 1..n : ds[i] = bs[i]
  OBVIOUS
<1>3. f \in [0..(n + 1) -> Nat] /\ f[n + 1] = k /\ \A i \in 0..n : f[i] = c[i]
  BY <1>1
<1> HIDE DEF f, ds
<1>4. ASSUME NEW i \in 1..(n + 1) PROVE Slice(ds[i].evs, s, f[i - 1], f[i])
  <2>1. CASE i \in 1..n
    <3>1. i - 1 \in 0..n /\ i \in 0..n
      BY <1>1, <2>1
    <3> QED BY <1>1, <1>2, <1>3, <2>1, <3>1
  <2>2. CASE i = n + 1
    <3>1. n \in 0..n /\ i - 1 = n
      BY <1>1, <2>2
    <3>2. f[i - 1] = k /\ f[i] = k /\ ds[i].evs = <<>>
      BY <1>1, <1>2, <1>3, <2>2, <3>1
    <3>3. Len(<<>>) = k - k /\ 1..(k - k) = {}
      OBVIOUS
    <3> QED BY <3>2, <3>3 DEF Slice
  <2>3. i \in 1..n \/ i = n + 1
    BY <1>1
  <2> QED BY <2>1, <2>2, <2>3, Zenon
<1>5. 0 \in 0..n
  BY <1>1
<1>6. Laid(ds, s, k, f)
  BY <1>1, <1>2, <1>3, <1>4, <1>5 DEF Laid
<1> QED BY <1>6 DEF ds

\* The next event goes to the end of the last bucket.
LEMMA LaidFurther ==
  ASSUME NEW D, NEW bs \in Seq(D), NEW b \in D, NEW d \in D, NEW x, NEW S, b.evs \in Seq(S), x \in S,
         d.evs = Append(b.evs, x), NEW s, Len(s) \in Nat, NEW k \in Nat, k < Len(s), x.e = s[k + 1],
         NEW c, Laid(Append(bs, b), s, k, c)
  PROVE  \E f : Laid(Append(bs, d), s, k + 1, f)
<1> DEFINE n == Len(bs)
           f == [c EXCEPT ![n + 1] = k + 1]
           as == Append(bs, b)
           ds == Append(bs, d)
<1>1. /\ n \in Nat /\ Len(as) = n + 1 /\ as[n + 1] = b
      /\ Len(ds) = n + 1 /\ ds[n + 1] = d /\ \A i \in 1..n : ds[i] = as[i]
  OBVIOUS
<1>2. /\ c \in [0..(n + 1) -> Nat] /\ c[0] = 0 /\ c[n + 1] = k
      /\ \A i \in 1..(n + 1) : Slice(as[i].evs, s, c[i - 1], c[i])
  BY <1>1 DEF Laid
<1>3. f \in [0..(n + 1) -> Nat] /\ f[n + 1] = k + 1 /\ \A i \in 0..n : f[i] = c[i]
  BY <1>1, <1>2
<1> HIDE DEF f, as, ds
<1>4. Slice(d.evs, s, c[n], k + 1)
  <2>1. Slice(b.evs, s, c[n], k) /\ c[n] \in Nat
    <3>1. n + 1 \in 1..(n + 1) /\ n + 1 - 1 = n /\ n \in 0..(n + 1)
      BY <1>1
    <3>2. PICK i \in 1..(n + 1) : i = n + 1 /\ i - 1 = n
      BY <3>1
    <3>3. Slice(as[i].evs, s, c[i - 1], c[i])
      BY <1>2
    <3>4. Slice(b.evs, s, c[n], k)
      BY <1>1, <1>2, <3>2, <3>3
    <3>5. c[n] \in Nat
      BY <1>2, <3>1
    <3> QED BY <3>4, <3>5
  <2> DEFINE a == c[n]
             u == b.evs
             v == d.evs
  <2>2. a <= k /\ Len(u) = k - a /\ a \in Nat /\ \A j \in 1..(k - a) : u[j].e = s[a + j]
    BY <2>1 DEF Slice
  <2>3. u \in Seq(S) /\ v = Append(u, x)
    OBVIOUS
  <2> HIDE DEF a, u, v
  <2>4. Len(v) = k - a + 1 /\ v[k - a + 1] = x /\ \A j \in 1..(k - a) : v[j] = u[j]
    <3>1. Len(v) = Len(u) + 1 /\ v[Len(u) + 1] = x /\ \A j \in 1..Len(u) : v[j] = u[j]
      BY <2>3
    <3> QED BY <2>2, <3>1
  <2>5. ASSUME NEW j \in 1..(k + 1 - a) PROVE v[j].e = s[a + j]
    <3>1. CASE j \in 1..(k - a)
      BY <2>2, <2>4, <3>1
    <3>2. CASE j = k - a + 1
      <4>1. a + j = k + 1
        BY <2>2, <3>2
      <4> QED BY <2>4, <3>2, <4>1
    <3> QED BY <2>2, <3>1, <3>2
  <2>6. Slice(v, s, a, k + 1)
    BY <2>2, <2>4, <2>5 DEF Slice
  <2> QED BY <2>6 DEF a, v
<1>5. ASSUME NEW i \in 1..(n + 1) PROVE Slice(ds[i].evs, s, f[i - 1], f[i])
  <2>1. CASE i \in 1..n
    <3>1. i - 1 \in 0..n /\ i \in 0..n
      BY <1>1, <2>1
    <3> QED BY <1>1, <1>2, <1>3, <2>1, <3>1
  <2>2. CASE i = n + 1
    <3>1. n \in 0..n /\ i - 1 = n
      BY <1>1, <2>2
    <3> QED BY <1>1, <1>2, <1>3, <1>4, <2>2, <3>1
  <2> QED BY <1>1, <2>1, <2>2
<1>6. 0 \in 0..n
  BY <1>1
<1>7. Laid(ds, s, k + 1, f)
  BY <1>1, <1>2, <1>3, <1>5, <1>6 DEF Laid
<1> QED BY <1>7 DEF ds

\* A bucket at the end of a list of them.
LEMMA BucketsAre ==
  ASSUME Types
  PROVE  /\ Buckets \in Seq(Delivered) /\ Flush(cur, end) \in Delivered
         /\ Len(sent) \in Nat /\ Len(in) \in Nat /\ Taken \in Int
         /\ pc # "done" => Buckets = Append(out, Flush(cur, end))
         /\ pc = "done" => Buckets = out
<1>1. out \in Seq(Delivered) /\ cur \in Bucket /\ end \in Nat /\ in \in Seq(Events) /\ sent \in Seq(Events)
  BY DEF Types
<1> DEFINE b == Flush(cur, end)
<1>2. b \in Delivered
  BY <1>1, FlushKeeps
<1>3. Len(sent) \in Nat /\ Len(in) \in Nat /\ Taken \in Int
  BY <1>1 DEF Taken
<1>4. Buckets = (IF pc = "done" THEN out ELSE Append(out, b))
  BY DEF Buckets
<1> HIDE DEF b
<1> QED BY <1>1, <1>2, <1>3, <1>4 DEF b

\* Nothing has been sent at the start.
LEMMA FlowInit == Init => Flow
<1> SUFFICES ASSUME Init PROVE Flow
  OBVIOUS
<1>1. out = <<>> /\ sent = <<>> /\ in = <<>> /\ pc = "new" /\ cur.evs = <<>>
  BY DEF Init, NewBucket
<1>2. Taken = 0 /\ Len(in) <= Len(sent) /\ 1..Len(in) = {}
  BY <1>1 DEF Taken
<1> DEFINE b == Flush(cur, end)
           c == [i \in 0..1 |-> 0]
<1>3. b.evs = <<>>
  BY <1>1 DEF Flush
<1>4. Buckets = Append(<<>>, b)
  BY <1>1 DEF Buckets
<1> HIDE DEF b
<1>5. Len(Buckets) = 1 /\ Buckets[1] = b
  BY <1>4
<1>6. Slice(<<>>, <<>>, 0, 0)
  BY DEF Slice
<1>7. c \in [0..1 -> Nat] /\ c[0] = 0 /\ c[1] = 0
  OBVIOUS
<1> HIDE DEF c
<1>8. Laid(Buckets, sent, Taken, c)
  BY <1>1, <1>2, <1>3, <1>5, <1>6, <1>7 DEF Laid
<1> QED BY <1>1, <1>2, <1>8 DEF Flow

\* Sending adds to the channel and to what was sent.
LEMMA PutFlows ==
  ASSUME IInv, Flow, NEW e \in Events, Put(e)
  PROVE  Flow'
<1>1. /\ in' = Append(in, e) /\ sent' = Append(sent, e)
      /\ UNCHANGED <<ctx, pc, cur, end, out, promised>>
  BY DEF Put
<1>2. in \in Seq(Events) /\ sent \in Seq(Events)
  BY DEF IInv, Types
<1>3. Len(in') = Len(in) + 1 /\ Len(sent') = Len(sent) + 1 /\ Len(in) \in Nat /\ Len(sent) \in Nat
  BY <1>1, <1>2
<1>4. Taken' = Taken /\ Taken \in Int
  BY <1>3 DEF Taken
<1>5. Len(in) <= Len(sent) /\ \A j \in 1..Len(in) : in[j] = sent[Taken + j]
  BY DEF Flow
<1>6. ASSUME NEW j \in 1..Len(in') PROVE in'[j] = sent'[Taken' + j]
  <2>1. CASE j = Len(in) + 1
    <3>1. in'[j] = e
      BY <1>1, <1>2, <2>1
    <3>2. Taken' + j = Len(sent) + 1
      BY <1>3, <1>4, <2>1 DEF Taken
    <3>3. sent'[Len(sent) + 1] = e
      BY <1>1, <1>2
    <3> QED BY <3>1, <3>2, <3>3
  <2>2. CASE j \in 1..Len(in)
    <3>1. in'[j] = in[j]
      BY <1>1, <1>2, <2>2
    <3>2. Taken + j \in 1..Len(sent)
      BY <1>3, <1>5, <2>2 DEF Taken
    <3>3. sent'[Taken + j] = sent[Taken + j]
      BY <1>1, <1>2, <3>2
    <3> QED BY <1>4, <1>5, <2>2, <3>1, <3>3
  <2> QED BY <1>3, <2>1, <2>2
<1>7. Buckets' = Buckets
  BY <1>1 DEF Buckets
<1>8. PICK c : Laid(Buckets, sent, Taken, c)
  BY DEF Flow
<1>9. Laid(Buckets, Append(sent, e), Taken, c)
  BY <1>2, <1>8, LaidStays, BucketsAre DEF IInv
<1>10. Laid(Buckets', sent', Taken', c)
  BY <1>1, <1>4, <1>7, <1>9
<1>11. /\ pc = "new" => cur.evs = <<>>
       /\ pc \in {"drain", "last", "done"} => ctx
       /\ pc \in {"last", "done"} => promised <= Taken
  BY DEF Flow
<1>12. /\ pc' = "new" => cur'.evs = <<>>
       /\ pc' \in {"drain", "last", "done"} => ctx'
       /\ pc' \in {"last", "done"} => promised' <= Taken'
  BY <1>1, <1>4, <1>11
<1> QED BY <1>3, <1>5, <1>6, <1>10, <1>12 DEF Flow

\* A step that takes nothing from the channel and leaves the events of each bucket.
LEMMA StillFlows ==
  ASSUME IInv, Flow,
         \/ Close \/ Cancel \/ Pass \/ FirstBucket \/ Tick \/ Stop \/ FlushLast
         \/ Count /\ in = <<>>
         \/ Drain /\ (inNil \/ in = <<>>)
         \/ UNCHANGED vars
  PROVE  Flow'
<1>1. Types /\ UNCHANGED <<in, sent>>
  BY DEF IInv, Close, Cancel, Pass, FirstBucket, Count, Tick, Stop, Drain, FlushLast, vars
<1>2. Taken' = Taken
  BY <1>1 DEF Taken
<1>3. PICK c : Laid(Buckets, sent, Taken, c)
  BY DEF Flow
<1>4. Len(Buckets') = Len(Buckets) /\ \A i \in 1..Len(Buckets) : Buckets'[i].evs = Buckets[i].evs
  <2>1. CASE UNCHANGED <<out, cur, end, pc>>
    BY <2>1 DEF Buckets
  <2>2. CASE FlushLast
    BY <2>2 DEF FlushLast, Buckets
  <2>3. CASE /\ UNCHANGED out /\ cur'.evs = cur.evs /\ pc # "done" /\ pc' # "done"
    <3> DEFINE b == Flush(cur, end)
               d == Flush(cur, end)'
    <3>1. b.evs = cur.evs /\ d.evs = cur'.evs
      BY DEF Flush
    <3>2. out \in Seq(Delivered)
      BY <1>1 DEF Types
    <3>3. Buckets = Append(out, b) /\ Buckets' = Append(out, d)
      BY <2>3 DEF Buckets
    <3> HIDE DEF b, d
    <3> QED BY <2>3, <3>1, <3>2, <3>3
  <2>4. FirstBucket => cur'.evs = <<>> /\ cur.evs = <<>>
    BY DEF FirstBucket, NewBucket, Flow
  <2> QED BY <2>1, <2>2, <2>3, <2>4
      DEF Close, Cancel, Pass, FirstBucket, Count, Tick, Stop, Drain, FlushLast, vars
<1>5. Laid(Buckets', sent', Taken', c)
  BY <1>1, <1>2, <1>3, <1>4, LaidAlike
<1>6. /\ pc' = "new" => cur'.evs = <<>>
      /\ pc' \in {"drain", "last", "done"} => ctx'
  BY DEF Flow, Close, Cancel, Pass, FirstBucket, Count, Tick, Stop, Drain, FlushLast, vars
<1>7. pc' \in {"last", "done"} => promised' <= Taken'
  <2>1. CASE Drain /\ (inNil \/ in = <<>>)
    <3>1. in = <<>> /\ promised <= Len(sent) /\ promised' = promised
      BY <1>1, <2>1 DEF Types, Drain
    <3>2. Taken = Len(sent)
      BY <1>1, <3>1 DEF Types, Taken
    <3> QED BY <1>2, <3>1, <3>2
  <2>2. CASE /\ pc' \in {"last", "done"}
             /\ \/ Close \/ Cancel \/ Pass \/ FirstBucket \/ Tick \/ Stop \/ FlushLast
                \/ Count \/ UNCHANGED vars
    <3>1. pc \in {"last", "done"}
      BY <2>2 DEF Close, Cancel, Pass, FirstBucket, Count, Tick, Stop, FlushLast, vars
    <3>2. promised <= Taken /\ ctx
      BY <3>1 DEF Flow
    <3>3. promised' = promised
      BY <2>2, <3>2 DEF Close, Cancel, Pass, FirstBucket, Count, Tick, Stop, FlushLast, vars
    <3> QED BY <1>2, <3>2, <3>3
  <2> QED BY <2>1, <2>2
<1>8. Len(in) <= Len(sent) /\ \A j \in 1..Len(in) : in[j] = sent[Taken + j]
  BY DEF Flow
<1>9. Len(in') <= Len(sent') /\ \A j \in 1..Len(in') : in'[j] = sent'[Taken' + j]
  BY <1>1, <1>2, <1>8
<1> QED BY <1>5, <1>6, <1>7, <1>9 DEF Flow

\* An event taken from the channel is at the end of the bucket being filled.
LEMMA AddFlows ==
  ASSUME IInv, Flow, pc \in {"select", "drain"}, in # <<>>,
         cur' = Add(cur, Head(in)), in' = Tail(in),
         UNCHANGED <<ctx, pc, end, out, sent, promised>>
  PROVE  Flow'
<1>1. Types /\ Books /\ Clock
  BY DEF IInv
<1>2. in \in Seq(Events) /\ sent \in Seq(Events) /\ cur \in Bucket /\ end \in Nat /\ now \in Nat
  BY <1>1 DEF Types
<1>3. /\ Head(in) \in Events /\ Head(in) = in[1] /\ Len(in') = Len(in) - 1 /\ Len(in) \in Nat \ {0}
      /\ \A j \in 1..Len(in') : in'[j] = in[j + 1]
  BY <1>2
<1>4. Len(in) <= Len(sent) /\ \A j \in 1..Len(in) : in[j] = sent[Taken + j]
  BY DEF Flow
<1>5. Taken' = Taken + 1 /\ Taken \in Nat /\ Taken < Len(sent) /\ Len(sent) \in Nat
  BY <1>2, <1>3, <1>4 DEF Taken
<1>6. ASSUME NEW j \in 1..Len(in') PROVE in'[j] = sent'[Taken' + j]
  <2>1. j + 1 \in 1..Len(in) /\ Taken + (j + 1) = Taken' + j
    BY <1>3, <1>5
  <2> QED BY <1>3, <1>4, <2>1
<1> DEFINE x == [e |-> Head(in), at |-> now]
           b == Flush(cur, end)
           d == Flush(cur, end)'
           Entry == [e : Events, at : Nat]
<1>7. b.evs = cur.evs /\ d.evs = Append(cur.evs, x)
  BY DEF Flush, Add
<1>8. cur.evs \in Seq(Entry) /\ x \in Entry /\ x.e = sent[Taken + 1]
  <2>1. 1 \in 1..Len(in)
    BY <1>3
  <2> QED BY <1>2, <1>3, <1>4, <2>1 DEF Bucket
<1>9. cur' \in Bucket /\ b \in Delivered /\ d \in Delivered
  <2>1. cur' \in Bucket
    BY <1>1, <1>2, <1>3, AddIsFull DEF Clock, Books
  <2>2. Flush(cur, end) \in Delivered
    BY <1>2, FlushKeeps
  <2>3. d = Flush(cur', end)
    OBVIOUS
  <2>4. Flush(cur', end) \in Delivered
    BY <1>2, <2>1, FlushKeeps
  <2> QED BY <2>1, <2>2, <2>3, <2>4
<1>10. Buckets = Append(out, b) /\ Buckets' = Append(out, d) /\ out \in Seq(Delivered)
  BY <1>1 DEF Buckets, Types
<1>11. PICK c : Laid(Buckets, sent, Taken, c)
  BY DEF Flow
<1> HIDE DEF x, b, d, Entry
<1>12. Laid(Append(out, b), sent, Taken, c)
  BY <1>10, <1>11
<1>13. \E f : Laid(Append(out, d), sent, Taken + 1, f)
  BY <1>5, <1>7, <1>8, <1>9, <1>10, <1>12, LaidFurther
<1>14. \E f : Laid(Buckets', sent', Taken', f)
  BY <1>5, <1>10, <1>13
<1>15. /\ pc' # "new" /\ pc' \notin {"last", "done"}
       /\ pc' \in {"drain", "last", "done"} => ctx'
  BY DEF Flow
<1>16. Len(in') <= Len(sent')
  BY <1>3, <1>4, <1>5
<1> QED BY <1>6, <1>14, <1>15, <1>16 DEF Flow

\* The bucket after one that was delivered is empty.
LEMMA FlushFlows == IInv /\ Flow /\ FlushTick => Flow'
<1> SUFFICES ASSUME IInv, Flow, FlushTick PROVE Flow'
  OBVIOUS
<1>1. Types
  BY DEF IInv
<1>2. /\ pc = "flush" /\ pc' = "select" /\ cur' = NewBucket(end)
      /\ out' = Append(out, Flush(cur, end))
      /\ UNCHANGED <<in, ctx, end, sent, promised>>
  BY DEF FlushTick
<1>3. Taken' = Taken /\ Taken \in Nat /\ Taken <= Len(sent) /\ Len(sent) \in Nat
  BY <1>1, <1>2 DEF Taken, Types, Flow
<1> DEFINE d == Flush(cur, end)'
<1>4. d = Flush(NewBucket(end), end)
  BY <1>2
<1>5. d \in Delivered /\ d.evs = <<>>
  <2>1. end \in Nat
    BY <1>1 DEF Types
  <2>2. NewBucket(end) \in Bucket /\ NewBucket(end).evs = <<>>
    BY <2>1, NewIsFull
  <2> QED BY <1>4, <2>1, <2>2, FlushKeeps
<1>6. Buckets = out' /\ Buckets' = Append(out', d) /\ Buckets \in Seq(Delivered)
  BY <1>1, <1>2, BucketsAre DEF Buckets
<1>7. PICK c : Laid(Buckets, sent, Taken, c)
  BY DEF Flow
<1> HIDE DEF d
<1>8. \E f : Laid(Append(Buckets, d), sent, Taken, f)
  BY <1>3, <1>5, <1>6, <1>7, LaidLonger
<1>9. \E f : Laid(Buckets', sent', Taken', f)
  BY <1>2, <1>3, <1>6, <1>8
<1>10. Len(in') <= Len(sent') /\ \A j \in 1..Len(in') : in'[j] = sent'[Taken' + j]
  BY <1>2, <1>3 DEF Flow
<1> QED BY <1>2, <1>9, <1>10 DEF Flow

\* Every step keeps the account of the events sent.
LEMMA FlowKept == IInv /\ Flow /\ [Next]_vars => Flow'
<1> SUFFICES ASSUME IInv, Flow, [Next]_vars PROVE Flow'
  OBVIOUS
<1>1. CASE \E e \in Events : Put(e)
  BY <1>1, PutFlows
<1>2. CASE Close \/ Cancel \/ Pass \/ FirstBucket \/ Tick \/ Stop \/ FlushLast \/ UNCHANGED vars \/ Finished
  BY <1>2, StillFlows DEF Finished
<1>3. CASE FlushTick
  BY <1>3, FlushFlows
<1>4. CASE Count
  <2>1. CASE in # <<>>
    BY <1>4, <2>1, AddFlows DEF Count
  <2>2. CASE in = <<>>
    BY <1>4, <2>2, StillFlows
  <2> QED BY <2>1, <2>2
<1>5. CASE Drain
  <2>1. CASE ~inNil /\ in # <<>>
    BY <1>5, <2>1, AddFlows DEF Drain
  <2>2. CASE inNil \/ in = <<>>
    BY <1>5, <2>2, StillFlows
  <2> QED BY <2>1, <2>2
<1> QED BY <1>1, <1>2, <1>3, <1>4, <1>5 DEF Next, Run

-----------------------------------------------------------------------------
(* What the maps of a bucket add up to, and its latencies. *)

\* The places of the events that tell a latency, and of those that tell one of at
\* most v, or of less.
Timings(evs) == {j \in DOMAIN evs : evs[j].e.lat > 0}
TimedUpto(evs, v) == {j \in Timings(evs) : evs[j].e.lat <= v}
TimedBelow(evs, v) == {j \in Timings(evs) : evs[j].e.lat < v}

\* The latencies kept are those that the events tell, each as often.
Told(b) ==
  /\ Cardinality(Timings(b.evs)) = Len(b.latencies)
  /\ \A i \in 1..Len(b.latencies) :
       \E j \in Timings(b.evs) : b.evs[j].e.lat = b.latencies[i]
  /\ \A v \in Int :
       /\ Cardinality(TimedUpto(b.evs, v)) = Cardinality(Upto(b.latencies, v))
       /\ Cardinality(TimedBelow(b.evs, v)) = Cardinality(Below(b.latencies, v))

\* The maps add up to something, and agree with the totals.
Tallied(b) ==
  /\ IsFiniteSet(Units(b.byStatus, Statuses))
  /\ IsFiniteSet(Units(b.byHost, Hosts))
  /\ IsFiniteSet(Units(b.byLevel, Levels))
  /\ TalliesAgree(b)

\* Both of the bucket being filled; of those delivered, what they report.
Accounts ==
  /\ Tallied(cur) /\ Told(cur)
  /\ \A i \in DOMAIN out : TalliesAgree(out[i]) /\ P99Explained(out[i])

\* The units of a map are pairs of a key and a number.
LEMMA UnitsAre ==
  ASSUME NEW m, NEW keys
  PROVE  \A x : x \in Units(m, keys) <=> \E k \in keys : \E i \in 1..m[k] : x = <<k, i>>
BY DEF Units

\* Units of fewer keys are among the others.
LEMMA UnitsFewer ==
  ASSUME NEW m, NEW keys, NEW some \in SUBSET keys, IsFiniteSet(Units(m, keys))
  PROVE  IsFiniteSet(Units(m, some)) /\ Total(m, some) \in Nat
<1>1. Units(m, some) \in SUBSET Units(m, keys)
  BY DEF Units
<1>2. IsFiniteSet(Units(m, some))
  BY <1>1, FS_Subset
<1> QED BY <1>2, FS_CardinalityType DEF Total

\* An empty map adds up to nothing.
LEMMA ZeroUnits ==
  ASSUME NEW all, NEW keys \in SUBSET all
  PROVE  IsFiniteSet(Units(Zero(all), keys)) /\ Total(Zero(all), keys) = 0
<1>1. \A k \in keys : 1..Zero(all)[k] = {}
  BY DEF Zero
<1>2. Units(Zero(all), keys) = {}
  BY <1>1, UnitsAre
<1> QED BY <1>2, FS_EmptySet DEF Total

\* Counting a key adds one to what the map adds up to over keys that include it.
LEMMA CountOneUnits ==
  ASSUME NEW all, NEW m \in [all -> Nat], NEW keys \in SUBSET all, NEW k,
         IsFiniteSet(Units(m, keys))
  PROVE  /\ IsFiniteSet(Units(CountOne(m, k), keys))
         /\ Total(m, keys) \in Nat
         /\ Total(CountOne(m, k), keys) = Total(m, keys) + (IF k \in keys THEN 1 ELSE 0)
<1> DEFINE c == CountOne(m, k)
           U == Units(m, keys)
           V == Units(c, keys)
           x == <<k, m[k] + 1>>
<1>1. Total(m, keys) \in Nat
  BY FS_CardinalityType DEF Total
<1>2. CASE k \in keys
  <2>1. k \in all /\ m[k] \in Nat
    BY <1>2
  <2>2. c[k] = m[k] + 1 /\ \A l \in keys : l # k => c[l] = m[l]
    BY <2>1 DEF CountOne
  <2>3. x \notin U
    <3>1. SUFFICES ASSUME NEW l \in keys, NEW i \in 1..m[l], x = <<l, i>> PROVE FALSE
      BY UnitsAre
    <3>2. l = k /\ i = m[k] + 1
      BY <3>1
    <3> QED BY <2>1, <3>2
  <2> HIDE DEF c, x
  <2>4. V \subseteq U \cup {x}
    <3> SUFFICES ASSUME NEW l \in keys, NEW i \in 1..c[l] PROVE <<l, i>> \in U \cup {x}
      BY UnitsAre
    <3>1. CASE l = k
      <4>1. i \in 1..m[k] \/ i = m[k] + 1
        BY <2>1, <2>2, <3>1
      <4> QED BY <3>1, <4>1, UnitsAre DEF x
    <3>2. CASE l # k
      BY <2>2, <3>2, UnitsAre
    <3> QED BY <3>1, <3>2
  <2>5. U \subseteq V
    <3> SUFFICES ASSUME NEW l \in keys, NEW i \in 1..m[l] PROVE <<l, i>> \in V
      BY UnitsAre
    <3>1. i \in 1..c[l]
      BY <2>1, <2>2
    <3> QED BY <3>1, UnitsAre
  <2>6. x \in V
    <3>1. m[k] + 1 \in 1..c[k]
      BY <2>1, <2>2
    <3> QED BY <1>2, <3>1, UnitsAre DEF x
  <2>7. V = U \cup {x}
    BY <2>4, <2>5, <2>6
  <2> HIDE DEF U, V
  <2>8. IsFiniteSet(V) /\ Cardinality(V) = Cardinality(U) + 1
    BY <2>3, <2>7, FS_AddElement DEF U
  <2> QED BY <1>1, <1>2, <2>8 DEF U, V, c, Total
<1>3. CASE k \notin keys
  <2>1. \A l \in keys : c[l] = m[l]
    BY <1>3 DEF CountOne
  <2>2. V = U
    <3> HIDE DEF c
    <3>1. ASSUME NEW y PROVE y \in V <=> y \in U
      <4>1. y \in V <=> \E l \in keys : \E i \in 1..c[l] : y = <<l, i>>
        BY UnitsAre
      <4>2. y \in U <=> \E l \in keys : \E i \in 1..m[l] : y = <<l, i>>
        BY UnitsAre
      <4> QED BY <2>1, <4>1, <4>2
    <3> HIDE DEF U, V
    <3> QED BY <3>1
  <2> QED BY <1>1, <1>3, <2>2 DEF Total
<1> QED BY <1>2, <1>3

\* Counting an event keeps the maps in agreement with the totals.
LEMMA AddTallied ==
  ASSUME NEW b \in Bucket, Tallied(b), NEW e \in Events
  PROVE  Tallied(Add(b, e))
<1> DEFINE status == b.byStatus
           level == b.byLevel
           host == b.byHost
           Bad == {s \in Statuses : s >= 400}
           Grave == Levels \cap {"error", "fatal"}
           c == Add(b, e)
           http == IsHttp(e)
           bad == e.status \in Bad
           grave == ~http /\ e.level \in Grave
<1>1. /\ status \in [Statuses -> Nat] /\ level \in [Levels -> Nat] /\ host \in [Hosts -> Nat]
      /\ b.total \in Nat /\ b.errors \in Nat
  BY DEF Bucket
<1>2. /\ IsFiniteSet(Units(status, Statuses)) /\ IsFiniteSet(Units(level, Levels))
      /\ IsFiniteSet(Units(host, Hosts))
      /\ b.errors = Total(status, Bad) + Total(level, Grave)
      /\ Total(status, Statuses) + Total(level, Levels) <= b.total
      /\ Total(host, Hosts) <= b.total
  BY DEF Tallied, TalliesAgree
<1>3. /\ c.byStatus = CountOne(status, e.status) /\ c.byHost = CountOne(host, e.host)
      /\ c.byLevel = IF http THEN level ELSE CountOne(level, e.level)
      /\ c.total = b.total + 1
      /\ c.errors = IF IsError(e) THEN b.errors + 1 ELSE b.errors
  BY DEF Add
<1>4. http <=> e.status \in Statuses
  BY DEF IsHttp, Statuses
<1>5. IsError(e) <=> bad \/ grave
  <2>1. bad <=> http /\ e.status >= 400
    BY <1>4
  <2>2. e.level \in {"error", "fatal"} => e.level \in Levels
    BY Zenon DEF Levels
  <2> QED BY <2>1, <2>2 DEF IsError
<1> HIDE DEF c, status, level, host, http
<1>6. Bad \in SUBSET Statuses /\ Grave \in SUBSET Levels /\ (bad => http)
  BY <1>4
<1> HIDE DEF Bad, Grave
<1>7. /\ IsFiniteSet(Units(status, Bad)) /\ IsFiniteSet(Units(level, Grave))
      /\ Total(status, Bad) \in Nat /\ Total(level, Grave) \in Nat
      /\ Total(status, Statuses) \in Nat /\ Total(level, Levels) \in Nat
      /\ Total(host, Hosts) \in Nat
  BY <1>2, <1>6, UnitsFewer
<1>8. /\ IsFiniteSet(Units(c.byStatus, Statuses))
      /\ Total(c.byStatus, Statuses) = Total(status, Statuses) + (IF http THEN 1 ELSE 0)
      /\ Total(c.byStatus, Bad) = Total(status, Bad) + (IF bad THEN 1 ELSE 0)
  BY <1>1, <1>2, <1>3, <1>4, <1>6, <1>7, CountOneUnits
<1>9. /\ IsFiniteSet(Units(c.byHost, Hosts))
      /\ Total(c.byHost, Hosts) <= Total(host, Hosts) + 1
  <2>1. /\ IsFiniteSet(Units(c.byHost, Hosts))
        /\ Total(c.byHost, Hosts) = Total(host, Hosts) + (IF e.host \in Hosts THEN 1 ELSE 0)
    BY <1>1, <1>2, <1>3, CountOneUnits
  <2> QED BY <1>7, <2>1
<1>10. /\ IsFiniteSet(Units(c.byLevel, Levels))
       /\ Total(c.byLevel, Levels) <= Total(level, Levels) + (IF http THEN 0 ELSE 1)
       /\ Total(c.byLevel, Levels) \in Nat
       /\ Total(c.byLevel, Grave) = Total(level, Grave) + (IF grave THEN 1 ELSE 0)
  <2>1. CASE http
    BY <1>2, <1>3, <1>7, <2>1
  <2>2. CASE ~http
    <3>1. /\ IsFiniteSet(Units(c.byLevel, Levels))
          /\ Total(c.byLevel, Levels) = Total(level, Levels) + (IF e.level \in Levels THEN 1 ELSE 0)
          /\ Total(c.byLevel, Grave) = Total(level, Grave) + (IF e.level \in Grave THEN 1 ELSE 0)
      BY <1>1, <1>2, <1>3, <1>6, <1>7, <2>2, CountOneUnits
    <3> QED BY <1>7, <2>2, <3>1
  <2> QED BY <2>1, <2>2
<1>11. c.errors = Total(c.byStatus, Bad) + Total(c.byLevel, Grave)
  <2>1. ~(bad /\ grave)
    BY <1>6
  <2> QED BY <1>2, <1>3, <1>5, <1>7, <1>8, <1>10, <2>1
<1>12. Total(c.byStatus, Statuses) + Total(c.byLevel, Levels) <= c.total
  BY <1>1, <1>2, <1>3, <1>7, <1>8, <1>10
<1>13. Total(c.byHost, Hosts) \in Nat
  BY <1>9, FS_CardinalityType DEF Total
<1>14. Total(c.byHost, Hosts) <= c.total
  BY <1>1, <1>2, <1>3, <1>7, <1>9, <1>13
<1> QED BY <1>8, <1>9, <1>10, <1>11, <1>12, <1>14 DEF Tallied, TalliesAgree, Bad, Grave, c

\* One place more is one more.
LEMMA OnePlaceMore ==
  ASSUME NEW n \in Nat, NEW A \in SUBSET (1..n)
  PROVE  Cardinality(A) \in Nat /\ Cardinality(A \cup {n + 1}) = Cardinality(A) + 1
<1>1. IsFiniteSet(1..n)
  BY FS_Interval
<1>2. IsFiniteSet(A)
  BY <1>1, FS_Subset
<1>3. n + 1 \notin A
  <2>1. n + 1 \notin 1..n
    OBVIOUS
  <2> QED BY <2>1
<1> QED BY <1>2, <1>3, FS_CardinalityType, FS_AddElement

\* The places that tell a latency when the list ds has one event more than evs.
TimedLonger(evs, ds, n, lat) ==
  /\ \A j \in DOMAIN evs : j \in DOMAIN ds /\ ds[j] = evs[j]
  /\ Timings(ds) = IF lat > 0 THEN Timings(evs) \cup {n} ELSE Timings(evs)
  /\ \A v : TimedUpto(ds, v) =
            IF lat > 0 /\ lat <= v THEN TimedUpto(evs, v) \cup {n} ELSE TimedUpto(evs, v)
  /\ \A v : TimedBelow(ds, v) =
            IF lat > 0 /\ lat < v THEN TimedBelow(evs, v) \cup {n} ELSE TimedBelow(evs, v)

\* So they are for a list with an event appended.
LEMMA TimedGrow ==
  ASSUME NEW S, NEW evs \in Seq(S), NEW x \in S
  PROVE  TimedLonger(evs, Append(evs, x), Len(evs) + 1, x.e.lat)
<1> DEFINE ds == Append(evs, x)
<1> DEFINE n == Len(evs)
<1>1. /\ n \in Nat /\ DOMAIN evs = 1..n /\ DOMAIN ds = 1..(n + 1)
      /\ ds[n + 1] = x /\ \A j \in 1..n : ds[j] = evs[j]
  OBVIOUS
<1> HIDE DEF n, ds
<1>2. DOMAIN ds = (1..n) \cup {n + 1} /\ n + 1 \notin 1..n
  BY <1>1
<1>3. Timings(ds) = IF x.e.lat > 0 THEN Timings(evs) \cup {n + 1} ELSE Timings(evs)
  BY <1>1, <1>2 DEF Timings
<1>4. n + 1 \notin Timings(evs) /\ \A j \in Timings(evs) : ds[j] = evs[j]
  BY <1>1, <1>2 DEF Timings
<1>5. ASSUME NEW v
      PROVE  TimedUpto(ds, v) = IF x.e.lat > 0 /\ x.e.lat <= v
                                THEN TimedUpto(evs, v) \cup {n + 1} ELSE TimedUpto(evs, v)
  BY <1>1, <1>3, <1>4 DEF TimedUpto
<1>6. ASSUME NEW v
      PROVE  TimedBelow(ds, v) = IF x.e.lat > 0 /\ x.e.lat < v
                                 THEN TimedBelow(evs, v) \cup {n + 1} ELSE TimedBelow(evs, v)
  BY <1>1, <1>3, <1>4 DEF TimedBelow
<1>7. \A j \in DOMAIN evs : j \in DOMAIN ds /\ ds[j] = evs[j]
  BY <1>1, <1>2
<1> QED BY <1>3, <1>5, <1>6, <1>7, Zenon DEF n, ds, TimedLonger

\* Likewise the places of a list of numbers.
PlacesLonger(s, t, n, x) ==
  /\ \A v : Upto(t, v) = IF x <= v THEN Upto(s, v) \cup {n} ELSE Upto(s, v)
  /\ \A v : Below(t, v) = IF x < v THEN Below(s, v) \cup {n} ELSE Below(s, v)

\* So they are with a number appended.
LEMMA PlacesGrow ==
  ASSUME NEW s \in Seq(Int), NEW x \in Int
  PROVE  PlacesLonger(s, Append(s, x), Len(s) + 1, x)
<1> DEFINE t == Append(s, x)
<1> DEFINE n == Len(s)
<1>1. /\ n \in Nat /\ DOMAIN s = 1..n /\ DOMAIN t = 1..(n + 1)
      /\ t[n + 1] = x /\ \A j \in 1..n : t[j] = s[j]
  OBVIOUS
<1> HIDE DEF n, t
<1>2. DOMAIN t = (1..n) \cup {n + 1} /\ n + 1 \notin 1..n
  BY <1>1
<1>3. ASSUME NEW v PROVE Upto(t, v) = IF x <= v THEN Upto(s, v) \cup {n + 1} ELSE Upto(s, v)
  BY <1>1, <1>2 DEF Upto
<1>4. ASSUME NEW v PROVE Below(t, v) = IF x < v THEN Below(s, v) \cup {n + 1} ELSE Below(s, v)
  BY <1>1, <1>2 DEF Below
<1> QED BY <1>3, <1>4, Zenon DEF n, t, PlacesLonger

\* A bucket's latencies are integers.
LEMMA LatenciesAre ==
  ASSUME NEW b \in Bucket
  PROVE  b.latencies \in Seq(Int) /\ b.evs \in Seq([e : Events, at : Nat])
<1>1. {e.lat : e \in Events} \subseteq Int
  BY EventsAssumption
<1> DEFINE L == {e.lat : e \in Events}
           l == b.latencies
<1>2. l \in Seq(L) /\ b.evs \in Seq([e : Events, at : Nat])
  BY DEF Bucket
<1> HIDE DEF L, l
<1>3. L \subseteq Int
  BY <1>1 DEF L
<1>4. l \in Seq(Int)
  <2>1. Len(l) \in Nat /\ l \in [1..Len(l) -> L]
    BY <1>2
  <2>2. l \in [1..Len(l) -> Int]
    BY <1>3, <2>1
  <2> QED BY <2>1, <2>2
<1> QED BY <1>2, <1>4 DEF l

\* Counting an event keeps the latencies those that the events tell.
LEMMA AddTold ==
  ASSUME NEW b \in Bucket, Told(b), NEW e \in Events, now \in Nat
  PROVE  Told(Add(b, e))
<1> DEFINE Entry == [e : Events, at : Nat]
           x == [e |-> e, at |-> now]
           evs == b.evs
           ds == Add(b, e).evs
           l == b.latencies
           t == Add(b, e).latencies
           n == Len(evs)
           k == Len(l)
           lat == e.lat
<1>1. /\ evs \in Seq(Entry) /\ x \in Entry /\ ds = Append(evs, x) /\ x.e.lat = lat
      /\ l \in Seq(Int) /\ lat \in Int /\ t = IF lat > 0 THEN Append(l, lat) ELSE l
  BY LatenciesAre, EventsAssumption DEF Add, Timed
<1>2. /\ Cardinality(Timings(evs)) = k
      /\ \A i \in 1..k : \E j \in Timings(evs) : evs[j].e.lat = l[i]
      /\ \A v \in Int :
           /\ Cardinality(TimedUpto(evs, v)) = Cardinality(Upto(l, v))
           /\ Cardinality(TimedBelow(evs, v)) = Cardinality(Below(l, v))
  BY DEF Told
<1> HIDE DEF Entry, x, evs, ds, l, t, lat
<1>3. n \in Nat /\ k \in Nat /\ DOMAIN evs = 1..n /\ DOMAIN l = 1..k
  BY <1>1
<1>4. /\ \A j \in DOMAIN evs : j \in DOMAIN ds /\ ds[j] = evs[j]
      /\ Timings(ds) = IF lat > 0 THEN Timings(evs) \cup {n + 1} ELSE Timings(evs)
      /\ \A v : TimedUpto(ds, v) = IF lat > 0 /\ lat <= v
                                   THEN TimedUpto(evs, v) \cup {n + 1} ELSE TimedUpto(evs, v)
      /\ \A v : TimedBelow(ds, v) = IF lat > 0 /\ lat < v
                                    THEN TimedBelow(evs, v) \cup {n + 1} ELSE TimedBelow(evs, v)
  <2>1. TimedLonger(evs, ds, n + 1, lat)
    BY <1>1, TimedGrow, Zenon
  <2> QED BY <2>1, Zenon DEF TimedLonger
<1>5. ASSUME NEW v
      PROVE  /\ Timings(evs) \in SUBSET (1..n) /\ TimedUpto(evs, v) \in SUBSET (1..n)
             /\ TimedBelow(evs, v) \in SUBSET (1..n)
             /\ Upto(l, v) \in SUBSET (1..k) /\ Below(l, v) \in SUBSET (1..k)
  BY <1>3 DEF Timings, TimedUpto, TimedBelow, Upto, Below
<1>6. CASE lat > 0
  <2>1. t = Append(l, lat) /\ Len(t) = k + 1 /\ t[k + 1] = lat /\ \A i \in 1..k : t[i] = l[i]
    BY <1>1, <1>6
  <2>2. /\ \A v : Upto(t, v) = IF lat <= v THEN Upto(l, v) \cup {k + 1} ELSE Upto(l, v)
        /\ \A v : Below(t, v) = IF lat < v THEN Below(l, v) \cup {k + 1} ELSE Below(l, v)
    <3>1. PlacesLonger(l, t, k + 1, lat)
      BY <1>1, <2>1, PlacesGrow, Zenon
    <3> QED BY <3>1, Zenon DEF PlacesLonger
  <2>3. Cardinality(Timings(ds)) = Len(t)
    <3>1. Cardinality(Timings(evs) \cup {n + 1}) = Cardinality(Timings(evs)) + 1
      BY <1>3, <1>5, OnePlaceMore
    <3> QED BY <1>2, <1>4, <1>6, <2>1, <3>1
  <2>4. ASSUME NEW i \in 1..Len(t) PROVE \E j \in Timings(ds) : ds[j].e.lat = t[i]
    <3>1. CASE i \in 1..k
      <4>1. PICK j \in Timings(evs) : evs[j].e.lat = l[i]
        BY <1>2, <3>1
      <4>2. j \in Timings(ds) /\ ds[j] = evs[j]
        BY <1>4, <1>6, <4>1 DEF Timings
      <4> QED BY <2>1, <3>1, <4>1, <4>2
    <3>2. CASE i = k + 1
      <4>1. n + 1 \in Timings(ds) /\ ds[n + 1] = x
        BY <1>1, <1>4, <1>6
      <4> QED BY <1>1, <2>1, <3>2, <4>1
    <3>3. i \in 1..k \/ i = k + 1
      BY <1>3, <2>1
    <3> QED BY <3>1, <3>2, <3>3
  <2>5. ASSUME NEW v \in Int
        PROVE  /\ Cardinality(TimedUpto(ds, v)) = Cardinality(Upto(t, v))
               /\ Cardinality(TimedBelow(ds, v)) = Cardinality(Below(t, v))
    <3>1. /\ Cardinality(TimedUpto(evs, v) \cup {n + 1}) = Cardinality(TimedUpto(evs, v)) + 1
          /\ Cardinality(TimedBelow(evs, v) \cup {n + 1}) = Cardinality(TimedBelow(evs, v)) + 1
      BY <1>3, <1>5, OnePlaceMore
    <3>2. /\ Cardinality(Upto(l, v) \cup {k + 1}) = Cardinality(Upto(l, v)) + 1
          /\ Cardinality(Below(l, v) \cup {k + 1}) = Cardinality(Below(l, v)) + 1
      BY <1>3, <1>5, OnePlaceMore
    <3>3. /\ TimedUpto(ds, v) = IF lat <= v THEN TimedUpto(evs, v) \cup {n + 1} ELSE TimedUpto(evs, v)
          /\ TimedBelow(ds, v) = IF lat < v THEN TimedBelow(evs, v) \cup {n + 1} ELSE TimedBelow(evs, v)
      BY <1>4, <1>6
    <3> QED BY <1>2, <2>2, <3>1, <3>2, <3>3
  <2> QED BY <2>3, <2>4, <2>5 DEF Told, ds, t
<1>7. CASE ~(lat > 0)
  <2>1. t = l /\ Timings(ds) = Timings(evs)
    BY <1>1, <1>4, <1>7
  <2>2. \A v : TimedUpto(ds, v) = TimedUpto(evs, v) /\ TimedBelow(ds, v) = TimedBelow(evs, v)
    BY <1>4, <1>7
  <2>3. \A j \in Timings(evs) : ds[j] = evs[j]
    BY <1>4 DEF Timings
  <2>4. \A i \in 1..Len(t) : \E j \in Timings(ds) : ds[j].e.lat = t[i]
    BY <1>2, <2>1, <2>3
  <2> QED BY <1>2, <2>1, <2>2, <2>4 DEF Told, ds, t
<1> QED BY <1>6, <1>7

\* What is delivered of such a bucket can be explained from its events.
LEMMA FlushExplained ==
  ASSUME NEW b \in Bucket, Tallied(b), Told(b), NEW t
  PROVE  TalliesAgree(Flush(b, t)) /\ P99Explained(Flush(b, t))
<1> DEFINE d == Flush(b, t)
           l == b.latencies
           evs == b.evs
           v == Percentile(Percent, l)
           timed == Timings(evs)
<1>1. /\ d.p99 = v /\ d.evs = evs
      /\ d.errors = b.errors /\ d.total = b.total
      /\ d.byStatus = b.byStatus /\ d.byHost = b.byHost /\ d.byLevel = b.byLevel
  BY DEF Flush
<1>2. TalliesAgree(d)
  <2>1. TalliesAgree(b)
    BY DEF Tallied
  <2> HIDE DEF d
  <2> QED BY <1>1, <2>1 DEF TalliesAgree
<1>3. l \in Seq(Int) /\ evs \in Seq([e : Events, at : Nat])
  BY LatenciesAre
<1>4. /\ Cardinality(timed) = Len(l)
      /\ \A i \in 1..Len(l) : \E j \in timed : evs[j].e.lat = l[i]
      /\ \A u \in Int :
           /\ Cardinality(TimedUpto(evs, u)) = Cardinality(Upto(l, u))
           /\ Cardinality(TimedBelow(evs, u)) = Cardinality(Below(l, u))
  BY DEF Told
<1>5. timed = {} <=> l = <<>>
  <2>1. IsFiniteSet(timed)
    <3>1. Len(evs) \in Nat /\ timed \in SUBSET (1..Len(evs))
      BY <1>3 DEF Timings
    <3> HIDE DEF timed, evs
    <3>2. IsFiniteSet(1..Len(evs))
      BY <3>1, FS_Interval
    <3> QED BY <3>1, <3>2, FS_Subset
  <2>2. Cardinality(timed) = 0 <=> timed = {}
    BY <2>1, FS_EmptySet
  <2>3. Len(l) = 0 <=> l = <<>>
    BY <1>3
  <2> QED BY <1>4, <2>2, <2>3
<1> HIDE DEF d, l, evs, timed
<1>6. CASE l = <<>>
  <2>1. v = 0
    BY <1>6 DEF Percentile
  <2>2. {j \in DOMAIN d.evs : d.evs[j].e.lat > 0} = {}
    BY <1>1, <1>5, <1>6 DEF timed, Timings
  <2>3. P99Explained(d)
    BY <1>1, <2>1, <2>2 DEF P99Explained
  <2> QED BY <1>2, <2>3 DEF d
<1>7. CASE l # <<>>
  <2>1. /\ v \in {l[i] : i \in DOMAIN l} /\ v \in Int
        /\ 100 * Cardinality(Below(l, v)) < Percent * Len(l)
        /\ 100 * Cardinality(Upto(l, v)) >= Percent * Len(l)
    BY <1>3, <1>7, PercentileIs, CounterAssumption
  <2> HIDE DEF v
  <2>2. PICK j \in timed : evs[j].e.lat = v
    <3>1. PICK k \in DOMAIN l : v = l[k]
      BY <2>1, Zenon
    <3>2. k \in 1..Len(l)
      BY <1>3
    <3>3. \E j \in timed : evs[j].e.lat = l[k]
      BY <1>4, <3>2, Zenon
    <3> QED BY <3>1, <3>3, Zenon
  <2>3. v > 0
    BY <2>2 DEF timed, Timings
  <2>4. /\ 100 * Cardinality({i \in timed : evs[i].e.lat <= v}) >= Percent * Cardinality(timed)
        /\ 100 * Cardinality({i \in timed : evs[i].e.lat < v}) < Percent * Cardinality(timed)
    <3>1. TimedUpto(evs, v) = {i \in timed : evs[i].e.lat <= v}
      BY DEF TimedUpto, timed
    <3>2. TimedBelow(evs, v) = {i \in timed : evs[i].e.lat < v}
      BY DEF TimedBelow, timed
    <3> QED BY <1>4, <2>1, <3>1, <3>2
  <2>5. timed # {} /\ v # 0
    BY <2>2, <2>3
  <2>6. timed = {i \in DOMAIN d.evs : d.evs[i].e.lat > 0}
    BY <1>1 DEF timed, Timings
  <2>7. P99Explained(d)
    BY <1>1, <2>2, <2>4, <2>5, <2>6, Zenon DEF P99Explained
  <2> QED BY <1>2, <2>7 DEF d
<1> QED BY <1>6, <1>7

\* A new bucket has nothing to explain.
LEMMA NewAccounted ==
  ASSUME NEW t \in Nat
  PROVE  Tallied(NewBucket(t)) /\ Told(NewBucket(t))
<1> DEFINE b == NewBucket(t)
           Bad == {s \in Statuses : s >= 400}
           Grave == Levels \cap {"error", "fatal"}
<1>1. /\ b.total = 0 /\ b.errors = 0 /\ b.evs = <<>> /\ b.latencies = <<>>
      /\ b.byStatus = Zero(Statuses) /\ b.byHost = Zero(Hosts) /\ b.byLevel = Zero(Levels)
  BY DEF NewBucket
<1> HIDE DEF b
<1>2. Tallied(b)
  <2>1. Bad \in SUBSET Statuses /\ Grave \in SUBSET Levels
    OBVIOUS
  <2> HIDE DEF Bad, Grave
  <2>2. /\ IsFiniteSet(Units(b.byStatus, Statuses)) /\ Total(b.byStatus, Statuses) = 0
        /\ IsFiniteSet(Units(b.byHost, Hosts)) /\ Total(b.byHost, Hosts) = 0
        /\ IsFiniteSet(Units(b.byLevel, Levels)) /\ Total(b.byLevel, Levels) = 0
        /\ Total(b.byStatus, Bad) = 0 /\ Total(b.byLevel, Grave) = 0
    BY <1>1, <2>1, ZeroUnits
  <2> QED BY <1>1, <2>2 DEF Tallied, TalliesAgree, Bad, Grave
<1>3. Told(b)
  <2>1. \A v : /\ Timings(<<>>) = {} /\ TimedUpto(<<>>, v) = {} /\ TimedBelow(<<>>, v) = {}
               /\ Upto(<<>>, v) = {} /\ Below(<<>>, v) = {}
    BY DEF Timings, TimedUpto, TimedBelow, Upto, Below
  <2>2. Len(<<>>) = 0 /\ 1..0 = {} /\ Cardinality({}) = 0
    BY FS_EmptySet
  <2> QED BY <1>1, <2>1, <2>2 DEF Told
<1> QED BY <1>2, <1>3 DEF b

\* Nothing is counted at the start.
LEMMA AccountsInit == Init => Accounts
BY NewAccounted DEF Init, Accounts

\* Every step keeps the books.
LEMMA AccountsKept == IInv /\ Accounts /\ [Next]_vars => Accounts'
<1> SUFFICES ASSUME IInv, Accounts, [Next]_vars PROVE Accounts'
  OBVIOUS
<1>1. /\ cur \in Bucket /\ in \in Seq(Events) /\ now \in Nat /\ end \in Nat
      /\ out \in Seq(Delivered)
  BY DEF IInv, Types
<1>2. /\ Tallied(cur) /\ Told(cur)
      /\ \A i \in DOMAIN out : TalliesAgree(out[i]) /\ P99Explained(out[i])
  BY DEF Accounts
<1>3. CASE UNCHANGED <<cur, out>>
  BY <1>2, <1>3 DEF Accounts
<1>4. CASE cur' = Add(cur, Head(in)) /\ in # <<>> /\ UNCHANGED out
  <2>1. Head(in) \in Events
    BY <1>1, <1>4
  <2>2. Tallied(cur') /\ Told(cur')
    BY <1>1, <1>2, <1>4, <2>1, AddTallied, AddTold
  <2> QED BY <1>2, <1>4, <2>2 DEF Accounts
<1>5. CASE FirstBucket
  <2>1. Tallied(cur') /\ Told(cur')
    BY <1>1, <1>5, NewAccounted DEF FirstBucket
  <2> QED BY <1>2, <1>5, <2>1 DEF Accounts, FirstBucket
<1>6. CASE out' = Append(out, Flush(cur, end)) /\ (UNCHANGED cur \/ cur' = NewBucket(end))
  <2>1. Tallied(cur') /\ Told(cur')
    BY <1>1, <1>2, <1>6, NewAccounted
  <2> DEFINE d == Flush(cur, end)
  <2>2. d \in Delivered /\ TalliesAgree(d) /\ P99Explained(d)
    BY <1>1, <1>2, FlushKeeps, FlushExplained
  <2> HIDE DEF d
  <2>3. out' = Append(out, d)
    BY <1>6 DEF d
  <2>4. ASSUME NEW i \in DOMAIN out' PROVE TalliesAgree(out'[i]) /\ P99Explained(out'[i])
    <3>1. (i \in DOMAIN out /\ out'[i] = out[i]) \/ out'[i] = d
      BY <1>1, <2>2, <2>3
    <3> QED BY <1>2, <2>2, <3>1
  <2>5. \A i \in DOMAIN out' : TalliesAgree(out'[i]) /\ P99Explained(out'[i])
    BY <2>4
  <2> QED BY <2>1, <2>5 DEF Accounts
<1> QED
  <2>1. CASE UNCHANGED vars \/ Finished
    BY <1>3, <2>1 DEF vars, Finished
  <2>2. CASE Run
    BY <1>3, <1>4, <1>5, <1>6, <2>2 DEF Run, Count, Tick, FlushTick, Stop, Drain, FlushLast
  <2>3. CASE (\E e \in Events : Put(e)) \/ Close \/ Cancel \/ Pass
    BY <1>3, <2>3 DEF Put, Close, Cancel, Pass
  <2> QED BY <2>1, <2>2, <2>3 DEF Next

\* The events sent are where the account says.
THEOREM FlowInvariance == Spec => []Flow
BY Invariance, FlowInit, FlowKept, PTL DEF Spec

\* A slice, and what is left, as parts of the list.
LEMMA Parts ==
  ASSUME NEW S, NEW s \in Seq(S), NEW a \in Nat, NEW b \in Nat, a <= b, b <= Len(s),
         NEW t \in Seq(S), Len(t) = b - a, \A j \in 1..(b - a) : t[j] = s[a + j]
  PROVE  t = SubSeq(s, a + 1, b)
<1> DEFINE u == SubSeq(s, a + 1, b)
<1>1. a + 1 \in Int /\ \A i \in (a + 1)..b : s[i] \in S
  OBVIOUS
<1>2. /\ u \in Seq(S) /\ Len(u) = IF a + 1 <= b THEN b - (a + 1) + 1 ELSE 0
      /\ \A i \in 1..(b - (a + 1) + 1) : u[i] = s[a + 1 + i - 1]
  BY <1>1, SubSeqProperties
<1> HIDE DEF u
<1>3. Len(u) = Len(t)
  BY <1>2
<1>4. ASSUME NEW i \in 1..Len(t) PROVE t[i] = u[i]
  <2>1. i \in 1..(b - (a + 1) + 1) /\ a + 1 + i - 1 = a + i
    OBVIOUS
  <2> QED BY <1>2, <2>1
<1>5. t = u
  BY <1>2, <1>3, <1>4, SameList
<1> QED BY <1>5 DEF u

\* The account cuts the events sent into those of each bucket and those still to come.
LEMMA CutIs ==
  ASSUME Types, Flow
  PROVE  \E cut \in Cuts : cut[Len(Buckets)] = Taken
<1> DEFINE bs == Buckets
           n == Len(bs)
<1>1. /\ bs \in Seq(Delivered) /\ n \in Nat /\ DOMAIN bs = 1..n
      /\ sent \in Seq(Events) /\ in \in Seq(Events) /\ Len(sent) \in Nat /\ Len(in) \in Nat
  BY BucketsAre DEF Types
<1> HIDE DEF bs
<1>2. PICK c : Laid(bs, sent, Taken, c)
  BY DEF Flow, bs
<1>3. /\ c \in [0..n -> Nat] /\ c[0] = 0 /\ c[n] = Taken
      /\ \A i \in 1..n : Slice(bs[i].evs, sent, c[i - 1], c[i])
  BY <1>2 DEF Laid
<1>4. ASSUME NEW i \in 1..n
      PROVE  /\ c[i - 1] <= c[i] /\ c[i] <= Len(sent)
             /\ EventsOf(bs[i].evs) = SubSeq(sent, c[i - 1] + 1, c[i])
  <2> DEFINE evs == bs[i].evs
             t == EventsOf(evs)
             Entry == [e : Events, at : Nat]
             a == c[i - 1]
             b == c[i]
  <2>1. a \in Nat /\ b \in Nat
    <3>1. i - 1 \in 0..n /\ i \in 0..n
      BY <1>1
    <3> QED BY <1>3, <3>1
  <2>2. Slice(evs, sent, a, b)
    BY <1>3
  <2>3. evs \in Seq(Entry)
    <3>1. PICK x \in Bucket, y \in Nat : bs[i] = Flush(x, y)
      <4>1. bs[i] \in Delivered
        BY <1>1
      <4> QED BY <4>1 DEF Delivered
    <3>2. bs[i].evs = x.evs
      BY <3>1, FlushKeeps
    <3> QED BY <3>1, <3>2 DEF Bucket
  <2> HIDE DEF evs, a, b
  <2>4. a <= b /\ b <= Len(sent) /\ Len(evs) = b - a /\ \A j \in 1..(b - a) : evs[j].e = sent[a + j]
    BY <2>2 DEF Slice
  <2>5. t \in Seq(Events) /\ Len(t) = Len(evs) /\ \A j \in 1..Len(evs) : t[j] = evs[j].e
    <3>1. DOMAIN evs = 1..Len(evs) /\ Len(evs) \in Nat
      BY <2>3
    <3>2. \A j \in 1..Len(evs) : evs[j] \in Entry
      <4> HIDE DEF Entry
      <4> QED BY <2>3
    <3>3. t = [j \in 1..Len(evs) |-> evs[j].e]
      BY <3>1 DEF EventsOf
    <3>4. \A j \in 1..Len(evs) : evs[j].e \in Events
      BY <3>2
    <3> HIDE DEF t, Entry
    <3>5. t \in [1..Len(evs) -> Events]
      BY <3>3, <3>4
    <3>6. t \in Seq(Events)
      BY <3>1, <3>5
    <3>7. Len(t) = Len(evs)
      BY <3>1, <3>3, <3>6
    <3> QED BY <3>3, <3>6, <3>7
  <2> HIDE DEF t
  <2>6. t = SubSeq(sent, a + 1, b)
    BY <1>1, <2>1, <2>4, <2>5, Parts
  <2> QED BY <2>4, <2>6 DEF t, a, b, evs
<1>5. in = SubSeq(sent, c[n] + 1, Len(sent))
  <2>1. Taken \in Nat /\ Taken <= Len(sent) /\ Len(in) = Len(sent) - Taken
    BY <1>1 DEF Flow, Taken
  <2>2. \A j \in 1..(Len(sent) - Taken) : in[j] = sent[Taken + j]
    BY <2>1 DEF Flow
  <2>3. in = SubSeq(sent, Taken + 1, Len(sent))
    BY <1>1, <2>1, <2>2, Parts
  <2> QED BY <1>3, <2>3
<1>6. c \in [0..n -> 0..Len(sent)]
  <2>1. ASSUME NEW i \in 0..n PROVE c[i] \in 0..Len(sent)
    <3>1. c[i] \in Nat
      BY <1>3
    <3>2. i = 0 \/ i \in 1..n
      BY <1>1
    <3> QED BY <1>1, <1>3, <1>4, <3>1, <3>2
  <2> QED BY <1>3, <2>1
<1>7. CutBy(c)
  <2>1. \A i \in 1..n : c[i - 1] <= c[i] /\ EventsOf(bs[i].evs) = SubSeq(sent, c[i - 1] + 1, c[i])
    BY <1>4
  <2> QED BY <1>1, <1>3, <1>5, <2>1, Zenon DEF CutBy, bs
<1>8. c \in Cuts
  BY <1>6, <1>7 DEF Cuts, bs
<1> QED BY <1>3, <1>8 DEF bs

\* Whatever the order of events, ticks, close and cancel, every event taken from the
\* channel is in exactly one bucket, in the order sent.
THEOREM Kept == Spec => []EventsKept
<1>1. IInv /\ Flow => EventsKept
  BY CutIs DEF IInv, EventsKept
<1> QED BY <1>1, Invariance, FlowInvariance, PTL

\* What was buffered in the channel when the context was cancelled is delivered.
THEOREM Buffered == Spec => []BufferedCounted
<1>1. IInv /\ Flow => BufferedCounted
  <2> SUFFICES ASSUME IInv, Flow, pc = "done"
               PROVE  \E cut \in Cuts : cut[Len(Buckets)] >= promised
    BY DEF BufferedCounted
  <2>1. PICK cut \in Cuts : cut[Len(Buckets)] = Taken
    BY CutIs DEF IInv
  <2>2. promised <= Taken /\ promised \in Int /\ Taken \in Int
    BY BucketsAre DEF IInv, Types, Flow
  <2> QED BY <2>1, <2>2
<1> QED BY <1>1, Invariance, FlowInvariance, PTL

\* The books are right at all times.
THEOREM AccountsInvariance == Spec => []Accounts
BY Invariance, AccountsInit, AccountsKept, PTL DEF Spec

\* The errors a bucket reports are those its maps account for, no event is in both,
\* and its p99 is the latency of one of its events at the rank it should have.
THEOREM Explained == Spec => []BucketsExplained
<1>1. IInv /\ Accounts => BucketsExplained
  <2> SUFFICES ASSUME IInv, Accounts, NEW i \in DOMAIN Buckets
               PROVE  TalliesAgree(Buckets[i]) /\ P99Explained(Buckets[i])
    BY DEF BucketsExplained
  <2> DEFINE d == Flush(cur, end)
  <2>1. d \in Delivered /\ TalliesAgree(d) /\ P99Explained(d)
    BY FlushKeeps, FlushExplained DEF IInv, Types, Accounts
  <2>2. out \in Seq(Delivered) /\ (Buckets = out \/ Buckets = Append(out, d))
    BY DEF IInv, Types, Buckets
  <2> HIDE DEF d
  <2>3. (i \in DOMAIN out /\ Buckets[i] = out[i]) \/ Buckets[i] = d
    BY <2>1, <2>2
  <2> QED BY <2>1, <2>3 DEF Accounts
<1> QED BY <1>1, Invariance, AccountsInvariance, PTL
-----------------------------------------------------------------------------
(* What the analyzer may take for granted of the buckets it is given. *)

\* The errors of a bucket are some of its events.
Rates ==
  /\ cur.errors <= cur.total
  /\ \A i \in DOMAIN out : out[i].errors <= out[i].total

\* No bucket is there at the start but an empty one.
LEMMA RatesInit == Init => Rates
BY DEF Init, Rates, NewBucket

\* An error is counted together with the event that it is.
LEMMA RatesKept == IInv /\ Rates /\ [Next]_vars => Rates'
<1> SUFFICES ASSUME IInv, Rates, [Next]_vars PROVE Rates'
  OBVIOUS
<1>1. cur \in Bucket /\ out \in Seq(Delivered) /\ end \in Nat
  BY DEF IInv, Types
<1>2. cur.errors \in Nat /\ cur.total \in Nat
  BY <1>1 DEF Bucket
<1>3. /\ cur.errors <= cur.total
      /\ \A i \in DOMAIN out : out[i].errors <= out[i].total
  BY DEF Rates
<1>4. CASE UNCHANGED <<cur, out>>
  BY <1>3, <1>4 DEF Rates
<1>5. CASE cur' = Add(cur, Head(in)) /\ UNCHANGED out
  <2>1. cur'.total = cur.total + 1 /\ cur'.errors \in {cur.errors, cur.errors + 1}
    BY <1>5 DEF Add
  <2>2. cur'.errors <= cur'.total
    BY <1>2, <1>3, <2>1
  <2> QED BY <1>3, <1>5, <2>2 DEF Rates
<1>6. CASE FirstBucket
  <2>1. cur'.errors = 0 /\ cur'.total = 0 /\ out' = out
    BY <1>6 DEF FirstBucket, NewBucket
  <2> QED BY <1>3, <2>1 DEF Rates
<1>7. CASE out' = Append(out, Flush(cur, end)) /\ (UNCHANGED cur \/ cur' = NewBucket(end))
  <2>1. cur'.errors <= cur'.total
    BY <1>3, <1>7 DEF NewBucket
  <2> DEFINE d == Flush(cur, end)
  <2>2. d \in Delivered
    BY <1>1, FlushKeeps
  <2>3. d.errors = cur.errors /\ d.total = cur.total
    BY DEF Flush
  <2> HIDE DEF d
  <2>4. out' = Append(out, d)
    BY <1>7 DEF d
  <2>5. ASSUME NEW i \in DOMAIN out' PROVE out'[i].errors <= out'[i].total
    <3>1. (i \in DOMAIN out /\ out'[i] = out[i]) \/ out'[i] = d
      BY <1>1, <2>2, <2>4
    <3> QED BY <1>3, <2>3, <3>1
  <2> QED BY <2>1, <2>5 DEF Rates
<1> QED
  <2>1. CASE UNCHANGED vars \/ Finished
    BY <1>4, <2>1 DEF vars, Finished
  <2>2. CASE Run
    BY <1>4, <1>5, <1>6, <1>7, <2>2 DEF Run, Count, Tick, FlushTick, Stop, Drain, FlushLast
  <2>3. CASE (\E e \in Events : Put(e)) \/ Close \/ Cancel \/ Pass
    BY <1>4, <2>3 DEF Put, Close, Cancel, Pass
  <2> QED BY <2>1, <2>2, <2>3 DEF Next

\* What is delivered consists of numbers, and of lists of the events there are.
LEMMA DeliveredHas ==
  ASSUME NEW d \in Delivered
  PROVE  d.total \in Nat /\ d.errors \in Nat /\ d.evs \in Seq([e : Events, at : Nat])
<1>1. PICK b \in Bucket, t \in Nat : d = Flush(b, t)
  BY DEF Delivered
<1>2. b.total \in Nat /\ b.errors \in Nat /\ b.evs \in Seq([e : Events, at : Nat])
  BY DEF Bucket
<1>3. d.total = b.total /\ d.errors = b.errors /\ d.evs = b.evs
  BY <1>1 DEF Flush
<1> QED BY <1>2, <1>3

\* A percentile that is explained is no negative number.
LEMMA P99IsNat ==
  ASSUME NEW d \in Delivered, P99Explained(d)
  PROVE  d.p99 \in Nat
<1> DEFINE timed == {j \in DOMAIN d.evs : d.evs[j].e.lat > 0}
<1>1. CASE timed = {}
  <2>1. d.p99 = 0
    BY <1>1 DEF P99Explained
  <2> QED BY <2>1
<1>2. CASE timed # {}
  <2>1. PICK j \in timed : d.evs[j].e.lat = d.p99
    BY <1>2 DEF P99Explained
  <2>2. d.evs[j] \in [e : Events, at : Nat]
    <3> DEFINE l == d.evs
               E == [e : Events, at : Nat]
    <3>1. l \in Seq(E) /\ j \in DOMAIN l
      BY <2>1, DeliveredHas
    <3> HIDE DEF l, E
    <3>2. l[j] \in E
      BY <3>1
    <3> QED BY <3>2 DEF l, E
  <2>3. d.evs[j].e.lat \in Int /\ d.evs[j].e.lat > 0
    BY <2>1, <2>2, EventsAssumption
  <2> QED BY <2>1, <2>3
<1> QED BY <1>1, <1>2

\* The buckets as Analyzer's BucketsAssumption takes them.
AsAssumed(b) ==
  /\ {b.total, b.errors, b.p99} \subseteq Nat
  /\ b.errors <= b.total
  /\ b.byHost \in [Hosts -> 0..b.total]

\* Every bucket that is delivered is one of those the analyzer is proved to judge
\* rightly: its p99 is not negative, its errors and those of a host are among its events.
THEOREM DeliveredAsAssumed == Spec => [](\A i \in DOMAIN out : AsAssumed(out[i]))
<1>1. IInv /\ Accounts /\ Rates => \A i \in DOMAIN out : AsAssumed(out[i])
  <2> SUFFICES ASSUME IInv, Accounts, Rates, NEW i \in DOMAIN out PROVE AsAssumed(out[i])
    OBVIOUS
  <2>1. out \in Seq(Delivered) /\ Books
    BY DEF IInv, Types
  <2>2. out[i] \in Delivered
    BY <2>1
  <2>3. out[i].total \in Nat /\ out[i].errors \in Nat
    BY <2>2, DeliveredHas
  <2>4. out[i].p99 \in Nat
    BY <2>2, P99IsNat DEF Accounts
  <2>5. out[i].errors <= out[i].total
    BY DEF Rates
  <2>6. out[i].byHost \in [Hosts -> 0..out[i].total]
    BY <2>1 DEF Books, Full
  <2> QED BY <2>3, <2>4, <2>5, <2>6 DEF AsAssumed
<1>2. Spec => []Rates
  BY Invariance, RatesInit, RatesKept, PTL DEF Spec
<1> QED BY <1>1, <1>2, Invariance, AccountsInvariance, PTL
=============================================================================

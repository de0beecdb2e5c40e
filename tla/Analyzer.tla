------------------------------ MODULE Analyzer ------------------------------
(***************************************************************************)
(* internal/analyzer/analyzer.go with the statistics it takes from         *)
(* internal/window/stats.go: buckets come in, five detection rules are     *)
(* evaluated against the window of earlier buckets, and anomalies go out,  *)
(* each kind with its own cooldown.  Sending an anomaly can block, and     *)
(* time passes at any moment.  The window is the sequence that             *)
(* SlidingWindow promises.  float64 arithmetic is taken as exact: divisors *)
(* are multiplied out, and a setting of type float64 is a fraction, which  *)
(* every finite one is.  Severity and message of an anomaly are left out.  *)
(***************************************************************************)
EXTENDS Stats, SequencesExt

CONSTANTS
  Hosts,
  Buckets,             \* the buckets there are: [total, errors, p99, byHost]
  Capacity,            \* of the window
  SpikeMultiplier, LatencyMultiplier,     \* fractions: [num, den]
  ErrorRateThreshold, HostFloodFraction,  \* fractions
  SilenceThreshold, MinBaselineSamples, AlertCooldown,
  MaxBuckets,          \* bound: buckets analysed
  MaxTime              \* bound: the clock

Positive == [num : Nat \ {0}, den : Nat \ {0}]

\* What config.Validate lets through: multipliers above 0, rates in (0, 1], at least
\* one sample, no negative cooldown, and any SilenceThreshold. The capacity is that of
\* a window that is not shorter than its bucket.
ASSUME AnalyzerAssumption ==
  /\ {SpikeMultiplier, LatencyMultiplier} \subseteq Positive
  /\ {ErrorRateThreshold, HostFloodFraction} \subseteq {f \in Positive : f.num <= f.den}
  /\ {Capacity, MinBaselineSamples} \subseteq Nat \ {0}
  /\ SilenceThreshold \in Int
  /\ {AlertCooldown, MaxBuckets, MaxTime} \subseteq Nat

\* What Counter reports of a bucket: its errors and those of a host are among its events.
ASSUME BucketsAssumption ==
  \A b \in Buckets :
    /\ {b.total, b.errors, b.p99} \subseteq Nat
    /\ b.errors <= b.total
    /\ b.byHost \in [Hosts -> 0..b.total]

VARIABLES
  now,
  method,    \* DetectionMethod
  win,       \* the sliding window, oldest first
  snap,      \* the snapshot evaluate works on
  cooldown,  \* per kind, when it was last emitted
  pc,        \* the rule about to be checked, or where else Run is
  pending,   \* the anomaly being sent
  out,       \* the anomalies delivered
  seen       \* history: the buckets received and when

vars == <<now, method, win, snap, cooldown, pc, pending, out, seen>>

Kinds == <<"rate_spike", "error_surge", "latency_spike", "host_flood", "silence">>
Never == -1
None == [kind |-> "none"]

\* Where evaluate goes once it is done with kind k.
After(k) ==
  LET i == CHOOSE j \in DOMAIN Kinds : Kinds[j] = k
  IN  IF i < Len(Kinds) THEN Kinds[i + 1] ELSE "push"

Init ==
  /\ now = 0
  /\ method \in {"ratio", "sigma"}
  /\ win = <<>>
  /\ snap = <<>>
  /\ cooldown = [k \in ToSet(Kinds) |-> Never]
  /\ pc = "recv"
  /\ pending = None
  /\ out = <<>>
  /\ seen = <<>>

-----------------------------------------------------------------------------
(* The rules: bucket b against the snapshot s, by the detection method `how`. *)

\* x is more than y times the fraction f.
Exceeds(x, f, y) == f.den * x > f.num * y

Totals(s) == [i \in DOMAIN s |-> s[i].total]
Square(x) == x * x

\* n times the distance of b from the mean of n buckets.
Excess(b, s) == Len(s) * b.total - SumOf(Totals(s))
\* n cubed times the population variance.
Spread(s) == SumOf([i \in DOMAIN s |-> Square(Excess(s[i], s))])

RateSpike(how, b, s) ==
  IF how = "sigma"
  THEN /\ Excess(b, s) > 0
       /\ Len(s) * Square(SpikeMultiplier.den * Excess(b, s)) > Square(SpikeMultiplier.num) * Spread(s)
  ELSE Exceeds(Len(s) * b.total, SpikeMultiplier, SumOf(Totals(s)))

\* A bucket's ErrorRate is 0 when it counted nothing.
ErrorSurge(b) == b.total > 0 /\ Exceeds(b.errors, ErrorRateThreshold, b.total)

\* stats.go: the value of rank ceil(0.99 n).
P99Latency(s) == Percentile(99, [i \in DOMAIN s |-> s[i].p99])

LatencySpike(b, s) ==
  /\ b.p99 # 0
  /\ P99Latency(s) # 0
  /\ Exceeds(b.p99, LatencyMultiplier, P99Latency(s))

\* What the scan over the map may find: it depends on the order of the map which
\* of several hosts with the highest count.
TopHosts(b) == {h \in Hosts : b.byHost[h] > 0 /\ \A g \in Hosts : b.byHost[g] <= b.byHost[h]}

HostFlood(b, h) ==
  /\ b.total # 0
  /\ h \in TopHosts(b)
  /\ Exceeds(b.byHost[h], HostFloodFraction, b.total)

\* Zero-total buckets at the end of s.
Consecutive(s) ==
  CHOOSE n \in 0..Len(s) :
    /\ \A i \in (Len(s) - n + 1)..Len(s) : s[i].total = 0
    /\ n = Len(s) \/ s[Len(s) - n].total # 0

Silence(s) == Consecutive(s) >= SilenceThreshold

\* The anomalies rule k may emit: none, or one per host it may name.
Detected(how, k, b, s) ==
  CASE k = "rate_spike"    -> IF RateSpike(how, b, s) THEN {""} ELSE {}
    [] k = "error_surge"   -> IF ErrorSurge(b) THEN {""} ELSE {}
    [] k = "latency_spike" -> IF LatencySpike(b, s) THEN {""} ELSE {}
    [] k = "host_flood"    -> {h \in Hosts : HostFlood(b, h)}
    [] k = "silence"       -> IF Silence(s) THEN {""} ELSE {}

-----------------------------------------------------------------------------

Pass ==
  /\ now < MaxTime
  /\ now' = now + 1
  /\ UNCHANGED <<method, win, snap, cooldown, pc, pending, out, seen>>

Cur == seen[Len(seen)].b

Slide(s, b) == IF Len(s) = Capacity THEN Append(Tail(s), b) ELSE Append(s, b)

\* Variant: the bucket joins the window before it is evaluated.
ReceivePushFirst(b) ==
  /\ pc = "recv"
  /\ Len(seen) < MaxBuckets
  /\ seen' = Append(seen, [b |-> b, at |-> now])
  /\ snap' = Slide(win, b)
  /\ pc' = IF Len(win) + 1 < MinBaselineSamples THEN "push" ELSE Kinds[1]
  /\ UNCHANGED <<now, method, win, cooldown, pending, out>>

\* A bucket is received; the snapshot is taken before the bucket joins the window,
\* and nothing is evaluated before the window is warm.
Receive(b) ==
  /\ pc = "recv"
  /\ Len(seen) < MaxBuckets
  /\ seen' = Append(seen, [b |-> b, at |-> now])
  /\ snap' = win
  /\ pc' = IF Len(win) < MinBaselineSamples THEN "push" ELSE Kinds[1]
  /\ UNCHANGED <<now, method, win, cooldown, pending, out>>

\* `in` is closed, or ctx cancelled.
Return ==
  /\ pc = "recv"
  /\ pc' = "done"
  /\ UNCHANGED <<now, method, win, snap, cooldown, pending, out, seen>>

Within(t) == t # Never /\ now - t < AlertCooldown
\* Variant: one cooldown for all kinds.
SuppressedByAny(k) == AlertCooldown > 0 /\ \E j \in DOMAIN cooldown : Within(cooldown[j])

Suppressed(k) == AlertCooldown > 0 /\ Within(cooldown[k])

\* Variant: the cooldown is never started.
EmitUnstamped(k, h) ==
  /\ pending' = [kind |-> k, host |-> h, at |-> now, of |-> Len(seen)]
  /\ pc' = "send"
  /\ UNCHANGED <<now, method, win, snap, cooldown, out, seen>>

\* The cooldown starts when the anomaly is detected, not when it is taken.
Emit(k, h) ==
  /\ cooldown' = [cooldown EXCEPT ![k] = now]
  /\ pending' = [kind |-> k, host |-> h, at |-> now, of |-> Len(seen)]
  /\ pc' = "send"
  /\ UNCHANGED <<now, method, win, snap, out, seen>>

Check(k) ==
  /\ pc = k
  /\ IF Suppressed(k) \/ Detected(method, k, Cur, snap) = {}
     THEN pc' = After(k) /\ UNCHANGED <<now, method, win, snap, cooldown, pending, out, seen>>
     ELSE \E h \in Detected(method, k, Cur, snap) : Emit(k, h)

\* out <- anomaly goes through, and evaluate goes on to the next rule.
Sent ==
  /\ pc = "send"
  /\ out' = Append(out, pending)
  /\ pending' = None
  /\ pc' = After(pending.kind)
  /\ UNCHANGED <<now, method, win, snap, cooldown, seen>>

\* Variant: nothing leaves the window.
PushUnbounded ==
  /\ pc = "push"
  /\ win' = Append(win, Cur)
  /\ pc' = "recv"
  /\ UNCHANGED <<now, method, snap, cooldown, pending, out, seen>>

Push ==
  /\ pc = "push"
  /\ win' = Slide(win, Cur)
  /\ pc' = "recv"
  /\ UNCHANGED <<now, method, snap, cooldown, pending, out, seen>>

Run ==
  \/ \E b \in Buckets : Receive(b)
  \/ Return
  \/ \E k \in ToSet(Kinds) : Check(k)
  \/ Sent \/ Push

Finished == pc = "done" /\ UNCHANGED vars

Next == Pass \/ Run \/ Finished

Spec == Init /\ [][Next]_vars

-----------------------------------------------------------------------------

\* Every variable has its type; in particular the window is never too long.
TypeOK ==
  /\ Len(win) <= Capacity /\ Len(snap) <= Capacity
  /\ ToSet(win) \cup ToSet(snap) \cup {seen[i].b : i \in DOMAIN seen} \subseteq Buckets
  /\ cooldown \in [ToSet(Kinds) -> {Never} \cup 0..now]
  /\ pc \in ToSet(Kinds) \cup {"recv", "send", "push", "done"}
  /\ (pc = "send") = (pending # None)

\* The anomalies delivered, and the one that is being sent.
Anomalies == IF pending = None THEN out ELSE Append(out, pending)

\* Two anomalies of one kind are AlertCooldown apart by their DetectedAt, however
\* long the analyzer was blocked sending the first, and whatever else it sent.
CooldownKept ==
  \A i, j \in DOMAIN Anomalies :
    i < j /\ Anomalies[i].kind = Anomalies[j].kind => Anomalies[j].at - Anomalies[i].at >= AlertCooldown

\* The baseline of the i-th bucket: the Capacity buckets before it, or all there are.
Before(i) == [j \in 1..(IF i > Capacity THEN Capacity ELSE i - 1) |->
                seen[(IF i > Capacity THEN i - 1 - Capacity ELSE 0) + j].b]

\* README.md:229-234, the detection table: what each rule is meant to notice about
\* a bucket b with the baseline s, in other words than the code. The sum of squared
\* distances from the mean is that of the squares less the square of the sum; the 99th
\* percentile is counted out, what 99 of a hundred buckets do not exceed.
Expected(how, k, b, s) ==
  CASE k = "rate_spike" /\ how = "ratio" ->
         SumOf([i \in DOMAIN s |-> SpikeMultiplier.den * b.total - SpikeMultiplier.num * s[i].total]) > 0
    [] k = "rate_spike" /\ how = "sigma" ->
         /\ Excess(b, s) > 0
         /\ Square(SpikeMultiplier.den * Excess(b, s)) > Square(SpikeMultiplier.num) *
              (Len(s) * SumOf([i \in DOMAIN s |-> Square(s[i].total)]) - Square(SumOf(Totals(s))))
    [] k = "error_surge" -> Exceeds(b.errors, ErrorRateThreshold, b.total)
    [] k = "latency_spike" ->
         /\ 100 * Cardinality({i \in DOMAIN s : Exceeds(b.p99, LatencyMultiplier, s[i].p99)}) >= 99 * Len(s)
         /\ 100 * Cardinality({i \in DOMAIN s : s[i].p99 = 0}) < 99 * Len(s)
    [] k = "host_flood" -> \E h \in Hosts : Exceeds(b.byHost[h], HostFloodFraction, b.total)
    [] k = "silence" ->
         /\ Len(s) >= SilenceThreshold
         /\ \A i \in DOMAIN s : i > Len(s) - SilenceThreshold => s[i].total = 0

\* No false alarm: whatever is reported of a bucket is so, measured against enough
\* buckets before it and never against itself, and a flood names a host that sends
\* more than its share and no less than any other.
NoFalseAlarm ==
  \A i \in DOMAIN Anomalies :
    LET a == Anomalies[i]
        b == seen[a.of].b
    IN  /\ a.of > MinBaselineSamples
        /\ Expected(method, a.kind, b, Before(a.of))
        /\ a.kind = "host_flood" =>
             /\ Exceeds(b.byHost[a.host], HostFloodFraction, b.total)
             /\ \A h \in Hosts : b.byHost[h] <= b.byHost[a.host]

\* Evaluated, all rules of it.
Done(i) == i < Len(seen) \/ (i = Len(seen) /\ pc \in {"recv", "push", "done"})

\* Nothing is missed: whatever is to be noticed of a bucket is reported of it,
\* unless an anomaly of that very kind was reported less than a cooldown before.
\* In particular no kind hides another one, and an outage that lasts is reported
\* again once every cooldown.
NothingMissed ==
  \A i \in DOMAIN seen, k \in ToSet(Kinds) :
    /\ Done(i)
    /\ Len(Before(i)) >= MinBaselineSamples
    /\ Expected(method, k, seen[i].b, Before(i))
    => \E j \in DOMAIN Anomalies :
         LET a == Anomalies[j]
         IN  a.kind = k /\ (a.of = i \/ (a.of < i /\ seen[i].at - a.at < AlertCooldown))
=============================================================================

--------------------------- MODULE AnalyzerProofs ---------------------------
(***************************************************************************)
(* Theorems about Analyzer, for every window, every setting that Validate  *)
(* lets through, every set of buckets and time without end.                *)
(***************************************************************************)
EXTENDS Analyzer, StatsProofs, TLAPS

Kind == {"rate_spike", "error_surge", "latency_spike", "host_flood", "silence"}
Named == Hosts \cup {""}
Anomaly == [kind : Kind, host : Named, at : Nat, of : Nat]
Entry == [b : Buckets, at : Nat]

Types ==
  /\ now \in Nat
  /\ win \in Seq(Buckets) /\ snap \in Seq(Buckets)
  /\ Len(win) <= Capacity /\ Len(snap) <= Capacity
  /\ seen \in Seq(Entry)
  /\ cooldown \in [Kind -> {Never} \cup 0..now]
  /\ pc \in Kind \cup {"recv", "send", "push", "done"}
  /\ out \in Seq(Anomaly)
  /\ pc = "send" => pending \in Anomaly
  /\ pc # "send" => pending = None
  /\ pc \in Kind \cup {"send", "push"} => seen # <<>>

\* The cooldown of a kind is the time of its latest anomaly.
Stamped ==
  \A i \in DOMAIN Anomalies :
    /\ cooldown[Anomalies[i].kind] # Never
    /\ Anomalies[i].at <= cooldown[Anomalies[i].kind]

\* The inductive invariant.
IInv == Types /\ Stamped /\ CooldownKept

-----------------------------------------------------------------------------

\* The rule table lists every kind once, in five places.
LEMMA KindsListed == ToSet(Kinds) = Kind /\ Len(Kinds) = 5 /\ DOMAIN Kinds = 1..5
<1>1. DOMAIN Kinds = 1..5 /\ Len(Kinds) = 5
  BY DEF Kinds
<1>2. \A i \in 1..5 : Kinds[i] \in Kind
  BY DEF Kinds, Kind
<1>3. \A k \in Kind : \E i \in 1..5 : Kinds[i] = k
  <2>1. Kinds[1] = "rate_spike" /\ Kinds[2] = "error_surge" /\ Kinds[3] = "latency_spike"
        /\ Kinds[4] = "host_flood" /\ Kinds[5] = "silence"
    BY DEF Kinds
  <2> QED BY <2>1 DEF Kind
<1> QED BY <1>1, <1>2, <1>3 DEF ToSet

\* After a rule comes another rule, or the push.
LEMMA AfterRule == ASSUME NEW k \in Kind PROVE After(k) \in Kind \cup {"push"}
<1> DEFINE i == CHOOSE j \in DOMAIN Kinds : Kinds[j] = k
<1>1. i \in 1..5
  BY KindsListed DEF ToSet
<1>2. i < 5 => Kinds[i + 1] \in Kind
  BY <1>1, KindsListed DEF ToSet
<1> QED BY <1>2, KindsListed DEF After

\* What a rule detects is a host, or no host in particular.
LEMMA DetectsHost == ASSUME NEW how, NEW k \in Kind, NEW b, NEW s,
                            NEW h \in Detected(how, k, b, s)
                     PROVE  h \in Named
BY DEF Detected, Kind, Named

\* A window that slides stays within its capacity.
LEMMA SlideFits ==
  ASSUME NEW s \in Seq(Buckets), Len(s) <= Capacity, NEW b \in Buckets
  PROVE  Slide(s, b) \in Seq(Buckets) /\ Len(Slide(s, b)) <= Capacity
<1>1. Capacity \in Nat \ {0}
  BY AnalyzerAssumption
<1>2. CASE Len(s) = Capacity
  <2>1. s # <<>>
    BY <1>1, <1>2
  <2>2. Tail(s) \in Seq(Buckets) /\ Len(Tail(s)) = Capacity - 1
    BY <1>1, <1>2, <2>1
  <2> QED BY <1>1, <1>2, <2>2 DEF Slide
<1>3. CASE Len(s) # Capacity
  BY <1>1, <1>3 DEF Slide
<1> QED BY <1>2, <1>3

\* Nothing has been seen at the start.
LEMMA Initially == Init => IInv
<1> SUFFICES ASSUME Init PROVE IInv
  OBVIOUS
<1> USE AnalyzerAssumption DEF Init
<1>1. Types
  <2>1. win \in Seq(Buckets) /\ snap \in Seq(Buckets) /\ seen \in Seq(Entry)
        /\ out \in Seq(Anomaly)
    OBVIOUS
  <2>2. cooldown \in [Kind -> {Never} \cup 0..now]
    BY KindsListed
  <2> QED BY <2>1, <2>2 DEF Types, Kind
<1>2. DOMAIN Anomalies = {}
  BY DEF Anomalies
<1> QED BY <1>1, <1>2 DEF IInv, Stamped, CooldownKept

\* The steps that leave anomalies and cooldowns alone.
LEMMA OthersKeep ==
  ASSUME Types, Types', Stamped, CooldownKept, UNCHANGED <<cooldown, pending, out>>
  PROVE  IInv'
<1>1. Anomalies' = Anomalies
  BY DEF Anomalies
<1> QED BY <1>1 DEF IInv, Stamped, CooldownKept

\* An anomaly is emitted: it is not suppressed, so its kind's last one is a cooldown ago.
LEMMA EmitKeeps ==
  ASSUME IInv, NEW k \in Kind, pc = k, ~Suppressed(k),
         NEW h \in Named, Emit(k, h)
  PROVE  IInv'
<1>1. Types /\ Stamped /\ CooldownKept
  BY DEF IInv
<1>2. AlertCooldown \in Nat
  BY AnalyzerAssumption
<1> DEFINE a == [kind |-> k, host |-> h, at |-> now, of |-> Len(seen)]
<1>3. /\ cooldown' = [cooldown EXCEPT ![k] = now] /\ pending' = a /\ pc' = "send"
      /\ UNCHANGED <<now, method, win, snap, out, seen>>
  BY DEF Emit
<1>4. a \in Anomaly /\ a.kind = k /\ a.at = now /\ now \in Nat
  <2>1. now \in Nat /\ Len(seen) \in Nat
    BY <1>1 DEF Types
  <2> QED BY <2>1 DEF Anomaly
<1> HIDE DEF a
<1>5. /\ cooldown'[k] = now /\ \A j \in Kind \ {k} : cooldown'[j] = cooldown[j]
      /\ \A j \in Kind : cooldown[j] \in {Never} \cup 0..now
      /\ cooldown' \in [Kind -> {Never} \cup 0..now]
  <2>1. now \in 0..now
    BY <1>4
  <2> QED BY <1>1, <1>3, <2>1 DEF Types
<1>6. pending = None /\ out \in Seq(Anomaly) /\ pending' # None
  <2>1. pending = None /\ out \in Seq(Anomaly)
    BY <1>1 DEF Types, Kind
  <2>2. None.kind \notin Kind
    BY DEF None, Kind
  <2> QED BY <1>3, <1>4, <2>1, <2>2
<1>7. Anomalies = out /\ Anomalies' = Append(out, a)
  BY <1>3, <1>6 DEF Anomalies
<1>8. Types'
  <2>1. seen # <<>>
    BY <1>1 DEF Types
  <2> QED BY <1>1, <1>3, <1>4, <1>5, <2>1 DEF Types, Kind
<1>9. /\ DOMAIN Anomalies' = 1..(Len(out) + 1) /\ DOMAIN out = 1..Len(out) /\ Len(out) \in Nat
      /\ \A i \in DOMAIN out : Anomalies'[i] = out[i]
      /\ Anomalies'[Len(out) + 1] = a
  BY <1>6, <1>7
<1>10. \A i \in DOMAIN out : out[i].kind \in Kind /\ out[i].at \in Nat
  <2>1. \A i \in DOMAIN out : out[i] \in Anomaly
    BY <1>6
  <2> QED BY <2>1 DEF Anomaly
<1>11. \A i \in DOMAIN out :
         cooldown[out[i].kind] \in 0..now /\ out[i].at <= cooldown[out[i].kind]
  BY <1>1, <1>5, <1>7, <1>10 DEF Stamped
<1>12. Stamped'
  <2> SUFFICES ASSUME NEW i \in DOMAIN Anomalies'
               PROVE  /\ cooldown'[Anomalies'[i].kind] # Never
                      /\ Anomalies'[i].at <= cooldown'[Anomalies'[i].kind]
    BY DEF Stamped
  <2>1. CASE i \in DOMAIN out
    <3>1. Anomalies'[i] = out[i]
      BY <1>9, <2>1
    <3>2. out[i].kind \in Kind /\ out[i].at \in Nat /\ cooldown[out[i].kind] \in 0..now
          /\ out[i].at <= cooldown[out[i].kind]
      BY <1>10, <1>11, <2>1
    <3>3. CASE out[i].kind = k
      BY <1>4, <1>5, <3>1, <3>2, <3>3 DEF Never
    <3>4. CASE out[i].kind # k
      BY <1>4, <1>5, <3>1, <3>2, <3>4 DEF Never
    <3> QED BY <3>3, <3>4
  <2>2. CASE i = Len(out) + 1
    <3>1. Anomalies'[i].kind = k /\ Anomalies'[i].at = now
      BY <1>4, <1>9, <2>2
    <3> QED BY <1>4, <1>5, <3>1 DEF Never
  <2> QED BY <1>9, <2>1, <2>2
<1>13. \A i \in DOMAIN out : out[i].kind = k => now - out[i].at >= AlertCooldown
  <2> SUFFICES ASSUME NEW i \in DOMAIN out, out[i].kind = k
               PROVE  now - out[i].at >= AlertCooldown
    OBVIOUS
  <2>1. cooldown[k] \in 0..now /\ out[i].at <= cooldown[k] /\ out[i].at \in Nat
    BY <1>10, <1>11
  <2>2. AlertCooldown = 0 \/ ~(now - cooldown[k] < AlertCooldown)
    BY <1>2, <1>4, <2>1 DEF Suppressed, Within, Never
  <2> QED BY <1>2, <1>4, <2>1, <2>2
<1>14. CooldownKept'
  <2> SUFFICES ASSUME NEW i \in DOMAIN Anomalies', NEW j \in DOMAIN Anomalies',
                      i < j, Anomalies'[i].kind = Anomalies'[j].kind
               PROVE  Anomalies'[j].at - Anomalies'[i].at >= AlertCooldown
    BY DEF CooldownKept
  <2>1. i \in DOMAIN out /\ Anomalies'[i] = out[i]
    <3>1. i \in Int /\ j \in Int /\ 1 <= i /\ i < Len(out) + 1
      BY <1>9
    <3> QED BY <1>9, <3>1
  <2>2. CASE j \in DOMAIN out
    BY <1>1, <1>7, <1>9, <2>1, <2>2 DEF CooldownKept
  <2>3. CASE j = Len(out) + 1
    <3>1. Anomalies'[j].kind = k /\ Anomalies'[j].at = now
      BY <1>4, <1>9, <2>3
    <3> QED BY <1>13, <2>1, <3>1
  <2>4. j \in DOMAIN out \/ j = Len(out) + 1
    BY <1>9
  <2> QED BY <2>2, <2>3, <2>4
<1> QED BY <1>8, <1>12, <1>14 DEF IInv

\* The anomaly that was being sent is the last one delivered now.
LEMMA SentKeeps == IInv /\ Sent => IInv'
<1> SUFFICES ASSUME IInv, Sent PROVE IInv'
  OBVIOUS
<1>1. Types /\ Stamped /\ CooldownKept
  BY DEF IInv
<1>2. /\ pc = "send" /\ out' = Append(out, pending) /\ pending' = None
      /\ pc' = After(pending.kind)
      /\ UNCHANGED <<now, method, win, snap, cooldown, seen>>
  BY DEF Sent
<1>3. pending \in Anomaly /\ pending.kind \in Kind
  BY <1>1, <1>2 DEF Types, Anomaly
<1>4. pending # None
  BY <1>3 DEF None, Kind
<1>5. Anomalies' = Anomalies
  BY <1>2, <1>4 DEF Anomalies
<1>6. pc' \in Kind \cup {"push"}
  BY <1>2, <1>3, AfterRule
<1>7. Types'
  <2>1. out' \in Seq(Anomaly)
    BY <1>1, <1>2, <1>3 DEF Types
  <2> QED BY <1>1, <1>2, <1>6, <2>1 DEF Types, Kind
<1> QED BY <1>1, <1>2, <1>5, <1>7 DEF IInv, Stamped, CooldownKept

\* The other steps keep the types.
LEMMA ReceiveKeeps == ASSUME NEW b \in Buckets PROVE IInv /\ Receive(b) => IInv'
<1> SUFFICES ASSUME IInv, Receive(b) PROVE IInv'
  OBVIOUS
<1>1. Types /\ Stamped /\ CooldownKept
  BY DEF IInv
<1>2. pc' \in Kind \cup {"push"} /\ Kinds[1] \in Kind
  BY DEF Receive, Kinds, Kind
<1>3. seen' \in Seq(Entry) /\ seen' # <<>>
  <2> DEFINE x == [b |-> b, at |-> now]
  <2>1. x \in Entry /\ seen \in Seq(Entry) /\ seen' = Append(seen, x)
    BY <1>1 DEF Types, Receive, Entry
  <2> HIDE DEF x
  <2> QED BY <2>1
<1>4. Types'
  BY <1>1, <1>2, <1>3 DEF Types, Receive, Kind
<1> QED BY <1>1, <1>4, OthersKeep DEF Receive

\* A rule that finds nothing, or is suppressed, passes on to the next; otherwise it
\* emits.
LEMMA CheckKeeps == ASSUME NEW k \in Kind PROVE IInv /\ Check(k) => IInv'
<1> SUFFICES ASSUME IInv, Check(k) PROVE IInv'
  OBVIOUS
<1>1. Types /\ Stamped /\ CooldownKept
  BY DEF IInv
<1>2. CASE Suppressed(k) \/ Detected(method, k, Cur, snap) = {}
  <2>1. /\ pc = k /\ pc' = After(k)
        /\ UNCHANGED <<now, method, win, snap, cooldown, pending, out, seen>>
    BY <1>2 DEF Check
  <2>2. pc' \in Kind \cup {"push"}
    BY <2>1, AfterRule
  <2>3. Types'
    BY <1>1, <2>1, <2>2 DEF Types, Kind
  <2> QED BY <1>1, <2>1, <2>3, OthersKeep
<1>3. CASE ~(Suppressed(k) \/ Detected(method, k, Cur, snap) = {})
  <2>1. PICK h \in Detected(method, k, Cur, snap) : Emit(k, h)
    BY <1>3 DEF Check
  <2>2. h \in Named
    BY DetectsHost
  <2> QED BY <1>3, <2>1, <2>2, EmitKeeps DEF Check
<1> QED BY <1>2, <1>3

\* The evaluated bucket joins the window.
LEMMA PushKeeps == IInv /\ Push => IInv'
<1> SUFFICES ASSUME IInv, Push PROVE IInv'
  OBVIOUS
<1>1. Types /\ Stamped /\ CooldownKept
  BY DEF IInv
<1>2. Cur \in Buckets
  <2>1. seen \in Seq(Entry) /\ seen # <<>>
    BY <1>1 DEF Types, Push
  <2>2. seen[Len(seen)] \in Entry
    BY <2>1
  <2> QED BY <2>2 DEF Entry, Cur
<1>3. win' \in Seq(Buckets) /\ Len(win') <= Capacity
  BY <1>1, <1>2, SlideFits DEF Types, Push
<1>4. Types'
  BY <1>1, <1>3 DEF Types, Push, Kind
<1> QED BY <1>1, <1>4, OthersKeep DEF Push

\* Every step keeps the invariant.
LEMMA Consecution == IInv /\ [Next]_vars => IInv'
<1> SUFFICES ASSUME IInv, [Next]_vars PROVE IInv'
  OBVIOUS
<1>1. Types /\ Stamped /\ CooldownKept
  BY DEF IInv
<1>2. CASE Pass
  <2>1. now \in Nat /\ now' = now + 1
        /\ UNCHANGED <<method, win, snap, cooldown, pc, pending, out, seen>>
    BY <1>1, <1>2 DEF Pass, Types
  <2>2. {Never} \cup 0..now \subseteq {Never} \cup 0..now'
    BY <2>1
  <2>3. Types'
    BY <1>1, <2>1, <2>2 DEF Types
  <2> QED BY <1>1, <2>1, <2>3, OthersKeep
<1>3. CASE \E b \in Buckets : Receive(b)
  BY <1>3, ReceiveKeeps
<1>4. CASE Return
  <2>1. Types'
    BY <1>1, <1>4 DEF Types, Return, Kind
  <2> QED BY <1>1, <1>4, <2>1, OthersKeep DEF Return
<1>5. CASE \E k \in ToSet(Kinds) : Check(k)
  BY <1>5, KindsListed, CheckKeeps
<1>6. CASE Sent
  BY <1>6, SentKeeps
<1>7. CASE Push
  BY <1>7, PushKeeps
<1>8. CASE Finished \/ UNCHANGED vars
  <2>1. UNCHANGED vars
    BY <1>8 DEF Finished
  <2>2. Types'
    BY <1>1, <2>1 DEF vars, Types
  <2> QED BY <1>1, <2>1, <2>2, OthersKeep DEF vars
<1> QED BY <1>2, <1>3, <1>4, <1>5, <1>6, <1>7, <1>8 DEF Next, Run

\* Cooldowns and anomalies stay in step.
THEOREM Invariance == Spec => []IInv
BY Initially, Consecution, PTL DEF Spec

\* Types; the window never exceeds its capacity.
THEOREM TypeCorrect == Spec => []TypeOK
<1>1. IInv => TypeOK
  <2> SUFFICES ASSUME IInv PROVE TypeOK
    OBVIOUS
  <2>1. Types
    BY DEF IInv
  <2>2. ToSet(win) \subseteq Buckets /\ ToSet(snap) \subseteq Buckets
    BY <2>1 DEF Types, ToSet
  <2>3. ASSUME NEW i \in DOMAIN seen PROVE seen[i].b \in Buckets
    <3>1. seen \in Seq(Entry)
      BY <2>1 DEF Types
    <3>2. seen[i] \in Entry
      BY <2>3, <3>1
    <3> QED BY <3>2 DEF Entry
  <2>4. (pc = "send") = (pending # None)
    <3>1. CASE pc = "send"
      <4>1. pending.kind \in Kind
        BY <2>1, <3>1 DEF Types, Anomaly
      <4>2. None.kind \notin Kind
        BY DEF None, Kind
      <4> QED BY <3>1, <4>1, <4>2
    <3>2. CASE pc # "send"
      BY <2>1, <3>2 DEF Types
    <3> QED BY <3>1, <3>2
  <2> QED BY <2>1, <2>2, <2>3, <2>4, KindsListed DEF Types, TypeOK
<1> QED BY <1>1, Invariance, PTL

\* Two anomalies of one kind are a cooldown apart, whatever blocks or comes between.
THEOREM Cooldown == Spec => []CooldownKept
<1>1. IInv => CooldownKept
  BY DEF IInv
<1> QED BY <1>1, Invariance, PTL

-----------------------------------------------------------------------------
(* What the rules compute is what they are meant to notice. *)

\* A bucket's numbers.
LEMMA BucketIs ==
  ASSUME NEW b \in Buckets
  PROVE  /\ b.total \in Nat /\ b.errors \in Nat /\ b.p99 \in Nat /\ b.errors <= b.total
         /\ b.byHost \in [Hosts -> 0..b.total]
BY BucketsAssumption

\* The settings are numbers.
LEMMA SettingsAre ==
  /\ \A f \in {SpikeMultiplier, LatencyMultiplier, ErrorRateThreshold, HostFloodFraction} :
       f.num \in Nat \ {0} /\ f.den \in Nat \ {0}
  /\ MinBaselineSamples \in Nat \ {0} /\ Capacity \in Nat \ {0}
  /\ SilenceThreshold \in Int /\ AlertCooldown \in Nat
BY AnalyzerAssumption DEF Positive

\* The totals of a list of buckets.
LEMMA TotalsAre ==
  ASSUME NEW s \in Seq(Buckets)
  PROVE  /\ Totals(s) \in Seq(Int) /\ Len(Totals(s)) = Len(s) /\ Len(s) \in Nat
         /\ DOMAIN s = 1..Len(s)
         /\ \A i \in 1..Len(s) : Totals(s)[i] = s[i].total /\ s[i] \in Buckets
<1>1. Len(s) \in Nat /\ DOMAIN s = 1..Len(s) /\ \A i \in 1..Len(s) : s[i] \in Buckets
  OBVIOUS
<1>2. \A i \in 1..Len(s) : s[i].total \in Int
  BY <1>1, BucketIs
<1> QED BY <1>1, <1>2 DEF Totals

\* So many times the mean is so many times the sum, and one sum of differences.
LEMMA RatioSums ==
  ASSUME NEW s \in Seq(Buckets), NEW b \in Buckets
  PROVE  /\ SumOf(Totals(s)) \in Int
         /\ SumOf([i \in DOMAIN s |-> SpikeMultiplier.den * b.total - SpikeMultiplier.num * s[i].total])
            = SpikeMultiplier.den * (Len(s) * b.total) - SpikeMultiplier.num * SumOf(Totals(s))
<1> DEFINE t == Totals(s)
           u == [i \in DOMAIN s |-> SpikeMultiplier.den * b.total - SpikeMultiplier.num * s[i].total]
           m == 0 - SpikeMultiplier.num
           c == SpikeMultiplier.den * b.total
<1>1. m \in Int /\ c \in Int /\ 0 \in Int /\ SpikeMultiplier.num \in Int
  BY SettingsAre, BucketIs
<1>2. t \in Seq(Int) /\ Len(t) = Len(s) /\ Len(s) \in Nat /\ DOMAIN s = 1..Len(s)
      /\ \A i \in 1..Len(s) : t[i] = s[i].total /\ t[i] \in Int
  <2>1. \A i \in 1..Len(s) : s[i].total \in Int
    BY TotalsAre, BucketIs
  <2> QED BY <2>1, TotalsAre
<1>3. /\ u \in Seq(Int) /\ Len(u) = Len(s)
      /\ \A i \in 1..Len(s) : u[i] = c - SpikeMultiplier.num * t[i]
  <2>1. \A i \in 1..Len(s) : u[i] = c - SpikeMultiplier.num * t[i]
    BY <1>2
  <2>2. \A i \in 1..Len(s) : u[i] \in Int
    BY <1>1, <1>2, <2>1
  <2>3. u = [i \in 1..Len(s) |-> u[i]]
    BY <1>2
  <2> HIDE DEF u
  <2> QED BY <1>2, <2>1, <2>2, <2>3
<1> HIDE DEF t, u, m, c
<1>4. Combines(u, m, t, 0, t, c)
  <2>1. ASSUME NEW i \in 1..Len(s) PROVE u[i] = Times(m, t[i]) + Times(0, t[i]) + c
    <3> DEFINE num == SpikeMultiplier.num
    <3>1. u[i] = c - num * t[i] /\ t[i] \in Int /\ num \in Int /\ c \in Int
      BY <1>1, <1>2, <1>3
    <3>2. Times(m, t[i]) = (0 - num) * t[i] /\ Times(0, t[i]) = 0
      BY <3>1 DEF Times, m
    <3> HIDE DEF num
    <3>3. (0 - num) * t[i] = 0 - num * t[i] /\ num * t[i] \in Int
      BY <3>1
    <3> QED BY <3>1, <3>2, <3>3
  <2> QED BY <1>2, <1>3, <2>1 DEF Combines
<1>5. SumOf(t) \in Int /\ SumOf(u) = Times(m, SumOf(t)) + Times(0, SumOf(t)) + Times(c, Len(t))
  <2>1. t \in Seq(Int) /\ u \in Seq(Int)
    BY <1>2, <1>3
  <2>2. 0 \in Int
    OBVIOUS
  <2>3. m \in Int /\ c \in Int
    BY <1>1
  <2> QED BY <1>4, <2>1, <2>2, <2>3, SumLinear
<1>6. SumOf(u) = c * Len(s) - SpikeMultiplier.num * SumOf(t)
  BY <1>1, <1>2, <1>5 DEF Times, m
<1>7. c * Len(s) = SpikeMultiplier.den * (Len(s) * b.total)
  BY <1>2, SettingsAre, BucketIs DEF c
<1> QED BY <1>5, <1>6, <1>7 DEF t, u

\* n times a square less one of n totals, multiplied out.
LEMMA SquareOut ==
  \A n, x, m \in Int :
    (n * x - m) * (n * x - m) = (n * n) * (x * x) + (0 - 2 * (n * m)) * x + m * m
OBVIOUS

\* Products of products.
LEMMA Regroup ==
  \A n, q, m \in Int :
    (n * n) * q + (0 - 2 * (n * m)) * m + (m * m) * n = n * (n * q - m * m)
OBVIOUS

\* The squared distances from the mean add up to the squares less the square of the sum.
LEMMA SpreadIs ==
  ASSUME NEW s \in Seq(Buckets)
  PROVE  LET q == SumOf([i \in DOMAIN s |-> Square(s[i].total)])
             m == SumOf(Totals(s))
         IN  q \in Int /\ m \in Int /\ Spread(s) = Len(s) * (Len(s) * q - m * m)
<1> DEFINE t == Totals(s)
           v == [i \in DOMAIN s |-> Square(s[i].total)]
           u == [i \in DOMAIN s |-> Square(Excess(s[i], s))]
           n == Len(s)
           m == SumOf(t)
           q == SumOf(v)
           a == n * n
           b == 0 - 2 * (n * m)
           c == m * m
<1>1. t \in Seq(Int) /\ Len(t) = n /\ n \in Nat /\ DOMAIN s = 1..n
      /\ \A i \in 1..n : t[i] = s[i].total /\ t[i] \in Int /\ s[i].total \in Int
  <2>1. \A i \in 1..Len(s) : s[i].total \in Int
    BY TotalsAre, BucketIs
  <2> QED BY <2>1, TotalsAre
<1>2. v \in Seq(Int) /\ Len(v) = n /\ \A i \in 1..n : v[i] = t[i] * t[i]
  <2>1. \A i \in 1..n : v[i] = t[i] * t[i]
    BY <1>1 DEF Square
  <2>2. \A i \in 1..n : v[i] \in Int
    BY <1>1, <2>1
  <2>3. v = [i \in 1..n |-> v[i]]
    BY <1>1
  <2> HIDE DEF v
  <2> QED BY <1>1, <2>1, <2>2, <2>3
<1>3. m \in Int
  <2>1. \E f : PartialSums(t, f) /\ SumOf(t) = f[Len(t)]
    BY <1>1, SumIsLast
  <2> QED BY <1>1, <2>1 DEF PartialSums
<1>4. u \in Seq(Int) /\ Len(u) = n /\ \A i \in 1..n : u[i] = (n * t[i] - m) * (n * t[i] - m)
  <2>1. \A i \in 1..n : u[i] = (n * t[i] - m) * (n * t[i] - m)
    BY <1>1 DEF Square, Excess
  <2> HIDE DEF m, t
  <2>2. \A i \in 1..n : u[i] \in Int
    BY <1>1, <1>3, <2>1
  <2>3. u = [i \in 1..n |-> u[i]]
    BY <1>1
  <2> HIDE DEF u
  <2> QED BY <1>1, <2>1, <2>2, <2>3
<1> HIDE DEF t, u, v, m, q
<1>5. a \in Int /\ b \in Int /\ c \in Int /\ n \in Int
  BY <1>1, <1>3
<1>6. Combines(u, a, v, b, t, c)
  <2>1. ASSUME NEW i \in 1..n PROVE u[i] = Times(a, v[i]) + Times(b, t[i]) + c
    <3>1. u[i] = (n * n) * (t[i] * t[i]) + (0 - 2 * (n * m)) * t[i] + m * m
      <4>1. PICK y \in Int : y = t[i]
        BY <1>1
      <4>2. n \in Int /\ y \in Int /\ m \in Int
        BY <1>3, <1>5, <4>1, Zenon
      <4>3. (n * y - m) * (n * y - m) = (n * n) * (y * y) + (0 - 2 * (n * m)) * y + m * m
        BY <4>2, SquareOut, Zenon
      <4>4. u[i] = (n * t[i] - m) * (n * t[i] - m)
        BY <1>4, Zenon
      <4> QED BY <4>1, <4>3, <4>4, Zenon
    <3> QED BY <1>2, <3>1, Zenon DEF Times
  <2> HIDE DEF a, b, c
  <2> QED BY <1>1, <1>2, <1>4, <2>1 DEF Combines
<1>7. SumOf(v) \in Int /\ SumOf(u) = Times(a, SumOf(v)) + Times(b, SumOf(t)) + Times(c, Len(v))
  <2> HIDE DEF a, b, c
  <2>1. t \in Seq(Int) /\ u \in Seq(Int) /\ v \in Seq(Int)
    BY <1>1, <1>2, <1>4
  <2>2. a \in Int /\ b \in Int /\ c \in Int
    BY <1>5
  <2> QED BY <1>6, <2>1, <2>2, SumLinear
<1>8. q \in Int /\ SumOf(u) = n * (n * q - m * m)
  <2>1. SumOf(u) = (n * n) * q + (0 - 2 * (n * m)) * m + (m * m) * n
    BY <1>2, <1>7, Zenon DEF Times, q, m
  <2> QED BY <1>3, <1>5, <1>7, <2>1, Regroup DEF q
<1> QED BY <1>3, <1>8 DEF Spread, u, v, m, q, t

\* A positive factor cancels.
LEMMA Cancels == \A n \in Nat \ {0}, p, q \in Int : n * q > n * p <=> q > p
<1> SUFFICES ASSUME NEW n \in Nat \ {0}, NEW p \in Int, NEW q \in Int PROVE n * q > n * p <=> q > p
  OBVIOUS
<1>1. ASSUME NEW d \in Int, d > 0 PROVE n * d > 0
  BY <1>1
<1>2. n * (q - p) = n * q - n * p /\ n * (p - q) = n * p - n * q
  OBVIOUS
<1>3. n * q \in Int /\ n * p \in Int
  OBVIOUS
<1>4. CASE q > p
  <2>1. n * (q - p) > 0
    BY <1>1, <1>4
  <2> QED BY <1>2, <1>3, <1>4, <2>1
<1>5. CASE q < p
  <2>1. n * (p - q) > 0
    BY <1>1, <1>5
  <2> QED BY <1>2, <1>3, <1>5, <2>1
<1>6. CASE q = p
  BY <1>3, <1>6
<1> QED BY <1>4, <1>5, <1>6

\* A rate spike is a total above so many times the mean, or so many standard
\* deviations above it.
LEMMA RateSpikeIs ==
  ASSUME NEW s \in Seq(Buckets), s # <<>>, NEW b \in Buckets, NEW how \in {"ratio", "sigma"}
  PROVE  RateSpike(how, b, s) <=> Expected(how, "rate_spike", b, s)
<1> DEFINE num == SpikeMultiplier.num
           den == SpikeMultiplier.den
<1>1. /\ SumOf(Totals(s)) \in Int
      /\ SumOf([i \in DOMAIN s |-> den * b.total - num * s[i].total])
         = den * (Len(s) * b.total) - num * SumOf(Totals(s))
  BY RatioSums
<1>2. /\ Len(s) \in Nat \ {0} /\ b.total \in Int /\ num \in Int /\ den \in Int
  BY BucketIs, SettingsAre
<1>3. CASE how = "ratio"
  <2> DEFINE u == SumOf([i \in DOMAIN s |-> den * b.total - num * s[i].total])
             x == den * (Len(s) * b.total)
             y == num * SumOf(Totals(s))
  <2>1. x \in Int /\ y \in Int /\ u = x - y
    BY <1>1, <1>2
  <2>2. RateSpike(how, b, s) <=> x > y
    BY <1>3, Zenon DEF RateSpike, Exceeds
  <2>3. Expected(how, "rate_spike", b, s) <=> u > 0
    BY <1>3, Zenon DEF Expected
  <2> HIDE DEF u, x, y
  <2> QED BY <2>1, <2>2, <2>3
<1>4. CASE how = "sigma"
  <2> DEFINE n == Len(s)
             e == Excess(b, s)
             m == SumOf(Totals(s))
             q == SumOf([i \in DOMAIN s |-> Square(s[i].total)])
             f == Square(num)
             g == Square(den * e)
             d == n * q - m * m
  <2>1. q \in Int /\ m \in Int /\ Spread(s) = n * d
    BY SpreadIs
  <2>2. e \in Int
    BY <1>1, <1>2 DEF Excess
  <2>3. RateSpike(how, b, s) <=> e > 0 /\ n * g > f * Spread(s)
    BY <1>4, Zenon DEF RateSpike
  <2>4. Expected(how, "rate_spike", b, s) <=> e > 0 /\ g > f * (n * q - Square(m))
    BY <1>4, Zenon DEF Expected
  <2>5. d \in Int /\ f \in Int /\ Square(m) = m * m
    BY <1>2, <2>1 DEF Square
  <2>6. g \in Int
    <3>1. den * e \in Int
      BY <1>2, <2>2
    <3> QED BY <3>1 DEF Square
  <2> HIDE DEF e, m, q, f, g, d, n
  <2>7. f * d \in Int /\ f * (n * d) = n * (f * d)
    BY <1>2, <2>5 DEF n
  <2>8. n * g > n * (f * d) <=> g > f * d
    BY <1>2, <2>6, <2>7, Cancels DEF n
  <2> QED BY <2>1, <2>3, <2>4, <2>5, <2>7, <2>8, Zenon DEF d
<1> QED BY <1>3, <1>4

\* An error surge is an error rate above the threshold; no events are no surge.
LEMMA ErrorSurgeIs ==
  ASSUME NEW how, NEW s, NEW b \in Buckets
  PROVE  ErrorSurge(b) <=> Expected(how, "error_surge", b, s)
<1>1. /\ b.total \in Nat /\ b.errors \in Nat /\ b.errors <= b.total
      /\ ErrorRateThreshold.num \in Nat /\ ErrorRateThreshold.den \in Nat
  BY BucketIs, SettingsAre
<1>2. Expected(how, "error_surge", b, s) <=> Exceeds(b.errors, ErrorRateThreshold, b.total)
  BY Zenon DEF Expected
<1>3. b.total = 0 => ~Exceeds(b.errors, ErrorRateThreshold, b.total)
  <2>1. b.total = 0 => b.errors = 0
    BY <1>1
  <2> QED BY <1>1, <2>1 DEF Exceeds
<1> QED BY <1>1, <1>2, <1>3 DEF ErrorSurge

\* A latency spike is a p99 above so many times that of 99 in a hundred buckets,
\* if not all of those are zero.
LEMMA LatencySpikeIs ==
  ASSUME NEW how, NEW s \in Seq(Buckets), s # <<>>, NEW b \in Buckets
  PROVE  LatencySpike(b, s) <=> Expected(how, "latency_spike", b, s)
<1> DEFINE t == [i \in DOMAIN s |-> s[i].p99]
           n == Len(s)
           v == Percentile(99, t)
           lm == LatencyMultiplier.num
           x == LatencyMultiplier.den * b.p99
           High == {i \in DOMAIN s : x > lm * s[i].p99}
           Zeros == {i \in DOMAIN s : s[i].p99 = 0}
<1>1. lm \in Nat \ {0} /\ x \in Nat /\ (x # 0 <=> b.p99 # 0)
  <2>1. b.p99 \in Nat /\ lm \in Nat \ {0} /\ LatencyMultiplier.den \in Nat \ {0}
    BY BucketIs, SettingsAre
  <2> QED BY <2>1
<1>2. /\ n \in Nat \ {0} /\ DOMAIN s = 1..n /\ \A i \in 1..n : s[i].p99 \in Nat
  <2>1. \A i \in 1..n : s[i] \in Buckets
    OBVIOUS
  <2> QED BY <2>1, BucketIs
<1>3. t \in Seq(Int) /\ t # <<>> /\ Len(t) = n /\ \A i \in 1..n : t[i] = s[i].p99 /\ t[i] \in Nat
  <2>1. t \in [1..n -> Int] /\ \A i \in 1..n : t[i] = s[i].p99
    BY <1>2
  <2> HIDE DEF t, n
  <2>2. t \in Seq(Int) /\ Len(t) = n
    BY <1>2, <2>1
  <2> QED BY <1>2, <2>1, <2>2
<1> HIDE DEF t, n, v
<1>4. /\ v \in {t[i] : i \in DOMAIN t} /\ v \in Int
      /\ 100 * Cardinality(Below(t, v)) < 99 * Len(t)
      /\ 100 * Cardinality(Upto(t, v)) >= 99 * Len(t)
  <2>1. 99 \in 1..100
    OBVIOUS
  <2> QED BY <1>3, <2>1, PercentileIs DEF v
<1>5. v \in Nat /\ DOMAIN t = 1..n
  BY <1>3, <1>4
<1>6. ASSUME NEW T \in SUBSET (1..n)
      PROVE IsFiniteSet(T) /\ Cardinality(T) \in Nat
            /\ \A U \in SUBSET T : Cardinality(U) \in Nat /\ Cardinality(U) <= Cardinality(T)
  <2>1. IsFiniteSet(1..n)
    BY <1>2, FS_Interval
  <2>2. IsFiniteSet(T)
    BY <2>1, FS_Subset
  <2>3. ASSUME NEW U \in SUBSET T PROVE IsFiniteSet(U) /\ Cardinality(U) <= Cardinality(T)
    BY <2>2, FS_Subset
  <2> QED BY <2>2, <2>3, FS_CardinalityType
<1>7. Upto(t, v) \in SUBSET (1..n) /\ Below(t, v) \in SUBSET (1..n)
      /\ High \in SUBSET (1..n) /\ Zeros \in SUBSET (1..n)
  BY <1>2, <1>5 DEF Upto, Below
<1>8. Expected(how, "latency_spike", b, s) <=>
        100 * Cardinality(High) >= 99 * n /\ 100 * Cardinality(Zeros) < 99 * n
  BY Zenon DEF Expected, Exceeds, n
<1>9. LatencySpike(b, s) <=> x # 0 /\ v # 0 /\ x > lm * v
  BY <1>1, Zenon DEF LatencySpike, P99Latency, Exceeds, v, t
<1>10. \A i \in 1..n : t[i] <= v => lm * t[i] <= lm * v
  <2> SUFFICES ASSUME NEW i \in 1..n, t[i] <= v
               PROVE  lm * t[i] <= lm * v
    OBVIOUS
  <2>1. t[i] \in Nat
    BY <1>3
  <2>2. lm * (v - t[i]) >= 0
    BY <1>1, <1>5, <2>1
  <2>3. lm * (v - t[i]) = lm * v - lm * t[i]
    BY <1>1, <1>5, <2>1
  <2>4. lm * v \in Int /\ lm * t[i] \in Int
    BY <1>1, <1>5, <2>1
  <2> QED BY <2>2, <2>3, <2>4
<1>11. \A i \in 1..n : v <= t[i] => lm * v <= lm * t[i]
  <2> SUFFICES ASSUME NEW i \in 1..n, v <= t[i]
               PROVE  lm * v <= lm * t[i]
    OBVIOUS
  <2>1. t[i] \in Nat
    BY <1>3
  <2>2. lm * (t[i] - v) >= 0
    BY <1>1, <1>5, <2>1
  <2>3. lm * (t[i] - v) = lm * t[i] - lm * v
    BY <1>1, <1>5, <2>1
  <2>4. lm * v \in Int /\ lm * t[i] \in Int
    BY <1>1, <1>5, <2>1
  <2> QED BY <2>2, <2>3, <2>4
<1>12. \A i \in 1..n : lm * t[i] \in Int
  BY <1>1, <1>3
<1>13. lm * v \in Nat
  BY <1>1, <1>5
<1>14. ASSUME x # 0, v # 0, x > lm * v
       PROVE  100 * Cardinality(High) >= 99 * n /\ 100 * Cardinality(Zeros) < 99 * n
  <2>1. Upto(t, v) \subseteq High
    <3> SUFFICES ASSUME NEW i \in 1..n, t[i] <= v PROVE i \in High
      BY <1>5 DEF Upto
    <3>1. lm * t[i] <= lm * v /\ lm * t[i] \in Int /\ lm * v \in Int
      BY <1>10, <1>12, <1>13
    <3>2. x > lm * t[i]
      BY <1>1, <1>14, <3>1
    <3> QED BY <1>2, <1>3, <3>2
  <2>2. Zeros \subseteq Below(t, v)
    BY <1>2, <1>3, <1>5, <1>14 DEF Below
  <2> HIDE DEF High, Zeros
  <2>3. /\ Cardinality(Upto(t, v)) <= Cardinality(High) /\ Cardinality(Zeros) <= Cardinality(Below(t, v))
        /\ Cardinality(High) \in Nat /\ Cardinality(Upto(t, v)) \in Nat
        /\ Cardinality(Zeros) \in Nat /\ Cardinality(Below(t, v)) \in Nat
    BY <1>6, <1>7, <2>1, <2>2
  <2>4. 100 * Cardinality(Below(t, v)) < 99 * n /\ 100 * Cardinality(Upto(t, v)) >= 99 * n
    BY <1>3, <1>4
  <2>5. n \in Nat
    BY <1>2
  <2> QED BY <2>3, <2>4, <2>5
<1>15. ASSUME 100 * Cardinality(High) >= 99 * n, 100 * Cardinality(Zeros) < 99 * n
       PROVE  x # 0 /\ v # 0 /\ x > lm * v
  <2>1. CASE ~(x > lm * v)
    <3>1. High \subseteq Below(t, v)
      <4> SUFFICES ASSUME NEW i \in High PROVE i \in DOMAIN t /\ t[i] < v
        BY DEF Below
      <4>1. i \in 1..n /\ x > lm * t[i]
        BY <1>2, <1>3
      <4>2. lm * t[i] \in Int /\ t[i] \in Nat
        BY <1>3, <1>12, <4>1
      <4>3. v <= t[i] => lm * v <= lm * t[i]
        BY <1>11, <4>1
      <4>4. ~(v <= t[i])
        BY <1>1, <1>13, <2>1, <4>1, <4>2, <4>3
      <4> QED BY <1>5, <4>1, <4>2, <4>4
    <3> HIDE DEF High, Zeros
    <3>2. Cardinality(High) <= Cardinality(Below(t, v)) /\ Cardinality(High) \in Nat /\ Cardinality(Below(t, v)) \in Nat
      BY <1>6, <1>7, <3>1
    <3> QED BY <1>2, <1>3, <1>4, <1>15, <3>2
  <2>2. CASE v = 0
    <3>1. Upto(t, v) \subseteq Zeros
      BY <1>2, <1>3, <1>5, <2>2 DEF Upto
    <3> HIDE DEF High, Zeros
    <3>2. Cardinality(Upto(t, v)) <= Cardinality(Zeros) /\ Cardinality(Zeros) \in Nat /\ Cardinality(Upto(t, v)) \in Nat
      BY <1>6, <1>7, <3>1
    <3> QED BY <1>2, <1>3, <1>4, <1>15, <3>2
  <2>3. x > lm * v => x # 0
    BY <1>1, <1>13
  <2> QED BY <2>1, <2>2, <2>3
<1> HIDE DEF High, Zeros, x
<1> QED BY <1>8, <1>9, <1>14, <1>15, Zenon

\* There is a flood if some host has more than its share: then so has a host that no
\* other exceeds, and the scan finds one of those.
LEMMA HostFloodIs ==
  ASSUME NEW how, NEW s, NEW b \in Buckets
  PROVE  {h \in Hosts : HostFlood(b, h)} # {} <=> Expected(how, "host_flood", b, s)
<1> DEFINE num == HostFloodFraction.num
           den == HostFloodFraction.den
<1>1. /\ b.total \in Nat /\ \A h \in Hosts : b.byHost[h] \in 0..b.total
      /\ num \in Nat \ {0} /\ den \in Nat \ {0}
  BY BucketIs, SettingsAre
<1>2. Expected(how, "host_flood", b, s) <=> \E h \in Hosts : Exceeds(b.byHost[h], HostFloodFraction, b.total)
  BY Zenon DEF Expected
<1>3. ASSUME NEW h \in Hosts, Exceeds(b.byHost[h], HostFloodFraction, b.total)
      PROVE  \E g \in Hosts : HostFlood(b, g)
  <2> DEFINE T == {b.total - b.byHost[g] : g \in Hosts}
  <2>1. T \in SUBSET Nat /\ T # {}
    BY <1>1
  <2>2. PICK m \in T : \A x \in T : m <= x
    BY <2>1, LeastNat
  <2>3. PICK g \in Hosts : m = b.total - b.byHost[g]
    BY <2>2
  <2>4. ASSUME NEW f \in Hosts PROVE b.byHost[f] <= b.byHost[g]
    <3>1. b.total - b.byHost[g] <= b.total - b.byHost[f]
      BY <2>2, <2>3
    <3> QED BY <1>1, <3>1
  <2> DEFINE x == b.byHost[h]
             y == b.byHost[g]
  <2>5. x \in Nat /\ y \in Nat /\ y - x \in Nat /\ y <= b.total
    BY <1>1, <2>4
  <2>6. den * x > num * b.total
    BY <1>3 DEF Exceeds
  <2> HIDE DEF x, y, num, den
  <2>7. den * y = den * x + den * (y - x) /\ den * (y - x) \in Nat /\ den * x \in Nat
    BY <1>1, <2>5
  <2>8. num * b.total \in Nat
    BY <1>1
  <2>9. den * y > num * b.total
    BY <2>6, <2>7, <2>8
  <2>10. y > 0
    <3>1. y = 0 => den * y = 0
      BY <1>1
    <3> QED BY <2>5, <2>8, <2>9, <3>1
  <2>11. b.total # 0
    BY <1>1, <2>5, <2>10
  <2>12. Exceeds(b.byHost[g], HostFloodFraction, b.total) /\ b.byHost[g] > 0
    BY <2>9, <2>10 DEF Exceeds, y, num, den
  <2> QED BY <2>4, <2>11, <2>12 DEF HostFlood, TopHosts
<1>4. ASSUME NEW h \in Hosts, HostFlood(b, h) PROVE Exceeds(b.byHost[h], HostFloodFraction, b.total)
  BY <1>4 DEF HostFlood
<1> QED BY <1>2, <1>3, <1>4

\* The silence at the end of a list is as long as it can be.
LEMMA ConsecutiveIs ==
  ASSUME NEW s \in Seq(Buckets)
  PROVE  LET n == Consecutive(s)
         IN  /\ n \in 0..Len(s)
             /\ \A i \in (Len(s) - n + 1)..Len(s) : s[i].total = 0
             /\ n = Len(s) \/ s[Len(s) - n].total # 0
<1> DEFINE l == Len(s)
           Stops == {n \in 0..l : n = l \/ s[l - n].total # 0}
<1>1. l \in Nat
  OBVIOUS
<1>2. Stops \in SUBSET Nat /\ l \in Stops
  BY <1>1
<1>3. PICK m \in Stops : \A n \in Stops : m <= n
  BY <1>2, LeastNat
<1>4. ASSUME NEW i \in (l - m + 1)..l PROVE s[i].total = 0
  <2>1. l - i \in 0..l /\ l - i < m /\ l - (l - i) = i /\ l - i # l
    BY <1>1, <1>3
  <2>2. l - i \notin Stops
    BY <1>2, <1>3, <2>1
  <2> QED BY <2>1, <2>2
<1> DEFINE P(n) == /\ \A i \in (l - n + 1)..l : s[i].total = 0
                   /\ n = l \/ s[l - n].total # 0
<1>5. m \in 0..l /\ P(m)
  BY <1>3, <1>4
<1>6. Consecutive(s) = CHOOSE n \in 0..l : P(n)
  BY DEF Consecutive
<1> HIDE DEF P, l
<1>7. Consecutive(s) \in 0..l /\ P(Consecutive(s))
  BY <1>5, <1>6
<1> QED BY <1>7 DEF P, l

\* Silence is that the last so many buckets are empty.
LEMMA SilenceIs ==
  ASSUME NEW how, NEW s \in Seq(Buckets), NEW b
  PROVE  Silence(s) <=> Expected(how, "silence", b, s)
<1> DEFINE l == Len(s)
           n == Consecutive(s)
           t == SilenceThreshold
<1>1. /\ n \in 0..l /\ l \in Nat /\ t \in Int /\ DOMAIN s = 1..l
      /\ \A i \in (l - n + 1)..l : s[i].total = 0
      /\ n = l \/ s[l - n].total # 0
  BY ConsecutiveIs, SettingsAre
<1>2. Expected(how, "silence", b, s) <=> l >= t /\ \A i \in DOMAIN s : i > l - t => s[i].total = 0
  BY Zenon DEF Expected
<1>3. Silence(s) <=> n >= t
  BY DEF Silence
<1> HIDE DEF l, n, t
<1>4. ASSUME n >= t, NEW i \in DOMAIN s, i > l - t PROVE s[i].total = 0
  <2>1. i \in (l - n + 1)..l
    BY <1>1, <1>4
  <2> QED BY <1>1, <2>1
<1>5. ASSUME ~(n >= t), l >= t PROVE \E i \in DOMAIN s : i > l - t /\ s[i].total # 0
  <2>1. l - n \in DOMAIN s /\ l - n > l - t /\ n # l
    BY <1>1, <1>5
  <2> QED BY <1>1, <2>1
<1>6. n >= t => l >= t
  BY <1>1
<1> QED BY <1>2, <1>3, <1>4, <1>5, <1>6

\* Every rule detects something exactly when it is to be noticed.
LEMMA DetectedIsExpected ==
  ASSUME NEW k \in Kind, NEW s \in Seq(Buckets), s # <<>>, NEW b \in Buckets,
         NEW how \in {"ratio", "sigma"}
  PROVE  Detected(how, k, b, s) # {} <=> Expected(how, k, b, s)
<1>1. CASE k = "rate_spike"
  <2>1. Detected(how, k, b, s) # {} <=> RateSpike(how, b, s)
    BY <1>1, Zenon DEF Detected
  <2> QED BY <1>1, <2>1, RateSpikeIs
<1>2. CASE k = "error_surge"
  <2>1. Detected(how, k, b, s) # {} <=> ErrorSurge(b)
    BY <1>2, Zenon DEF Detected
  <2> QED BY <1>2, <2>1, ErrorSurgeIs
<1>3. CASE k = "latency_spike"
  <2>1. Detected(how, k, b, s) # {} <=> LatencySpike(b, s)
    BY <1>3, Zenon DEF Detected
  <2> QED BY <1>3, <2>1, LatencySpikeIs
<1>4. CASE k = "host_flood"
  <2>1. Detected(how, k, b, s) = {h \in Hosts : HostFlood(b, h)}
    BY <1>4, Zenon DEF Detected
  <2> QED BY <1>4, <2>1, HostFloodIs
<1>5. CASE k = "silence"
  <2>1. Detected(how, k, b, s) # {} <=> Silence(s)
    BY <1>5, Zenon DEF Detected
  <2> QED BY <1>5, <2>1, SilenceIs
<1> QED BY <1>1, <1>2, <1>3, <1>4, <1>5 DEF Kind

-----------------------------------------------------------------------------
(* The baseline of a bucket. *)

\* What Before(i) is in a history sq.
Base(sq, i) == [j \in 1..(IF i > Capacity THEN Capacity ELSE i - 1) |->
                  sq[(IF i > Capacity THEN i - 1 - Capacity ELSE 0) + j].b]

\* It is a list of buckets, as many as there were, up to the capacity.
LEMMA BaseIs ==
  ASSUME NEW sq \in Seq(Entry), NEW i \in 1..(Len(sq) + 1)
  PROVE  /\ Base(sq, i) \in Seq(Buckets)
         /\ Len(Base(sq, i)) = IF i > Capacity THEN Capacity ELSE i - 1
<1> DEFINE n == IF i > Capacity THEN Capacity ELSE i - 1
           o == IF i > Capacity THEN i - 1 - Capacity ELSE 0
           u == Base(sq, i)
<1>1. /\ n \in Nat /\ o \in Nat /\ o + n = i - 1 /\ i - 1 <= Len(sq) /\ Len(sq) \in Nat
  BY SettingsAre
<1>2. u = [j \in 1..n |-> sq[o + j].b]
  BY DEF Base
<1> HIDE DEF n, o, u
<1>3. ASSUME NEW j \in 1..n PROVE sq[o + j].b \in Buckets
  <2>1. o + j \in 1..Len(sq)
    BY <1>1
  <2>2. sq[o + j] \in Entry
    BY <2>1
  <2> QED BY <2>2 DEF Entry
<1>4. u \in [1..n -> Buckets]
  BY <1>2, <1>3
<1>5. u \in Seq(Buckets) /\ Len(u) = n
  BY <1>1, <1>4
<1> QED BY <1>5 DEF u, n

\* Buckets received later do not change it.
LEMMA BaseStays ==
  ASSUME NEW sq \in Seq(Entry), NEW x \in Entry, NEW i \in 1..(Len(sq) + 1)
  PROVE  Base(Append(sq, x), i) = Base(sq, i)
<1> DEFINE n == IF i > Capacity THEN Capacity ELSE i - 1
           o == IF i > Capacity THEN i - 1 - Capacity ELSE 0
           t == Append(sq, x)
<1>1. /\ n \in Nat /\ o \in Nat /\ o + n = i - 1 /\ i - 1 <= Len(sq) /\ Len(sq) \in Nat
  BY SettingsAre
<1>2. \A j \in 1..Len(sq) : t[j] = sq[j]
  OBVIOUS
<1>3. Base(sq, i) = [j \in 1..n |-> sq[o + j].b] /\ Base(t, i) = [j \in 1..n |-> t[o + j].b]
  BY DEF Base
<1> HIDE DEF n, o, t
<1>4. \A j \in 1..n : o + j \in 1..Len(sq)
  BY <1>1
<1>5. \A j \in 1..n : t[o + j] = sq[o + j]
  BY <1>2, <1>4
<1>6. Base(t, i) = Base(sq, i)
  BY <1>3, <1>5
<1> QED BY <1>6 DEF t

\* A bucket that joins its baseline makes that of the next one.
LEMMA BaseSlides ==
  ASSUME NEW sq \in Seq(Entry), NEW i \in 1..Len(sq)
  PROVE  Slide(Base(sq, i), sq[i].b) = Base(sq, i + 1)
<1> DEFINE u == Base(sq, i)
           v == Base(sq, i + 1)
           b == sq[i].b
           w == Slide(u, b)
<1>0. Capacity \in Nat \ {0} /\ Len(sq) \in Nat /\ i \in 1..(Len(sq) + 1) /\ i + 1 \in 1..(Len(sq) + 1)
  BY SettingsAre
<1>1. u \in Seq(Buckets) /\ Len(u) = IF i > Capacity THEN Capacity ELSE i - 1
  BY <1>0, BaseIs
<1>2. v \in Seq(Buckets) /\ Len(v) = IF i + 1 > Capacity THEN Capacity ELSE i
  <2>1. i + 1 - 1 = i
    OBVIOUS
  <2> QED BY <1>0, <2>1, BaseIs
<1>3. b \in Buckets
  <2>1. sq[i] \in Entry
    OBVIOUS
  <2> QED BY <2>1 DEF Entry
<1>4. u = [j \in 1..(IF i > Capacity THEN Capacity ELSE i - 1) |->
             sq[(IF i > Capacity THEN i - 1 - Capacity ELSE 0) + j].b]
  BY DEF Base
<1>5. v = [j \in 1..(IF i + 1 > Capacity THEN Capacity ELSE i) |->
             sq[(IF i + 1 > Capacity THEN i - Capacity ELSE 0) + j].b]
  <2>1. \A k : Base(sq, k) = [j \in 1..(IF k > Capacity THEN Capacity ELSE k - 1) |->
                              sq[(IF k > Capacity THEN k - 1 - Capacity ELSE 0) + j].b]
    BY DEF Base
  <2>2. PICK k \in Int : k = i + 1
    OBVIOUS
  <2>3. k - 1 = i /\ k - 1 - Capacity = i - Capacity
    BY <1>0, <2>2
  <2>4. Base(sq, k) = [j \in 1..(IF k > Capacity THEN Capacity ELSE i) |->
                        sq[(IF k > Capacity THEN i - Capacity ELSE 0) + j].b]
    BY <2>1, <2>3
  <2> QED BY <2>2, <2>4
<1>6. w = IF Len(u) = Capacity THEN Append(Tail(u), b) ELSE Append(u, b)
  BY DEF Slide
<1>7. CASE i > Capacity
  <2>1. Len(u) = Capacity /\ \A j \in 1..Capacity : u[j] = sq[i - 1 - Capacity + j].b
    BY <1>0, <1>1, <1>4, <1>7
  <2>2. Len(v) = Capacity /\ \A j \in 1..Capacity : v[j] = sq[i - Capacity + j].b
    <3>1. i + 1 > Capacity
      BY <1>0, <1>7
    <3> QED BY <1>0, <1>2, <1>5, <3>1
  <2> HIDE DEF u, v, w
  <2>3. u # <<>> /\ w = Append(Tail(u), b)
    BY <1>0, <1>1, <1>6, <2>1
  <2> DEFINE x == Tail(u)
  <2>4. x \in Seq(Buckets) /\ Len(x) = Capacity - 1 /\ \A j \in 1..(Capacity - 1) : x[j] = u[j + 1]
    BY <1>0, <1>1, <2>1, <2>3
  <2> HIDE DEF x
  <2>5. /\ w \in Seq(Buckets) /\ Len(w) = Capacity /\ w[Capacity] = b
        /\ \A j \in 1..(Capacity - 1) : w[j] = x[j]
    BY <1>0, <1>3, <2>3, <2>4 DEF x
  <2>6. ASSUME NEW j \in 1..Capacity PROVE w[j] = v[j]
    <3>1. CASE j = Capacity
      <4>1. i - Capacity + j = i
        BY <1>0, <3>1
      <4>2. v[j] = sq[i - Capacity + j].b
        BY <2>2
      <4> QED BY <2>5, <3>1, <4>1, <4>2 DEF b
    <3>2. CASE j # Capacity
      <4>1. j \in 1..(Capacity - 1) /\ j + 1 \in 1..Capacity /\ i - 1 - Capacity + (j + 1) = i - Capacity + j
        BY <1>0, <3>2
      <4>2. w[j] = x[j] /\ x[j] = u[j + 1]
        BY <2>4, <2>5, <4>1
      <4>3. u[j + 1] = sq[i - 1 - Capacity + (j + 1)].b
        BY <2>1, <4>1
      <4>4. v[j] = sq[i - Capacity + j].b
        BY <2>2
      <4> QED BY <4>1, <4>2, <4>3, <4>4
    <3> QED BY <3>1, <3>2
  <2>7. w = v
    BY <1>2, <2>2, <2>5, <2>6, SameList
  <2> QED BY <2>7 DEF w, u, v
<1>8. CASE ~(i > Capacity)
  <2>1. Len(u) = i - 1 /\ \A j \in 1..(i - 1) : u[j] = sq[j].b
    <3>1. \A j \in 1..(i - 1) : 0 + j = j
      OBVIOUS
    <3> QED BY <1>0, <1>1, <1>4, <1>8, <3>1
  <2>2. Len(v) = i /\ \A j \in 1..i : v[j] = sq[j].b
    <3>1. i + 1 > Capacity => i = Capacity
      BY <1>0, <1>8
    <3>2. \A j \in 1..i : 0 + j = j /\ i - i + j = j
      OBVIOUS
    <3> QED BY <1>0, <1>2, <1>5, <1>8, <3>1, <3>2
  <2> HIDE DEF u, v, w
  <2>3. w = Append(u, b)
    BY <1>0, <1>6, <1>8, <2>1
  <2>4. w \in Seq(Buckets) /\ Len(w) = i /\ w[i] = b /\ \A j \in 1..(i - 1) : w[j] = u[j]
    BY <1>0, <1>1, <1>3, <2>1, <2>3
  <2>5. ASSUME NEW j \in 1..i PROVE w[j] = v[j]
    <3>1. CASE j = i
      BY <2>2, <2>4, <3>1 DEF b
    <3>2. CASE j # i
      <4>1. j \in 1..(i - 1)
        BY <1>0, <3>2
      <4> QED BY <2>1, <2>2, <2>4, <4>1
    <3> QED BY <3>1, <3>2
  <2>6. w = v
    BY <1>2, <2>2, <2>4, <2>5, SameList
  <2> QED BY <2>6 DEF w, u, v
<1> QED BY <1>7, <1>8

-----------------------------------------------------------------------------
(* Which rules have been checked, and what came of it. *)

\* The place of a rule in the order they are checked.
Place(k) == CHOOSE j \in DOMAIN Kinds : Kinds[j] = k

\* The place of the rule to be checked next; 6 when there is none left.
Turn ==
  IF pc \in Kind THEN Place(pc)
  ELSE IF pc = "send" THEN Place(pending.kind) + 1
  ELSE 6

\* An anomaly a is so by the history sq: its rule detects it against its baseline.
Sound(how, a, sq) ==
  /\ a.of \in 1..Len(sq)
  /\ Len(Base(sq, a.of)) >= MinBaselineSamples
  /\ a.host \in Detected(how, a.kind, sq[a.of].b, Base(sq, a.of))

\* Kind k was reported of the i-th bucket, or less than a cooldown before.
Reported(list, sq, i, k) ==
  \E j \in DOMAIN list :
    /\ list[j].kind = k
    /\ list[j].of = i \/ (list[j].of < i /\ sq[i].at - list[j].at < AlertCooldown)

\* There is something of kind k to report of the i-th bucket.
Notable(how, sq, i, k) ==
  /\ Len(Base(sq, i)) >= MinBaselineSamples
  /\ Detected(how, k, sq[i].b, Base(sq, i)) # {}

\* All anomalies are so.
Judged(how, list, sq) == \A i \in DOMAIN list : Sound(how, list[i], sq)

\* A cooldown began with an anomaly.
Begun(cd, list) ==
  \A k \in Kind : cd[k] # Never => \E j \in DOMAIN list : list[j].kind = k /\ list[j].at = cd[k]

\* Whatever was checked and notable was reported.
Complete(how, list, sq, turn) ==
  \A i \in 1..Len(sq), k \in Kind :
    (i < Len(sq) \/ Place(k) < turn) /\ Notable(how, sq, i, k) => Reported(list, sq, i, k)

\* The window is the baseline of the bucket at hand, or of the one to come.
Windowed ==
  /\ pc \in {"recv", "done"} => win = Base(seen, Len(seen) + 1)
  /\ pc \in Kind \cup {"send", "push"} => win = Base(seen, Len(seen))
  /\ pc \in Kind \cup {"send"} => snap = win /\ Len(win) >= MinBaselineSamples

\* The second inductive invariant, on top of the first.
Account ==
  /\ method \in {"ratio", "sigma"}
  /\ Windowed
  /\ \A i \in 1..Len(seen) : seen[i].at <= now
  /\ Judged(method, Anomalies, seen)
  /\ Begun(cooldown, Anomalies)
  /\ Complete(method, Anomalies, seen, Turn)

\* Rules have different places, and each is followed by the next.
LEMMA PlaceIs ==
  /\ \A k \in Kind : Place(k) \in 1..5 /\ Kinds[Place(k)] = k
  /\ Place(Kinds[1]) = 1
  /\ \A k \in Kind : \/ After(k) \in Kind /\ Place(After(k)) = Place(k) + 1
                     \/ After(k) = "push" /\ Place(k) = 5
<1>1. DOMAIN Kinds = 1..5 /\ Len(Kinds) = 5
  BY KindsListed
<1>2. ASSUME NEW k \in Kind PROVE Place(k) \in 1..5 /\ Kinds[Place(k)] = k
  <2>1. \E j \in DOMAIN Kinds : Kinds[j] = k
    BY KindsListed DEF ToSet
  <2> QED BY <1>1, <2>1 DEF Place
<1>3. \A i, j \in 1..5 : Kinds[i] = Kinds[j] => i = j
  <2>1. Kinds[1] = "rate_spike" /\ Kinds[2] = "error_surge" /\ Kinds[3] = "latency_spike"
        /\ Kinds[4] = "host_flood" /\ Kinds[5] = "silence"
    BY DEF Kinds
  <2> QED BY <2>1
<1>4. ASSUME NEW i \in 1..5 PROVE Kinds[i] \in Kind /\ Place(Kinds[i]) = i
  <2>1. Kinds[i] \in Kind
    BY <1>1, KindsListed DEF ToSet
  <2> QED BY <1>2, <1>3, <2>1
<1>5. ASSUME NEW k \in Kind
      PROVE  \/ After(k) \in Kind /\ Place(After(k)) = Place(k) + 1
             \/ After(k) = "push" /\ Place(k) = 5
  <2>1. After(k) = IF Place(k) < 5 THEN Kinds[Place(k) + 1] ELSE "push"
    BY <1>1 DEF After, Place
  <2>2. Place(k) \in 1..5
    BY <1>2
  <2>3. CASE Place(k) < 5
    <3>1. Place(k) + 1 \in 1..5
      BY <2>2, <2>3
    <3> QED BY <1>4, <2>1, <2>3, <3>1
  <2>4. CASE ~(Place(k) < 5)
    BY <2>1, <2>2, <2>4
  <2> QED BY <2>3, <2>4
<1> QED BY <1>2, <1>4, <1>5

\* One more anomaly takes nothing back.
LEMMA ReportedStays ==
  ASSUME NEW D, NEW list \in Seq(D), NEW a \in D, NEW sq, NEW i, NEW k
  PROVE  Reported(list, sq, i, k) => Reported(Append(list, a), sq, i, k)
<1> DEFINE longer == Append(list, a)
<1>1. Len(list) \in Nat /\ DOMAIN list = 1..Len(list) /\ DOMAIN longer = 1..(Len(list) + 1)
  OBVIOUS
<1>2. \A j \in 1..Len(list) : longer[j] = list[j]
  OBVIOUS
<1> HIDE DEF longer
<1>3. \A j \in DOMAIN list : j \in DOMAIN longer /\ longer[j] = list[j]
  BY <1>1, <1>2
<1>4. Reported(list, sq, i, k) => Reported(longer, sq, i, k)
  BY <1>3 DEF Reported
<1> QED BY <1>4 DEF longer

\* One more bucket leaves what is known of the others.
LEMMA HistoryStays ==
  ASSUME NEW sq \in Seq(Entry), NEW x \in Entry, NEW how
  PROVE  /\ Len(Append(sq, x)) = Len(sq) + 1 /\ Len(sq) \in Nat
         /\ \A i \in 1..Len(sq) : /\ Append(sq, x)[i] = sq[i]
                                  /\ Base(Append(sq, x), i) = Base(sq, i)
         /\ \A a : Sound(how, a, sq) => Sound(how, a, Append(sq, x))
         /\ \A i \in 1..Len(sq) : \A k : Notable(how, Append(sq, x), i, k) <=> Notable(how, sq, i, k)
         /\ \A i \in 1..Len(sq) : \A k, list : Reported(list, sq, i, k) => Reported(list, Append(sq, x), i, k)
<1> DEFINE t == Append(sq, x)
<1>1. Len(t) = Len(sq) + 1 /\ Len(sq) \in Nat /\ \A i \in 1..Len(sq) : t[i] = sq[i]
  OBVIOUS
<1>2. \A i \in 1..Len(sq) : i \in 1..(Len(sq) + 1) /\ i \in 1..Len(t)
  BY <1>1
<1>3. \A i \in 1..Len(sq) : Base(t, i) = Base(sq, i)
  BY <1>2, BaseStays
<1> HIDE DEF t
<1>4. \A a : Sound(how, a, sq) => Sound(how, a, t)
  BY <1>1, <1>2, <1>3 DEF Sound
<1>5. \A i \in 1..Len(sq) : \A k : Notable(how, t, i, k) <=> Notable(how, sq, i, k)
  BY <1>1, <1>3 DEF Notable
<1>6. \A i \in 1..Len(sq) : \A k, list : Reported(list, sq, i, k) => Reported(list, t, i, k)
  BY <1>1 DEF Reported
<1> QED BY <1>1, <1>3, <1>4, <1>5, <1>6 DEF t

\* At the start there is nothing to account for.
LEMMA AccountStarts == Init => Account
<1> SUFFICES ASSUME Init PROVE Account
  OBVIOUS
<1>1. /\ now = 0 /\ method \in {"ratio", "sigma"} /\ win = <<>> /\ pc = "recv" /\ pending = None
      /\ out = <<>> /\ seen = <<>> /\ cooldown = [k \in ToSet(Kinds) |-> Never]
  BY DEF Init
<1>2. seen \in Seq(Entry) /\ Len(seen) = 0
  BY <1>1
<1>3. win = Base(seen, Len(seen) + 1)
  <2>1. 1 \in 1..(Len(seen) + 1) /\ Len(seen) + 1 = 1 /\ ~(1 > Capacity) /\ 1 - 1 = 0
    BY <1>2, SettingsAre
  <2>2. Base(seen, 1) \in Seq(Buckets) /\ Len(Base(seen, 1)) = 0
    BY <1>2, <2>1, BaseIs
  <2> QED BY <1>1, <2>1, <2>2
<1>4. Windowed
  BY <1>1, <1>3 DEF Windowed, Kind
<1>5. Anomalies = <<>> /\ DOMAIN Anomalies = {} /\ 1..Len(seen) = {}
  BY <1>1, <1>2 DEF Anomalies
<1>6. Judged(method, Anomalies, seen) /\ Complete(method, Anomalies, seen, Turn)
  BY <1>5 DEF Judged, Complete
<1>7. Begun(cooldown, Anomalies)
  BY <1>1, KindsListed DEF Begun
<1> QED BY <1>1, <1>4, <1>5, <1>6, <1>7 DEF Account

\* Steps that leave everything but the clock, and perhaps the end of Run, alone.
LEMMA StillAccounts ==
  ASSUME Types, Account, now \in Nat, now' \in Nat, now' >= now,
         UNCHANGED <<method, win, snap, cooldown, pending, out, seen>>,
         pc' = pc \/ (pc = "recv" /\ pc' = "done")
  PROVE  Account'
<1>1. Anomalies' = Anomalies
  BY DEF Anomalies
<1>2. Turn' = Turn
  BY DEF Turn, Kind
<1>3. Windowed'
  BY DEF Account, Windowed, Kind
<1>4. \A i \in 1..Len(seen) : seen[i].at \in Nat
  <2>1. \A i \in 1..Len(seen) : seen[i] \in Entry
    BY DEF Types
  <2> QED BY <2>1 DEF Entry
<1>5. \A i \in 1..Len(seen') : seen'[i].at <= now'
  BY <1>4 DEF Account
<1> QED BY <1>1, <1>2, <1>3, <1>5 DEF Account

\* What the bucket at hand is, and its baseline.
LEMMA AtHand ==
  ASSUME Types, Account, pc \in Kind \cup {"send", "push"}
  PROVE  /\ Len(seen) \in Nat \ {0} /\ Len(seen) \in 1..Len(seen)
         /\ seen[Len(seen)] \in Entry /\ Cur = seen[Len(seen)].b /\ Cur \in Buckets
         /\ win = Base(seen, Len(seen))
         /\ pc \in Kind => snap = Base(seen, Len(seen)) /\ Len(Base(seen, Len(seen))) >= MinBaselineSamples
<1>1. seen \in Seq(Entry) /\ seen # <<>>
  BY DEF Types
<1>2. Len(seen) \in Nat \ {0} /\ Len(seen) \in 1..Len(seen) /\ seen[Len(seen)] \in Entry
  BY <1>1
<1>3. Windowed
  BY DEF Account
<1> QED BY <1>2, <1>3 DEF Cur, Windowed, Entry

\* Nothing is known of the new bucket; without a warm window there is nothing to notice.
LEMMA ReceiveAccounts ==
  ASSUME NEW b \in Buckets, Types, Account, Receive(b) PROVE Account'
<1> DEFINE x == [b |-> b, at |-> now]
           n == Len(seen) + 1
<1>1. /\ pc = "recv" /\ seen' = Append(seen, x) /\ snap' = win
      /\ pc' = (IF Len(win) < MinBaselineSamples THEN "push" ELSE Kinds[1])
      /\ UNCHANGED <<now, method, win, cooldown, pending, out>>
  BY DEF Receive
<1>2. x \in Entry /\ seen \in Seq(Entry) /\ now \in Nat /\ x.at = now
  BY DEF Types, Entry
<1>3. /\ \A i \in 1..Len(seen) : seen[i].at <= now
      /\ method \in {"ratio", "sigma"} /\ Windowed
      /\ Judged(method, Anomalies, seen) /\ Begun(cooldown, Anomalies)
      /\ Complete(method, Anomalies, seen, Turn)
  BY DEF Account
<1> HIDE DEF x
<1>4. /\ Len(seen') = n /\ Len(seen) \in Nat
      /\ \A i \in 1..Len(seen) : seen'[i] = seen[i]
      /\ \A a : Sound(method, a, seen) => Sound(method, a, seen')
      /\ \A i \in 1..Len(seen) : \A k : Notable(method, seen', i, k) <=> Notable(method, seen, i, k)
      /\ \A i \in 1..Len(seen) : \A k, list : Reported(list, seen, i, k) => Reported(list, seen', i, k)
  <2>1. Append(seen, x) = seen'
    BY <1>1
  <2> QED BY <1>2, <2>1, HistoryStays
<1>5. seen'[n] = x
  BY <1>1, <1>2
<1>6. n \in 1..(Len(seen) + 1) /\ \A i \in 1..n : i \in 1..Len(seen) \/ i = n
  BY <1>4
<1>7. Base(seen', n) = win
  <2>1. Base(seen', n) = Base(seen, n)
    BY <1>1, <1>2, <1>6, BaseStays
  <2> QED BY <1>1, <1>3, <2>1 DEF Windowed
<1>8. pc' \in Kind \cup {"push"} /\ (pc' \in Kind => ~(Len(win) < MinBaselineSamples) /\ Turn' = 1)
      /\ (pc' = "push" => Len(win) < MinBaselineSamples)
  <2>1. Kinds[1] \in Kind /\ "push" \notin Kind
    BY DEF Kinds, Kind
  <2> QED BY <1>1, <2>1, PlaceIs DEF Turn
<1>9. Anomalies' = Anomalies
  BY <1>1 DEF Anomalies
<1>10. Windowed'
  <2>1. Len(win) \in Nat /\ MinBaselineSamples \in Nat
    BY SettingsAre DEF Types
  <2>2. win' = Base(seen', Len(seen')) /\ snap' = win'
    BY <1>1, <1>4, <1>7
  <2>3. pc' \in Kind => Len(win') >= MinBaselineSamples
    BY <1>1, <1>8, <2>1
  <2> QED BY <1>8, <2>2, <2>3 DEF Windowed, Kind
<1>11. \A i \in 1..Len(seen') : seen'[i].at <= now'
  BY <1>1, <1>2, <1>3, <1>4, <1>5, <1>6
<1>12. Judged(method, Anomalies, seen')
  BY <1>3, <1>4 DEF Judged
<1>13. Complete(method, Anomalies, seen', Turn')
  <2> SUFFICES ASSUME NEW i \in 1..n, NEW k \in Kind, i < n \/ Place(k) < Turn',
                      Notable(method, seen', i, k)
               PROVE  Reported(Anomalies, seen', i, k)
    BY <1>4 DEF Complete
  <2>1. CASE i \in 1..Len(seen)
    <3>1. Place(k) < Turn
      <4>1. Turn = 6
        BY <1>1 DEF Turn, Kind
      <4> QED BY <4>1, PlaceIs
    <3>2. Notable(method, seen, i, k)
      BY <1>4, <2>1
    <3>3. Reported(Anomalies, seen, i, k)
      BY <1>3, <2>1, <3>1, <3>2 DEF Complete
    <3> QED BY <1>4, <2>1, <3>3
  <2>2. CASE i = n
    <3>1. Place(k) < Turn' /\ Place(k) \in 1..5
      BY <1>4, <2>2, PlaceIs
    <3>2. pc' = "push"
      BY <1>8, <3>1
    <3>3. Len(win) < MinBaselineSamples /\ Len(win) \in Nat /\ MinBaselineSamples \in Nat
      BY <1>8, <3>2, SettingsAre DEF Types
    <3>4. Len(win) >= MinBaselineSamples
      BY <1>7, <2>2 DEF Notable
    <3> QED BY <3>3, <3>4
  <2> QED BY <1>6, <2>1, <2>2
<1> QED BY <1>1, <1>3, <1>9, <1>10, <1>11, <1>12, <1>13 DEF Account

\* The bucket joins the window, which is the next one's baseline then.
LEMMA PushAccounts == ASSUME Types, Account, Push PROVE Account'
<1>1. /\ pc = "push" /\ win' = Slide(win, Cur) /\ pc' = "recv"
      /\ UNCHANGED <<now, method, snap, cooldown, pending, out, seen>>
  BY DEF Push
<1>2. /\ Len(seen) \in 1..Len(seen) /\ Cur = seen[Len(seen)].b /\ win = Base(seen, Len(seen))
  BY <1>1, AtHand
<1>3. seen \in Seq(Entry)
  BY DEF Types
<1>4. win' = Base(seen, Len(seen) + 1)
  BY <1>1, <1>2, <1>3, BaseSlides
<1>5. Windowed'
  BY <1>1, <1>4 DEF Windowed, Kind
<1>6. Anomalies' = Anomalies
  BY <1>1 DEF Anomalies
<1>7. Turn' = Turn
  BY <1>1 DEF Turn, Kind
<1> QED BY <1>1, <1>5, <1>6, <1>7 DEF Account

\* The next turn after rule k's.
LEMMA NextTurn ==
  ASSUME NEW k \in Kind, pc' = After(k)
  PROVE  /\ Turn' = Place(k) + 1 /\ pc' \in Kind \cup {"push"}
         /\ \A j \in Kind : Place(j) < Turn' => Place(j) < Place(k) \/ j = k
<1>1. \/ pc' \in Kind /\ Place(pc') = Place(k) + 1
      \/ pc' = "push" /\ Place(k) = 5
  BY PlaceIs
<1>2. Turn' = Place(k) + 1 /\ pc' \in Kind \cup {"push"}
  <2>1. CASE pc' \in Kind /\ Place(pc') = Place(k) + 1
    BY <2>1 DEF Turn
  <2>2. CASE pc' = "push" /\ Place(k) = 5
    BY <2>2 DEF Turn, Kind
  <2> QED BY <1>1, <2>1, <2>2
<1>3. ASSUME NEW j \in Kind, Place(j) < Place(k) + 1 PROVE Place(j) < Place(k) \/ j = k
  <2>1. Place(j) \in 1..5 /\ Place(k) \in 1..5 /\ Kinds[Place(j)] = j /\ Kinds[Place(k)] = k
    BY PlaceIs
  <2> QED BY <1>3, <2>1
<1> QED BY <1>2, <1>3

\* A rule that reports nothing has nothing to report, or reported it a moment ago.
LEMMA QuietAccounts ==
  ASSUME NEW k \in Kind, Types, Account, Check(k),
         Suppressed(k) \/ Detected(method, k, Cur, snap) = {}
  PROVE  Account'
<1> DEFINE n == Len(seen)
<1>1. /\ pc = k /\ pc' = After(k)
      /\ UNCHANGED <<now, method, win, snap, cooldown, pending, out, seen>>
  BY DEF Check
<1>2. /\ n \in Nat \ {0} /\ n \in 1..n /\ seen[n] \in Entry /\ Cur = seen[n].b
      /\ snap = Base(seen, n) /\ win = Base(seen, n)
  BY <1>1, AtHand
<1>3. Turn' = Place(k) + 1 /\ pc' \in Kind \cup {"push"}
      /\ \A j \in Kind : Place(j) < Turn' => Place(j) < Place(k) \/ j = k
  BY <1>1, NextTurn
<1>4. Anomalies' = Anomalies /\ Turn = Place(k)
  BY <1>1 DEF Anomalies, Turn
<1>5. /\ \A i \in 1..n : seen[i].at <= now
      /\ Windowed
      /\ Judged(method, Anomalies, seen) /\ Begun(cooldown, Anomalies)
      /\ Complete(method, Anomalies, seen, Turn)
  BY DEF Account
<1>6. Windowed'
  BY <1>1, <1>3, <1>5 DEF Windowed, Kind
<1>7. Notable(method, seen, n, k) => Reported(Anomalies, seen, n, k)
  <2> SUFFICES ASSUME Notable(method, seen, n, k) PROVE Reported(Anomalies, seen, n, k)
    OBVIOUS
  <2>1. Detected(method, k, Cur, snap) # {}
    BY <1>2 DEF Notable
  <2>2. cooldown[k] # Never /\ now - cooldown[k] < AlertCooldown
    BY <2>1 DEF Suppressed, Within
  <2>3. PICK j \in DOMAIN Anomalies : Anomalies[j].kind = k /\ Anomalies[j].at = cooldown[k]
    BY <1>5, <2>2 DEF Begun
  <2>4. Anomalies[j].of \in 1..n
    BY <1>5, <2>3 DEF Judged, Sound
  <2>5. seen[n].at <= now /\ seen[n].at \in Nat /\ now \in Nat /\ cooldown[k] \in 0..now
    BY <1>2, <1>5, <2>2 DEF Types, Entry
  <2>6. seen[n].at - Anomalies[j].at < AlertCooldown
    <3>1. Anomalies[j].at \in Nat /\ Anomalies[j].at = cooldown[k] /\ AlertCooldown \in Nat
      BY <2>3, <2>5, SettingsAre
    <3>2. now - Anomalies[j].at < AlertCooldown
      BY <2>2, <3>1
    <3> QED BY <2>5, <3>1, <3>2
  <2>7. Anomalies[j].of = n \/ Anomalies[j].of < n
    BY <1>2, <2>4
  <2> QED BY <2>3, <2>6, <2>7 DEF Reported
<1>8. Complete(method, Anomalies, seen, Turn')
  <2> SUFFICES ASSUME NEW i \in 1..n, NEW j \in Kind, i < n \/ Place(j) < Turn',
                      Notable(method, seen, i, j)
               PROVE  Reported(Anomalies, seen, i, j)
    BY DEF Complete
  <2>1. CASE i < n \/ Place(j) < Place(k)
    BY <1>4, <1>5, <2>1 DEF Complete
  <2>2. CASE i = n /\ j = k
    BY <1>7, <2>2
  <2>3. i < n \/ i = n
    BY <1>2
  <2> QED BY <1>3, <2>1, <2>2, <2>3
<1> QED BY <1>1, <1>4, <1>5, <1>6, <1>8 DEF Account

\* A rule that detects something reports it.
LEMMA EmitAccounts ==
  ASSUME NEW k \in Kind, Types, Account, pc = k,
         NEW h \in Detected(method, k, Cur, snap), Emit(k, h)
  PROVE  Account'
<1> DEFINE n == Len(seen)
           a == [kind |-> k, host |-> h, at |-> now, of |-> n]
           p == Len(out) + 1
<1>1. /\ cooldown' = [cooldown EXCEPT ![k] = now] /\ pending' = a /\ pc' = "send"
      /\ UNCHANGED <<now, method, win, snap, out, seen>>
  BY DEF Emit
<1>2. /\ n \in Nat \ {0} /\ n \in 1..n /\ seen[n] \in Entry /\ Cur = seen[n].b
      /\ snap = Base(seen, n) /\ win = Base(seen, n) /\ Len(Base(seen, n)) >= MinBaselineSamples
  BY AtHand
<1>3. h \in Named
  BY DetectsHost
<1>4. a \in Anomaly /\ a.kind = k /\ a.at = now /\ a.of = n /\ a.host = h
  BY <1>2, <1>3 DEF Types, Anomaly
<1> HIDE DEF a
<1>5. pending = None /\ out \in Seq(Anomaly) /\ pending' # None
  <2>1. pending = None /\ out \in Seq(Anomaly)
    BY DEF Types, Kind
  <2>2. None.kind \notin Kind
    BY DEF None, Kind
  <2> QED BY <1>1, <1>4, <2>1, <2>2
<1>6. Anomalies = out /\ Anomalies' = Append(out, a)
  BY <1>1, <1>5 DEF Anomalies
<1>7. /\ Len(out) \in Nat /\ DOMAIN out = 1..Len(out) /\ DOMAIN Anomalies' = 1..p /\ p \in 1..p
      /\ \A i \in DOMAIN out : i \in 1..p /\ Anomalies'[i] = out[i]
      /\ Anomalies'[p] = a
      /\ \A i \in 1..p : i \in DOMAIN out \/ i = p
  BY <1>4, <1>5, <1>6
<1>8. /\ \A i \in 1..n : seen[i].at <= now
      /\ Windowed
      /\ Judged(method, Anomalies, seen) /\ Begun(cooldown, Anomalies)
      /\ Complete(method, Anomalies, seen, Turn)
  BY DEF Account
<1>9. Windowed'
  <2>1. snap = win /\ Len(win) >= MinBaselineSamples /\ win = Base(seen, Len(seen))
    BY <1>2
  <2> QED BY <1>1, <2>1 DEF Windowed, Kind
<1>10. Judged(method, Anomalies', seen)
  <2>1. Sound(method, a, seen)
    BY <1>2, <1>4 DEF Sound
  <2>2. \A i \in DOMAIN out : Sound(method, out[i], seen)
    BY <1>6, <1>8 DEF Judged
  <2>3. \A i \in 1..p : Sound(method, Anomalies'[i], seen)
    BY <1>7, <2>1, <2>2
  <2> QED BY <1>7, <2>3 DEF Judged
<1>11. Begun(cooldown', Anomalies')
  <2> SUFFICES ASSUME NEW j \in Kind, cooldown'[j] # Never
               PROVE  \E i \in DOMAIN Anomalies' : Anomalies'[i].kind = j /\ Anomalies'[i].at = cooldown'[j]
    BY DEF Begun
  <2>1. cooldown \in [Kind -> {Never} \cup 0..now]
    BY DEF Types
  <2>2. CASE j = k
    <3>1. cooldown'[j] = now
      BY <1>1, <2>1, <2>2
    <3> QED BY <1>4, <1>7, <2>2, <3>1
  <2>3. CASE j # k
    <3>1. cooldown'[j] = cooldown[j]
      BY <1>1, <2>1, <2>3
    <3>2. PICK i \in DOMAIN out : out[i].kind = j /\ out[i].at = cooldown[j]
      BY <1>6, <1>8, <3>1 DEF Begun
    <3> QED BY <1>7, <3>1, <3>2
  <2> QED BY <2>2, <2>3
<1>12. Turn = Place(k) /\ Turn' = Place(k) + 1
  BY <1>1, <1>4 DEF Turn, Kind
<1>13. Complete(method, Anomalies', seen, Turn')
  <2> SUFFICES ASSUME NEW i \in 1..n, NEW j \in Kind, i < n \/ Place(j) < Turn',
                      Notable(method, seen, i, j)
               PROVE  Reported(Anomalies', seen, i, j)
    BY DEF Complete
  <2>1. CASE i < n \/ Place(j) < Place(k)
    <3>1. Reported(out, seen, i, j)
      BY <1>6, <1>8, <1>12, <2>1 DEF Complete
    <3>2. Reported(out, seen, i, j) => Reported(Append(out, a), seen, i, j)
      BY <1>4, <1>5, ReportedStays
    <3> QED BY <1>6, <3>1, <3>2
  <2>2. CASE i = n /\ j = k
    <3>1. Anomalies'[p].kind = j /\ Anomalies'[p].of = i /\ p \in DOMAIN Anomalies'
      BY <1>4, <1>7, <2>2
    <3> QED BY <3>1 DEF Reported
  <2>3. i < n \/ i = n
    BY <1>2
  <2>4. Place(j) < Place(k) + 1 => Place(j) < Place(k) \/ j = k
    <3>1. Place(j) \in 1..5 /\ Place(k) \in 1..5 /\ Kinds[Place(j)] = j /\ Kinds[Place(k)] = k
      BY PlaceIs
    <3> QED BY <3>1
  <2> QED BY <1>12, <2>1, <2>2, <2>3, <2>4
<1> QED BY <1>1, <1>8, <1>9, <1>10, <1>11, <1>13 DEF Account

\* Delivering an anomaly changes nothing about what was reported.
LEMMA SentAccounts == ASSUME Types, Account, Sent PROVE Account'
<1>1. /\ pc = "send" /\ out' = Append(out, pending) /\ pending' = None
      /\ pc' = After(pending.kind)
      /\ UNCHANGED <<now, method, win, snap, cooldown, seen>>
  BY DEF Sent
<1>2. pending \in Anomaly /\ pending.kind \in Kind
  BY <1>1 DEF Types, Anomaly
<1>3. pending # None
  BY <1>2 DEF None, Kind
<1>4. Anomalies' = Anomalies
  BY <1>1, <1>3 DEF Anomalies
<1>5. Turn' = Place(pending.kind) + 1 /\ pc' \in Kind \cup {"push"}
  BY <1>1, <1>2, NextTurn
<1>6. Turn' = Turn
  BY <1>1, <1>5 DEF Turn, Kind
<1>7. Windowed'
  BY <1>1, <1>5 DEF Account, Windowed, Kind
<1> QED BY <1>1, <1>4, <1>6, <1>7 DEF Account

\* Every step keeps the account.
LEMMA AccountStays == Types /\ Account /\ [Next]_vars /\ Types' => Account'
<1> SUFFICES ASSUME Types, Account, [Next]_vars, Types' PROVE Account'
  OBVIOUS
<1>0. now \in Nat /\ now' \in Nat
  BY DEF Types
<1>1. CASE Pass \/ Return \/ Finished \/ UNCHANGED vars
  <2>1. /\ now' >= now /\ UNCHANGED <<method, win, snap, cooldown, pending, out, seen>>
        /\ pc' = pc \/ (pc = "recv" /\ pc' = "done")
    BY <1>0, <1>1 DEF Pass, Return, Finished, vars
  <2> QED BY <1>0, <2>1, StillAccounts
<1>2. CASE \E b \in Buckets : Receive(b)
  BY <1>2, ReceiveAccounts
<1>3. CASE \E k \in ToSet(Kinds) : Check(k)
  <2>1. PICK k \in Kind : Check(k)
    BY <1>3, KindsListed
  <2>2. CASE Suppressed(k) \/ Detected(method, k, Cur, snap) = {}
    BY <2>1, <2>2, QuietAccounts
  <2>3. CASE ~(Suppressed(k) \/ Detected(method, k, Cur, snap) = {})
    <3>1. pc = k /\ \E h \in Detected(method, k, Cur, snap) : Emit(k, h)
      BY <2>1, <2>3 DEF Check
    <3> QED BY <3>1, EmitAccounts
  <2> QED BY <2>2, <2>3
<1>4. CASE Sent
  BY <1>4, SentAccounts
<1>5. CASE Push
  BY <1>5, PushAccounts
<1> QED BY <1>1, <1>2, <1>3, <1>4, <1>5 DEF Next, Run

\* Every anomaly can be accounted for, and every rule that was checked.
THEOREM AccountInvariance == Spec => [](IInv /\ Account)
<1>1. Init => IInv /\ Account
  BY Initially, AccountStarts
<1>2. (IInv /\ Account) /\ [Next]_vars => (IInv /\ Account)'
  <2> SUFFICES ASSUME IInv, Account, [Next]_vars PROVE IInv' /\ Account'
    OBVIOUS
  <2>1. IInv'
    BY Consecution
  <2> QED BY <2>1, AccountStays DEF IInv
<1> QED BY <1>1, <1>2, PTL DEF Spec

-----------------------------------------------------------------------------
(* What it means for a reader of the alerts. *)

\* An anomaly of the list.
LEMMA AnomalyIs ==
  ASSUME Types
  PROVE  /\ Anomalies \in Seq(Anomaly) /\ DOMAIN Anomalies = 1..Len(Anomalies)
         /\ \A i \in DOMAIN Anomalies : Anomalies[i].kind \in Kind
<1>1. Anomalies \in Seq(Anomaly)
  <2>1. pending # None => pending \in Anomaly
    BY DEF Types
  <2> QED BY <2>1 DEF Anomalies, Types
<1>2. \A i \in DOMAIN Anomalies : Anomalies[i] \in Anomaly
  BY <1>1
<1> QED BY <1>1, <1>2 DEF Anomaly

\* No false alarm, against the table of the README.
THEOREM Truthful == Spec => []NoFalseAlarm
<1>1. IInv /\ Account => NoFalseAlarm
  <2> SUFFICES ASSUME IInv, Account, NEW i \in DOMAIN Anomalies
               PROVE  LET a == Anomalies[i]
                          b == seen[a.of].b
                      IN  /\ a.of > MinBaselineSamples
                          /\ Expected(method, a.kind, b, Before(a.of))
                          /\ a.kind = "host_flood" =>
                               /\ Exceeds(b.byHost[a.host], HostFloodFraction, b.total)
                               /\ \A h \in Hosts : b.byHost[h] <= b.byHost[a.host]
    BY DEF NoFalseAlarm
  <2> DEFINE a == Anomalies[i]
             b == seen[a.of].b
             s == Base(seen, a.of)
  <2>1. Types
    BY DEF IInv
  <2>2. a.kind \in Kind
    BY <2>1, AnomalyIs
  <2>3. a.of \in 1..Len(seen) /\ Len(s) >= MinBaselineSamples /\ a.host \in Detected(method, a.kind, b, s)
        /\ method \in {"ratio", "sigma"}
    BY DEF Account, Judged, Sound
  <2>4. seen \in Seq(Entry) /\ Len(seen) \in Nat /\ a.of \in 1..(Len(seen) + 1) /\ a.of \in Nat
    BY <2>1, <2>3 DEF Types
  <2>5. b \in Buckets
    <3>1. seen[a.of] \in Entry
      BY <2>3, <2>4
    <3> QED BY <3>1 DEF Entry
  <2>6. s \in Seq(Buckets) /\ Len(s) = IF a.of > Capacity THEN Capacity ELSE a.of - 1
    BY <2>4, BaseIs
  <2>7. a.of > MinBaselineSamples /\ s # <<>>
    BY <2>3, <2>4, <2>6, SettingsAre
  <2>8. Before(a.of) = s
    BY DEF Before, Base
  <2> HIDE DEF s, b, a
  <2>9. Expected(method, a.kind, b, s)
    BY <2>2, <2>3, <2>5, <2>6, <2>7, DetectedIsExpected
  <2>10. ASSUME a.kind = "host_flood"
         PROVE  /\ Exceeds(b.byHost[a.host], HostFloodFraction, b.total)
                /\ \A h \in Hosts : b.byHost[h] <= b.byHost[a.host]
    <3>1. Detected(method, a.kind, b, s) = {h \in Hosts : HostFlood(b, h)}
      BY <2>10, Zenon DEF Detected
    <3>2. HostFlood(b, a.host)
      BY <2>3, <3>1
    <3> QED BY <3>2 DEF HostFlood, TopHosts
  <2> QED BY <2>7, <2>8, <2>9, <2>10, Zenon DEF a, b
<1> QED BY <1>1, AccountInvariance, PTL

\* Nothing is missed, by the same table.
THEOREM Thorough == Spec => []NothingMissed
<1>1. IInv /\ Account => NothingMissed
  <2> SUFFICES ASSUME IInv, Account, NEW i \in DOMAIN seen, NEW k \in ToSet(Kinds),
                      Done(i), Len(Before(i)) >= MinBaselineSamples,
                      Expected(method, k, seen[i].b, Before(i))
               PROVE  Reported(Anomalies, seen, i, k)
    BY Zenon DEF NothingMissed, Reported
  <2>1. Types /\ k \in Kind
    BY KindsListed DEF IInv
  <2>2. seen \in Seq(Entry) /\ Len(seen) \in Nat /\ i \in 1..Len(seen) /\ i \in 1..(Len(seen) + 1)
    BY <2>1 DEF Types
  <2>3. Before(i) = Base(seen, i)
    BY DEF Before, Base
  <2>4. Base(seen, i) \in Seq(Buckets) /\ Base(seen, i) # <<>>
    <3>1. Base(seen, i) \in Seq(Buckets)
      BY <2>2, BaseIs
    <3>2. Len(Base(seen, i)) # 0
      BY <2>3, <3>1, SettingsAre
    <3> QED BY <3>1, <3>2
  <2>5. seen[i].b \in Buckets
    <3>1. seen[i] \in Entry
      BY <2>2
    <3> QED BY <3>1 DEF Entry
  <2>6. method \in {"ratio", "sigma"} /\ Complete(method, Anomalies, seen, Turn)
    BY DEF Account
  <2>7. Detected(method, k, seen[i].b, Base(seen, i)) # {}
    <3>1. Expected(method, k, seen[i].b, Base(seen, i))
      BY <2>3
    <3> HIDE DEF Base
    <3> QED BY <2>1, <2>4, <2>5, <2>6, <3>1, DetectedIsExpected
  <2>8. Notable(method, seen, i, k)
    BY <2>3, <2>7 DEF Notable
  <2>9. i < Len(seen) \/ Place(k) < Turn
    <3>1. pc \in {"recv", "push", "done"} => Turn = 6
      BY DEF Turn, Kind
    <3>2. Place(k) \in 1..5
      BY <2>1, PlaceIs
    <3> QED BY <3>1, <3>2 DEF Done
  <2> QED BY <2>1, <2>2, <2>6, <2>8, <2>9 DEF Complete
<1> QED BY <1>1, AccountInvariance, PTL
-----------------------------------------------------------------------------
(* Settings that Validate lets through and that switch rules off, or on for good. *)

\* Every anomaly was found against a window that was warm, and no window is longer
\* than its capacity.
LEMMA AnomalyIsWarm ==
  ASSUME IInv, Account, NEW i \in DOMAIN Anomalies
  PROVE  /\ Anomalies[i].of \in 1..Len(seen)
         /\ Len(Base(seen, Anomalies[i].of)) >= MinBaselineSamples
         /\ Len(Base(seen, Anomalies[i].of)) \in 0..Capacity
<1> DEFINE n == Anomalies[i].of
           s == Base(seen, n)
<1>1. n \in 1..Len(seen) /\ Len(s) >= MinBaselineSamples
  BY DEF Account, Judged, Sound
<1>2. seen \in Seq(Entry) /\ n \in 1..(Len(seen) + 1) /\ Capacity \in Nat
  BY <1>1, AnalyzerAssumption DEF IInv, Types
<1>3. Len(s) = IF n > Capacity THEN Capacity ELSE n - 1
  BY <1>2, BaseIs
<1> HIDE DEF s, n
<1>4. Len(s) \in 0..Capacity
  BY <1>1, <1>2, <1>3
<1> QED BY <1>1, <1>4 DEF s, n

\* analyzer.go:95: if more samples are asked for than the window holds, no rule is
\* ever evaluated, and if the silence threshold is above what it holds, no silence is
\* ever noticed. Neither is an error to Validate.
Muted ==
  /\ MinBaselineSamples > Capacity => Anomalies = <<>>
  /\ SilenceThreshold > Capacity => \A i \in DOMAIN Anomalies : Anomalies[i].kind # "silence"

\* Such settings do mute the analyzer, whatever buckets come and however long it runs.
THEOREM MutedBySettings == Spec => []Muted
<1>1. IInv /\ Account /\ NoFalseAlarm => Muted
  <2> SUFFICES ASSUME IInv, Account, NoFalseAlarm PROVE Muted
    OBVIOUS
  <2>1. {MinBaselineSamples, Capacity, SilenceThreshold} \subseteq Int
    BY AnalyzerAssumption
  <2>2. Anomalies \in Seq(Anomaly) /\ DOMAIN Anomalies = 1..Len(Anomalies)
    BY AnomalyIs DEF IInv
  <2>3. ASSUME MinBaselineSamples > Capacity PROVE Anomalies = <<>>
    <3>1. \A i \in DOMAIN Anomalies : FALSE
      BY <2>1, <2>3, AnomalyIsWarm
    <3>2. Len(Anomalies) \in Nat
      BY <2>2
    <3>3. Len(Anomalies) # 0 => 1 \in 1..Len(Anomalies)
      BY <3>2
    <3>4. Len(Anomalies) = 0
      BY <2>2, <3>1, <3>3, Zenon
    <3> QED BY <2>2, <3>4
  <2>4. ASSUME SilenceThreshold > Capacity, NEW i \in DOMAIN Anomalies
        PROVE  Anomalies[i].kind # "silence"
    <3> DEFINE n == Anomalies[i].of
               s == Before(n)
    <3>1. Expected(method, Anomalies[i].kind, seen[n].b, s)
      BY Zenon DEF NoFalseAlarm
    <3>2. s = Base(seen, n)
      BY DEF Before, Base
    <3>3. Len(s) \in 0..Capacity
      BY <3>2, AnomalyIsWarm
    <3> HIDE DEF s
    <3>4. Anomalies[i].kind = "silence" => Len(s) >= SilenceThreshold
      BY <3>1, Zenon DEF Expected
    <3> QED BY <2>1, <2>4, <3>3, <3>4
  <2> QED BY <2>3, <2>4 DEF Muted
<1> QED BY <1>1, AccountInvariance, Truthful, PTL

\* config.go does not look at the sign of SilenceThreshold: with 0 or less every bucket
\* that has a warm window counts as silence, busy or not.
SilenceForAll ==
  SilenceThreshold <= 0 =>
    \A i \in DOMAIN seen :
      Done(i) /\ Len(Before(i)) >= MinBaselineSamples =>
        \E j \in DOMAIN Anomalies :
          /\ Anomalies[j].kind = "silence"
          /\ \/ Anomalies[j].of = i
             \/ Anomalies[j].of < i /\ seen[i].at - Anomalies[j].at < AlertCooldown

\* And of every one of them silence is reported, but for the cooldown.
THEOREM SilenceWithoutThreshold == Spec => []SilenceForAll
<1>1. IInv /\ NothingMissed => SilenceForAll
  <2> SUFFICES ASSUME IInv, NothingMissed, SilenceThreshold <= 0, NEW i \in DOMAIN seen,
                      Done(i), Len(Before(i)) >= MinBaselineSamples
               PROVE  Reported(Anomalies, seen, i, "silence")
    BY Zenon DEF SilenceForAll, Reported
  <2> DEFINE s == Before(i)
  <2>1. "silence" \in ToSet(Kinds)
    BY KindsListed DEF Kind
  <2>2. seen \in Seq(Entry) /\ i \in 1..(Len(seen) + 1)
    BY DEF IInv, Types
  <2>3. s = Base(seen, i) /\ s \in Seq(Buckets)
    BY <2>2, BaseIs DEF Before, Base
  <2>4. Len(s) \in Nat /\ DOMAIN s = 1..Len(s) /\ SilenceThreshold \in Int
    BY <2>3, AnalyzerAssumption
  <2> HIDE DEF s
  <2>5. Len(s) >= SilenceThreshold /\ \A k \in DOMAIN s : ~(k > Len(s) - SilenceThreshold)
    BY <2>4
  <2>6. Expected(method, "silence", seen[i].b, s)
    BY <2>5, Zenon DEF Expected
  <2> QED BY <2>1, <2>6, Zenon DEF NothingMissed, Reported, s
<1> QED BY <1>1, Invariance, Thorough, PTL
=============================================================================

--------------------------- MODULE AlertersProofs ---------------------------
(***************************************************************************)
(* Theorems about Alerters, for every number of anomalies, every retry     *)
(* budget and every sequence of delays.                                    *)
(***************************************************************************)
EXTENDS Alerters, TLAPS

Error == {"nil", "error"}
InLoop == {"head", "backoff", "do", "sent"}

Types ==
  /\ ctx \in BOOLEAN
  /\ cur \in 0..MaxAnomalies
  /\ pc \in [Alerter \cup {"loop"} -> {"recv", "wait", "idle", "send"} \cup InLoop]
  /\ attempt \in 0..MaxRetries
  /\ lastErr \in Error
  /\ errs \in [Alerter -> Error]
  /\ lines \in [Writers -> Seq(Anomaly)]
  /\ posted \in [Anomaly -> Nat]
  /\ accepted \in [Anomaly -> Nat]
  /\ blurred \in [Anomaly -> Nat]
  /\ verdict \in [Anomaly -> Outcomes \cup {"none"}]
  /\ results \in Seq(Error)

\* Where the goroutines can be: alerters only work while the loop waits for them.
Places ==
  /\ pc["loop"] \in {"recv", "wait"}
  /\ \A w \in Writers : pc[w] \in {"idle", "send"}
  /\ pc["webhook"] \in {"idle"} \cup InLoop
  /\ pc["loop"] = "recv" => \A a \in Alerter : pc[a] = "idle"
  /\ pc["loop"] = "wait" => cur > 0
  /\ Len(results) = IF pc["loop"] = "recv" THEN cur ELSE cur - 1

\* The budget of the anomaly under way, by the attempts begun.
Budget ==
  /\ \A n \in Anomaly : posted[n] <= MaxRetries
  /\ \A n \in Anomaly : n > cur => posted[n] = 0
  /\ pc["webhook"] \in {"head", "backoff", "do"} => posted[cur] <= attempt
  /\ pc["webhook"] \in {"backoff", "do", "sent"} => attempt < MaxRetries
  /\ pc["webhook"] = "sent" => posted[cur] <= attempt + 1

\* The retry loop goes on only while every request the receiver took was blurred.
Taken ==
  /\ \A n \in Anomaly : accepted[n] <= blurred[n] + 1
  /\ \A n \in Anomaly : n > cur => accepted[n] = 0
  /\ pc["webhook"] \in InLoop => accepted[cur] <= blurred[cur]

\* A nil of the webhook is that of an answer, unless no attempt was made.
HookNil ==
  /\ pc["webhook"] = "head" /\ attempt > 0 => lastErr = "error"
  /\ MaxRetries > 0 /\ pc["loop"] = "wait" /\ pc["webhook"] = "idle" /\ errs["webhook"] = "nil"
       => accepted[cur] > 0 \/ verdict[cur] = "redirected"

\* What each writer has written: in order, and the current anomaly if it said so.
Written ==
  \A w \in Writers :
    /\ \A i \in DOMAIN lines[w] : lines[w][i] <= cur
    /\ pc[w] = "send" => \A i \in DOMAIN lines[w] : lines[w][i] < cur
    /\ \A i, j \in DOMAIN lines[w] : i < j => lines[w][i] < lines[w][j]
    /\ pc["loop"] = "wait" /\ pc[w] = "idle" /\ errs[w] = "nil" => cur \in ToSet(lines[w])

\* What has been returned for earlier anomalies.
Returned ==
  \A n \in DOMAIN results : results[n] = "nil" =>
    /\ MaxRetries > 0 => accepted[n] > 0 \/ verdict[n] = "redirected"
    /\ \A w \in Writers : n \in ToSet(lines[w])

\* The inductive invariant.
IInv == Types /\ Places /\ Budget /\ Taken /\ HookNil /\ Written /\ Returned

-----------------------------------------------------------------------------

\* Nothing has been sent at the start.
LEMMA Initially == Init => IInv
<1> SUFFICES ASSUME Init PROVE IInv
  OBVIOUS
<1> USE AlertersAssumption DEF Init, Alerter, Writers, Anomaly, Error, InLoop
<1>1. Types
  <2>1. lines \in [Writers -> Seq(Anomaly)] /\ results \in Seq(Error)
    OBVIOUS
  <2>4. verdict \in [Anomaly -> Outcomes \cup {"none"}]
    OBVIOUS
  <2>2. pc \in [Alerter \cup {"loop"} -> {"recv", "wait", "idle", "send"} \cup InLoop]
    OBVIOUS
  <2>3. errs \in [Alerter -> Error] /\ cur \in 0..MaxAnomalies /\ attempt \in 0..MaxRetries
    OBVIOUS
  <2> QED BY <2>1, <2>2, <2>3, <2>4 DEF Types
<1>2. Places
  BY DEF Places
<1>3. Budget /\ Taken /\ HookNil
  BY DEF Budget, Taken, HookNil
<1>4. Written /\ Returned
  BY DEF Written, Returned
<1> QED BY <1>1, <1>2, <1>3, <1>4 DEF IInv

\* What a writer has written are numbers of anomalies.
LEMMA EntriesAreAnomalies ==
  ASSUME Types
  PROVE  \A w \in Writers : \A i \in DOMAIN lines[w] : lines[w][i] \in Anomaly
<1> SUFFICES ASSUME NEW w \in Writers, NEW i \in DOMAIN lines[w] PROVE lines[w][i] \in Anomaly
  OBVIOUS
<1>1. lines[w] \in Seq(Anomaly)
  BY DEF Types
<1> QED BY <1>1

\* A cancel by itself changes nothing that the invariant speaks of.
LEMMA CancelKeeps == IInv /\ Cancel => IInv'
BY DEF IInv, Cancel, hookVars, Types, Places, Budget, Taken, HookNil, Written, Returned

\* A new anomaly: the budget is fresh, since nothing was posted for it before.
LEMMA ForkKeeps == IInv /\ Fork => IInv'
<1> SUFFICES ASSUME IInv, Fork PROVE IInv'
  OBVIOUS
<1> USE AlertersAssumption DEF Alerter, Writers, Anomaly, Error, InLoop
<1>1. Types /\ Places
  BY DEF IInv
<1>2. /\ cur' = cur + 1 /\ cur' \in Anomaly
      /\ pc'["loop"] = "wait" /\ pc'["webhook"] = "head" /\ \A w \in Writers : pc'[w] = "send"
      /\ pc' \in [Alerter \cup {"loop"} -> {"recv", "wait", "idle", "send"} \cup InLoop]
  BY <1>1 DEF Fork, Types
<1>3. Types'
  BY <1>1, <1>2 DEF Fork, Types
<1>4. Places'
  <2>1. Len(results') = cur /\ cur \in Nat
    BY <1>1 DEF Fork, Places, Types
  <2> QED BY <1>2, <2>1 DEF Places
<1>5. Budget'
  <2>1. posted[cur'] = 0 /\ attempt' = 0
    BY <1>1, <1>2 DEF IInv, Fork, Budget, Types
  <2> QED BY <1>1, <1>2, <2>1 DEF IInv, Fork, Budget, Types
<1>6. Taken'
  <2>1. accepted' = accepted /\ blurred' = blurred
    BY DEF Fork
  <2>2. cur \in Int /\ cur' = cur + 1 /\ cur' \in Anomaly
    BY <1>1, <1>2 DEF Types
  <2>3. /\ \A n \in Anomaly : accepted[n] <= blurred[n] + 1
        /\ \A n \in Anomaly : n > cur => accepted[n] = 0
    BY DEF IInv, Taken
  <2>4. accepted[cur'] = 0 /\ \A n \in Anomaly : n > cur' => accepted[n] = 0
    BY <2>2, <2>3
  <2>5. blurred[cur'] \in Nat
    BY <1>1, <2>2 DEF Types
  <2>6. accepted[cur'] <= blurred[cur']
    BY <2>4, <2>5
  <2> QED BY <2>1, <2>3, <2>4, <2>6 DEF Taken
<1>7. HookNil'
  BY <1>2 DEF Fork, HookNil
<1>8. Written'
  <2>1. ASSUME NEW w \in Writers, NEW i \in DOMAIN lines[w]
        PROVE  lines[w][i] < cur' /\ lines[w][i] <= cur'
    <3>1. lines[w][i] \in Int /\ cur \in Int
      BY <1>1, EntriesAreAnomalies DEF Types
    <3>2. lines[w][i] <= cur
      BY DEF IInv, Written
    <3> QED BY <1>2, <3>1, <3>2
  <2>2. \A w \in Writers : \A i, j \in DOMAIN lines[w] : i < j => lines[w][i] < lines[w][j]
    BY DEF IInv, Written
  <2>3. lines' = lines /\ \A w \in Writers : pc'[w] # "idle"
    BY <1>2 DEF Fork
  <2> QED BY <2>1, <2>2, <2>3 DEF Written
<1>9. Returned'
  BY <1>1 DEF IInv, Fork, Returned
<1> QED BY <1>3, <1>4, <1>5, <1>6, <1>7, <1>8, <1>9 DEF IInv

\* All alerters are through; the join is nil only if each of them said nil.
LEMMA JoinKeeps == IInv /\ Join => IInv'
<1> SUFFICES ASSUME IInv, Join PROVE IInv'
  OBVIOUS
<1> USE AlertersAssumption DEF Alerter, Writers, Anomaly, Error, InLoop
<1>1. Types /\ Places
  BY DEF IInv
<1>2. /\ pc'["loop"] = "recv" /\ \A a \in Alerter : pc[a] = "idle" /\ pc'[a] = "idle"
      /\ pc' \in [Alerter \cup {"loop"} -> {"recv", "wait", "idle", "send"} \cup InLoop]
  BY <1>1 DEF Join, Types
<1>3. /\ results' = Append(results, Joined) /\ Joined \in Error
      /\ Len(results) = cur - 1 /\ cur \in Anomaly
  BY <1>1 DEF Join, Joined, Types, Places
<1>4. Types'
  <2>1. results' \in Seq(Error)
    BY <1>1, <1>3 DEF Types
  <2> QED BY <1>1, <1>2, <2>1 DEF Join, hookVars, Types
<1>5. Places'
  BY <1>1, <1>2, <1>3 DEF Join, Places, Types
<1>6. Budget' /\ Taken' /\ HookNil'
  BY <1>2 DEF IInv, Join, hookVars, Budget, Taken, HookNil
<1>7. Written'
  BY <1>1, <1>2 DEF IInv, Join, Written
<1>8. Returned'
  <2> SUFFICES ASSUME NEW n \in DOMAIN results', results'[n] = "nil"
               PROVE  /\ MaxRetries > 0 => accepted[n] > 0 \/ verdict[n] = "redirected"
                      /\ \A w \in Writers : n \in ToSet(lines[w])
    BY DEF Returned, Join, hookVars
  <2>1. CASE n \in DOMAIN results
    <3>1. results[n] = "nil"
      BY <1>1, <1>3, <2>1 DEF Types
    <3> QED BY <2>1, <3>1 DEF IInv, Returned
  <2>2. CASE n = cur
    <3>1. \A a \in Alerter : errs[a] = "nil"
      <4>1. results \in Seq(Error) /\ n = Len(results) + 1
        BY <1>1, <1>3, <2>2 DEF Types
      <4>2. results'[n] = Joined
        BY <1>3, <4>1
      <4> QED BY <4>2 DEF Joined
    <3> QED BY <1>2, <2>2, <3>1 DEF IInv, Join, HookNil, Written
  <2> QED BY <1>1, <1>3, <2>1, <2>2 DEF Types
<1> QED BY <1>4, <1>5, <1>6, <1>7, <1>8 DEF IInv

\* A writer writes the current anomaly, which is later than all it has written.
LEMMA WriteKeeps == ASSUME NEW v \in Writers PROVE IInv /\ WriteLine(v) => IInv'
<1> SUFFICES ASSUME IInv, WriteLine(v) PROVE IInv'
  OBVIOUS
<1> USE AlertersAssumption DEF Alerter, Writers, Anomaly, Error, InLoop
<1>1. Types /\ Places
  BY DEF IInv
<1>2. /\ pc[v] = "send" /\ pc' = [pc EXCEPT ![v] = "idle"]
      /\ pc["loop"] = "wait" /\ cur \in Anomaly
  <2>1. pc[v] = "send" /\ pc' = [pc EXCEPT ![v] = "idle"]
    BY DEF WriteLine, Return
  <2>2. pc["loop"] = "wait"
    BY <1>1, <2>1 DEF Places
  <2> QED BY <1>1, <2>1, <2>2 DEF Types, Places
<1>3. PICK e \in Error :
        /\ errs' = [errs EXCEPT ![v] = e]
        /\ lines' = IF e = "nil" THEN [lines EXCEPT ![v] = Append(@, cur)] ELSE lines
  BY DEF WriteLine, Return
<1>4. Types'
  <2>1. lines' \in [Writers -> Seq(Anomaly)]
    <3>1. Append(lines[v], cur) \in Seq(Anomaly)
      BY <1>1, <1>2 DEF Types
    <3> QED BY <1>1, <1>3, <3>1 DEF Types
  <2>2. errs' \in [Alerter -> Error]
    BY <1>1, <1>3 DEF Types
  <2>3. pc' \in [Alerter \cup {"loop"} -> {"recv", "wait", "idle", "send"} \cup InLoop]
    BY <1>1, <1>2 DEF Types
  <2> QED BY <1>1, <2>1, <2>2, <2>3 DEF WriteLine, hookVars, Types
<1>5. Places'
  BY <1>1, <1>2 DEF WriteLine, Places, Types
<1>6. Budget' /\ Taken'
  BY <1>1, <1>2 DEF IInv, WriteLine, hookVars, Budget, Taken, Types
<1>7. HookNil'
  BY <1>1, <1>2, <1>3 DEF IInv, WriteLine, hookVars, HookNil, Types
<1>8. \A w \in Writers : ToSet(lines[w]) \subseteq ToSet(lines'[w])
  <2> SUFFICES ASSUME NEW w \in Writers, NEW i \in DOMAIN lines[w]
               PROVE  lines[w][i] \in ToSet(lines'[w])
    BY DEF ToSet
  <2>1. CASE lines'[w] = lines[w]
    BY <2>1 DEF ToSet
  <2>2. CASE lines'[w] = Append(lines[w], cur)
    <3>1. lines[w] \in Seq(Anomaly)
      BY <1>1 DEF Types
    <3>2. i \in DOMAIN lines'[w] /\ lines'[w][i] = lines[w][i]
      BY <2>2, <3>1
    <3> QED BY <3>2 DEF ToSet
  <2> QED BY <1>1, <1>3, <2>1, <2>2 DEF Types
<1>9. Written'
  <2> SUFFICES ASSUME NEW w \in Writers
               PROVE  /\ \A i \in DOMAIN lines'[w] : lines'[w][i] <= cur
                      /\ pc'[w] = "send" => \A i \in DOMAIN lines'[w] : lines'[w][i] < cur
                      /\ \A i, j \in DOMAIN lines'[w] : i < j => lines'[w][i] < lines'[w][j]
                      /\ pc'["loop"] = "wait" /\ pc'[w] = "idle" /\ errs'[w] = "nil"
                           => cur \in ToSet(lines'[w])
    BY DEF Written, WriteLine
  <2>1. CASE w # v
    BY <1>1, <1>2, <1>3, <2>1 DEF IInv, Written, Types
  <2>2. CASE w = v /\ e = "nil"
    <3>1. lines'[v] = Append(lines[v], cur) /\ lines[v] \in Seq(Anomaly)
      BY <1>1, <1>3, <2>2 DEF Types
    <3>2. pc'[v] = "idle"
      BY <1>1, <1>2 DEF Types
    <3>3. \A i \in DOMAIN lines[v] : lines[v][i] < cur
      BY <1>2 DEF IInv, Written
    <3>4. \A i, j \in DOMAIN lines[v] : i < j => lines[v][i] < lines[v][j]
      BY DEF IInv, Written
    <3>5. /\ DOMAIN lines'[v] = 1..(Len(lines[v]) + 1) /\ DOMAIN lines[v] = 1..Len(lines[v])
          /\ Len(lines[v]) \in Nat
          /\ lines'[v][Len(lines[v]) + 1] = cur
          /\ \A i \in DOMAIN lines[v] : lines'[v][i] = lines[v][i]
      BY <3>1
    <3>6. \A i, j \in DOMAIN lines'[v] : i < j => lines'[v][i] < lines'[v][j]
      <4> SUFFICES ASSUME NEW i \in DOMAIN lines'[v], NEW j \in DOMAIN lines'[v], i < j
                   PROVE  lines'[v][i] < lines'[v][j]
        OBVIOUS
      <4>1. i \in DOMAIN lines[v]
        BY <3>5
      <4>2. CASE j \in DOMAIN lines[v]
        BY <3>4, <3>5, <4>1, <4>2
      <4>3. CASE j = Len(lines[v]) + 1
        BY <3>3, <3>5, <4>1, <4>3
      <4> QED BY <3>5, <4>2, <4>3
    <3>7. \A i \in DOMAIN lines'[v] : lines'[v][i] <= cur
      <4>1. \A i \in DOMAIN lines[v] : lines'[v][i] <= cur
        <5>1. \A i \in DOMAIN lines[v] : lines[v][i] \in Anomaly
          BY <1>1, EntriesAreAnomalies, Zenon
        <5>2. cur \in Nat /\ \A i \in DOMAIN lines[v] : lines[v][i] \in Nat
          BY <1>2, <5>1
        <5>3. \A i \in DOMAIN lines[v] : lines[v][i] <= cur
          BY <3>3, <5>2
        <5> QED BY <3>5, <5>3
      <4>2. cur <= cur
        BY <1>2
      <4> QED BY <3>5, <4>1, <4>2
    <3>8. cur \in ToSet(lines'[v])
      <4>1. Len(lines[v]) + 1 \in DOMAIN lines'[v]
        BY <3>5
      <4> QED BY <3>5, <4>1, Zenon DEF ToSet
    <3> QED BY <2>2, <3>2, <3>6, <3>7, <3>8
  <2>3. CASE w = v /\ e = "error"
    BY <1>1, <1>2, <1>3, <2>3 DEF IInv, Written, Types
  <2> QED BY <2>1, <2>2, <2>3
<1>10. Returned'
  BY <1>8 DEF IInv, Returned, WriteLine, hookVars
<1> QED BY <1>4, <1>5, <1>6, <1>7, <1>9, <1>10 DEF IInv

\* The webhook leaves the writers, the loop and what was returned alone.
LEMMA WebhookLeaves ==
  ASSUME Types, Places, Written, Types',
         UNCHANGED <<cur, lines, results>>,
         \A a \in Writers \cup {"loop"} : pc'[a] = pc[a],
         \A w \in Writers : errs'[w] = errs[w],
         pc["webhook"] \in InLoop, pc'["webhook"] \in {"idle"} \cup InLoop
  PROVE  Places' /\ Written'
<1> USE DEF Alerter, Writers, InLoop
<1>1. Places'
  BY DEF Places
<1>2. Written'
  BY DEF Written
<1> QED BY <1>1, <1>2

\* Each of its steps keeps budget and bookkeeping.
LEMMA WebhookKeeps == IInv /\ Webhook => IInv'
<1> SUFFICES ASSUME IInv, Webhook PROVE IInv'
  OBVIOUS
<1> USE AlertersAssumption DEF Alerter, Writers, Anomaly, Error, InLoop
<1>1. Types /\ Places
  BY DEF IInv
<1>2. pc["webhook"] \in InLoop /\ pc["loop"] = "wait" /\ cur \in Anomaly
  <2>1. pc["webhook"] \in InLoop
    BY DEF Webhook, LoopHead, Backoff, Do, Answered
  <2>2. pc["loop"] = "wait"
    BY <1>1, <2>1 DEF Places
  <2> QED BY <1>1, <2>1, <2>2 DEF Places, Types
<1>3. CASE LoopHead
  <2>1. Types' /\ UNCHANGED <<cur, lines, results>>
    BY <1>1, <1>3 DEF LoopHead, Return, hookVars, Types
  <2>2. /\ \A a \in Writers \cup {"loop"} : pc'[a] = pc[a]
        /\ \A w \in Writers : errs'[w] = errs[w]
        /\ pc'["webhook"] \in {"idle", "do", "backoff"}
    BY <1>1, <1>3 DEF LoopHead, Return, Types
  <2>3. Budget' /\ Taken'
    BY <1>1, <1>2, <1>3 DEF IInv, LoopHead, Return, hookVars, Budget, Taken, Types
  <2>4. HookNil'
    BY <1>1, <1>2, <1>3 DEF IInv, LoopHead, Return, hookVars, HookNil, Types
  <2>5. Returned'
    BY <1>3 DEF IInv, LoopHead, hookVars, Returned
  <2> QED BY <1>1, <1>2, <2>1, <2>2, <2>3, <2>4, <2>5, WebhookLeaves DEF IInv
<1>4. CASE Backoff
  <2>1. Types' /\ UNCHANGED <<cur, lines, results>>
    BY <1>1, <1>4 DEF Backoff, Return, hookVars, Types
  <2>2. /\ \A a \in Writers \cup {"loop"} : pc'[a] = pc[a]
        /\ \A w \in Writers : errs'[w] = errs[w]
        /\ pc'["webhook"] \in {"idle", "do"}
    BY <1>1, <1>4 DEF Backoff, Return, Types
  <2>3. Budget' /\ Taken'
    BY <1>1, <1>2, <1>4 DEF IInv, Backoff, Return, hookVars, Budget, Taken, Types
  <2>4. HookNil'
    BY <1>1, <1>2, <1>4 DEF IInv, Backoff, Return, hookVars, HookNil, Types
  <2>5. Returned'
    BY <1>4 DEF IInv, Backoff, hookVars, Returned
  <2> QED BY <1>1, <1>2, <2>1, <2>2, <2>3, <2>4, <2>5, WebhookLeaves DEF IInv
<1>5. CASE Do
  <2>1. Types' /\ UNCHANGED <<cur, lines, results>>
    <3>1. posted' \in [Anomaly -> Nat]
      <4>1. posted' = posted \/ posted' = [posted EXCEPT ![cur] = posted[cur] + 1]
        BY <1>5 DEF Do
      <4>2. posted[cur] + 1 \in Nat
        BY <1>1, <1>2 DEF Types
      <4> QED BY <1>1, <4>1, <4>2 DEF Types
    <3>2. /\ pc' \in [Alerter \cup {"loop"} -> {"recv", "wait", "idle", "send"} \cup InLoop]
          /\ errs' \in [Alerter -> Error]
      BY <1>1, <1>5 DEF Do, Return, Types
    <3> QED BY <1>1, <1>5, <3>1, <3>2 DEF Do, Types
  <2>2. /\ \A a \in Writers \cup {"loop"} : pc'[a] = pc[a]
        /\ \A w \in Writers : errs'[w] = errs[w]
        /\ pc'["webhook"] \in {"idle", "sent"}
    BY <1>1, <1>5 DEF Do, Return, Types
  <2>3. Budget'
    <3>1. posted[cur] <= attempt /\ attempt < MaxRetries /\ attempt \in Nat /\ posted[cur] \in Nat
      BY <1>1, <1>2, <1>5 DEF IInv, Do, Budget, Types
    <3>2. CASE posted' = posted
      <4>1. pc'["webhook"] = "idle"
        BY <1>1, <1>2, <1>5, <3>1, <3>2 DEF Do, Return, Types
      <4> QED BY <2>1, <3>2, <4>1 DEF IInv, Budget
    <3>3. CASE posted' = [posted EXCEPT ![cur] = @ + 1] /\ pc'["webhook"] = "sent"
      <4>1. /\ posted'[cur] = posted[cur] + 1
            /\ \A n \in Anomaly : n # cur => posted'[n] = posted[n]
        BY <1>1, <1>2, <3>3 DEF Types
      <4>2. UNCHANGED <<cur, attempt>>
        BY <1>5 DEF Do
      <4> QED BY <1>2, <3>1, <3>3, <4>1, <4>2 DEF IInv, Budget
    <3> QED BY <1>1, <1>5, <3>2, <3>3 DEF Do, Types
  <2>4. Taken' /\ HookNil'
    BY <1>1, <1>2, <1>5 DEF IInv, Do, Return, Taken, HookNil, Types
  <2>5. Returned'
    BY <1>5 DEF IInv, Do, Returned
  <2> QED BY <1>1, <1>2, <2>1, <2>2, <2>3, <2>4, <2>5, WebhookLeaves DEF IInv
<1>6. ASSUME NEW outcome \in Outcomes, Answered(outcome)
      PROVE  IInv'
  <2>1. PICK taken \in BOOLEAN :
          /\ outcome = "2xx" => taken
          /\ accepted' = [accepted EXCEPT ![cur] = IF taken THEN @ + 1 ELSE @]
          /\ blurred' = [blurred EXCEPT ![cur] = IF taken /\ Blurs(outcome) THEN @ + 1 ELSE @]
    BY <1>6 DEF Answered
  <2>2. Types' /\ UNCHANGED <<cur, lines, results>>
    <3>1. accepted' \in [Anomaly -> Nat] /\ blurred' \in [Anomaly -> Nat]
      <4>1. accepted[cur] \in Nat /\ blurred[cur] \in Nat
        BY <1>1, <1>2 DEF Types
      <4> DEFINE a == IF taken THEN accepted[cur] + 1 ELSE accepted[cur]
                 b == IF taken /\ Blurs(outcome) THEN blurred[cur] + 1 ELSE blurred[cur]
      <4>2. a \in Nat /\ b \in Nat
        BY <4>1
      <4>3. accepted' = [accepted EXCEPT ![cur] = a] /\ blurred' = [blurred EXCEPT ![cur] = b]
        BY <2>1
      <4> HIDE DEF a, b
      <4> QED BY <1>1, <4>2, <4>3 DEF Types
    <3>2. /\ pc' \in [Alerter \cup {"loop"} -> {"recv", "wait", "idle", "send"} \cup InLoop]
          /\ errs' \in [Alerter -> Error] /\ lastErr' \in Error
      <4>1. pc' = [pc EXCEPT !["webhook"] = "idle"] \/ pc' = [pc EXCEPT !["webhook"] = "head"]
        BY <1>6 DEF Answered, Return
      <4>2. \/ errs' = errs
            \/ \E err \in Error : errs' = [errs EXCEPT !["webhook"] = err]
        BY <1>6 DEF Answered, Return, Error
      <4>3. lastErr' = lastErr \/ lastErr' = "error"
        BY <1>6 DEF Answered
      <4>4. pc' \in [Alerter \cup {"loop"} -> {"recv", "wait", "idle", "send"} \cup InLoop]
        BY <1>1, <4>1 DEF Types, InLoop
      <4>5. errs' \in [Alerter -> Error]
        BY <1>1, <4>2 DEF Types
      <4> QED BY <1>1, <4>3, <4>4, <4>5 DEF Types, Error
    <3>5. verdict' \in [Anomaly -> Outcomes \cup {"none"}]
      <4>1. verdict' = verdict \/ verdict' = [verdict EXCEPT ![cur] = outcome]
        BY <1>6 DEF Answered
      <4> QED BY <1>1, <4>1 DEF Types
    <3>3. attempt' \in 0..MaxRetries
      <4>1. attempt' = attempt \/ attempt' = attempt + 1
        BY <1>6 DEF Answered
      <4>2. attempt \in Nat /\ attempt < MaxRetries
        BY <1>1, <1>6 DEF IInv, Budget, Answered, Types
      <4> QED BY <4>1, <4>2
    <3>4. UNCHANGED <<ctx, cur, posted, lines, results>>
      BY <1>6 DEF Answered
    <3> QED BY <1>1, <3>1, <3>2, <3>3, <3>4, <3>5 DEF Types
  <2>3. /\ \A a \in Writers \cup {"loop"} : pc'[a] = pc[a]
        /\ \A w \in Writers : errs'[w] = errs[w]
        /\ pc'["webhook"] \in {"idle", "head"}
        /\ pc["webhook"] = "sent"
    <3>1. /\ pc' = [pc EXCEPT !["webhook"] = "idle"] \/ pc' = [pc EXCEPT !["webhook"] = "head"]
          /\ pc["webhook"] = "sent"
      BY <1>6 DEF Answered, Return
    <3>2. errs' = errs \/ \E err : errs' = [errs EXCEPT !["webhook"] = err]
      BY <1>6 DEF Answered, Return
    <3>3. \A w \in Writers : errs'[w] = errs[w]
      BY <1>1, <3>2 DEF Types, Alerter, Writers
    <3>4. /\ \A a \in Writers \cup {"loop"} : pc'[a] = pc[a]
          /\ pc'["webhook"] \in {"idle", "head"}
      BY <1>1, <3>1 DEF Types, Alerter, Writers
    <3> QED BY <3>1, <3>3, <3>4
  <2>4. Budget'
    BY <1>1, <1>2, <1>6, <2>3 DEF IInv, Answered, Return, Budget, Types
  <2>5. /\ \A n \in Anomaly \ {cur} : accepted'[n] = accepted[n] /\ blurred'[n] = blurred[n]
        /\ accepted'[cur] = IF taken THEN accepted[cur] + 1 ELSE accepted[cur]
        /\ blurred'[cur] = IF taken /\ Blurs(outcome) THEN blurred[cur] + 1 ELSE blurred[cur]
        /\ accepted[cur] <= blurred[cur]
    BY <1>1, <1>2, <2>1, <2>3 DEF IInv, Types, Taken
  <2>6. pc'["webhook"] = "head" => outcome \in {"5xx", "network"}
    BY <1>1, <1>6 DEF Answered, Return, Passes, Final, Outcomes, Types
  <2>7. Taken'
    <3>1. \A n \in Anomaly : accepted[n] \in Nat /\ blurred[n] \in Nat
      BY <1>1 DEF Types
    <3>2. accepted'[cur] <= blurred'[cur] + 1
      BY <1>2, <2>5, <3>1
    <3>3. pc'["webhook"] \in InLoop => accepted'[cur] <= blurred'[cur]
      BY <1>2, <2>3, <2>5, <2>6, <3>1 DEF Blurs
    <3> QED BY <1>2, <2>2, <2>5, <3>2, <3>3 DEF IInv, Taken
  <2>8. HookNil'
    <3>1. pc'["webhook"] = "head" => lastErr' = "error"
      BY <1>1, <1>6 DEF Answered, Return, Types
    <3>2. pc'["webhook"] = "idle" /\ errs'["webhook"] = "nil" => Passes(outcome)
      BY <1>1, <1>6 DEF Answered, Return, Types
    <3>3. outcome = "2xx" => accepted'[cur] > 0
      BY <1>1, <1>2, <2>1, <2>5 DEF Types
    <3>4. outcome = "redirected" => verdict'[cur] = "redirected"
      BY <1>1, <1>2, <1>6 DEF Answered, Passes, Types
    <3> QED BY <2>2, <3>1, <3>2, <3>3, <3>4 DEF HookNil, Passes
  <2>9. Returned'
    <3>1. \A n \in DOMAIN results : n \in Anomaly \ {cur}
      <4>1. results \in Seq(Error) /\ Len(results) = cur - 1
        BY <1>1, <1>2 DEF Types, Places
      <4> QED BY <1>2, <4>1
    <3>2. \A n \in Anomaly \ {cur} : verdict'[n] = verdict[n]
      BY <1>1, <1>6 DEF Answered, Types
    <3> QED BY <2>2, <2>5, <3>1, <3>2 DEF IInv, Returned
  <2> QED BY <1>1, <1>2, <2>2, <2>3, <2>4, <2>7, <2>8, <2>9, WebhookLeaves DEF IInv
<1> QED BY <1>3, <1>4, <1>5, <1>6 DEF Webhook

\* Every step keeps the invariant.
LEMMA Consecution == IInv /\ [Next]_vars => IInv'
<1>1. IInv /\ UNCHANGED vars => IInv'
  BY DEF vars, hookVars, IInv, Types, Places, Budget, Taken, HookNil, Written, Returned
<1> QED BY <1>1, CancelKeeps, ForkKeeps, JoinKeeps, WriteKeeps, WebhookKeeps DEF Next, Finished

\* Alert loop, writers and retry loop keep one another's books.
THEOREM Invariance == Spec => []IInv
BY Initially, Consecution, PTL DEF Spec

-----------------------------------------------------------------------------

\* Types, and one result for each Send that has returned.
THEOREM TypeCorrect == Spec => []TypeOK
<1>1. IInv => TypeOK
  <2> SUFFICES ASSUME IInv PROVE TypeOK
    OBVIOUS
  <2>1. \A w \in Writers : ToSet(lines[w]) \subseteq 1..cur
    <3> SUFFICES ASSUME NEW w \in Writers, NEW i \in DOMAIN lines[w] PROVE lines[w][i] \in 1..cur
      BY DEF ToSet
    <3>1. lines[w][i] \in Anomaly /\ lines[w][i] <= cur
      BY DEF IInv, Types, Written
    <3> QED BY <3>1, AlertersAssumption DEF IInv, Types, Anomaly
  <2>2. ToSet(results) \subseteq Error /\ \A a \in Alerter : errs[a] \in Error
    BY DEF IInv, Types, ToSet
  <2> QED BY <2>1, <2>2 DEF IInv, Types, Places, TypeOK, Error
<1> QED BY <1>1, Invariance, PTL

\* With a budget of one attempt or more, a nil of Send means that the line was
\* written by each writer and a request taken by the receiver, or that the exchange
\* ended in a redirect, of which do makes a success.
THEOREM NilDelivered ==
  ASSUME MaxRetries > 0
  PROVE  Spec => []NilMeansDelivered
<1>1. IInv => NilMeansDelivered
  BY DEF IInv, Returned, NilMeansDelivered
<1> QED BY <1>1, Invariance, PTL

\* Alerts are written in order and at most once; a missing one was reported.
THEOREM WritersInOrder == Spec => []WritersKeepUp
<1>1. IInv => WritersKeepUp
  <2> SUFFICES ASSUME IInv, NEW w \in Writers
               PROVE  /\ \A i, j \in DOMAIN lines[w] : i < j => lines[w][i] < lines[w][j]
                      /\ \A n \in DOMAIN results : n \in ToSet(lines[w]) \/ results[n] = "error"
    BY DEF WritersKeepUp
  <2>1. \A i, j \in DOMAIN lines[w] : i < j => lines[w][i] < lines[w][j]
    BY DEF IInv, Written
  <2>2. ASSUME NEW n \in DOMAIN results PROVE n \in ToSet(lines[w]) \/ results[n] = "error"
    <3>1. results[n] \in {"nil", "error"}
      BY DEF IInv, Types, Error
    <3>2. results[n] = "nil" => n \in ToSet(lines[w])
      BY DEF IInv, Returned
    <3> QED BY <3>1, <3>2
  <2> QED BY <2>1, <2>2
<1> QED BY <1>1, Invariance, PTL

\* No anomaly is posted more often than the budget allows, nor taken twice without
\* an answer that left it open.
THEOREM Bounded == Spec => []RetriesBounded
<1>1. IInv => RetriesBounded
  BY DEF IInv, Budget, Taken, RetriesBounded
<1> QED BY <1>1, Invariance, PTL

-----------------------------------------------------------------------------
(* What an error means. *)

\* Why the webhook may give up on anomaly n: never without a budget to use up.
Cause(n) ==
  /\ MaxRetries > 0
  /\ \/ ctx \/ verdict[n] \in {"4xx", "timeout"}
     \/ posted[n] = MaxRetries /\ verdict[n] = "none"

\* Each attempt but the one under way was posted and ended in something to retry.
Spent ==
  /\ pc["webhook"] \in {"head", "backoff", "do"} => posted[cur] = attempt
  /\ pc["webhook"] = "sent" => posted[cur] = attempt + 1
  /\ pc["webhook"] \in InLoop => verdict[cur] = "none"
  /\ \A n \in Anomaly : n > cur => verdict[n] = "none"
  /\ pc["webhook"] = "head" /\ attempt = 0 => lastErr = "nil"

\* An error of the webhook has a cause, one of a writer is a missing line.
ErrorMeans ==
  pc["loop"] = "wait" =>
    /\ pc["webhook"] = "idle" /\ errs["webhook"] = "error" => Cause(cur)
    /\ \A w \in Writers : pc[w] = "idle" /\ errs[w] = "error" => cur \notin ToSet(lines[w])

\* The same of what has been returned.
ReturnedError ==
  \A n \in DOMAIN results : results[n] = "error" =>
    Cause(n) \/ \E w \in Writers : n \notin ToSet(lines[w])

Causes == Spent /\ ErrorMeans /\ ReturnedError

\* The fork, the join and the cancel.
LEMMA LoopKeepsCauses ==
  ASSUME IInv, Causes, IInv', Cancel \/ Fork \/ Join
  PROVE  Causes'
<1> USE AlertersAssumption DEF Alerter, Writers, Anomaly, Error, InLoop
<1>1. Types /\ Places /\ Types' /\ Places'
  BY DEF IInv
<1>2. CASE Cancel
  BY <1>2 DEF Cancel, hookVars, Causes, Spent, ErrorMeans, ReturnedError, Cause
<1>3. CASE Fork
  <2>1. /\ cur' = cur + 1 /\ cur \in Nat /\ cur' \in Anomaly
        /\ pc'["webhook"] = "head" /\ \A w \in Writers : pc'[w] = "send"
    BY <1>1, <1>3 DEF Fork, Types
  <2>2. /\ UNCHANGED <<ctx, posted, verdict, lines, results>>
        /\ attempt' = 0 /\ lastErr' = "nil"
    BY <1>3 DEF Fork
  <2>3. posted[cur'] = 0 /\ verdict[cur'] = "none"
    BY <1>1, <2>1 DEF IInv, Budget, Causes, Spent
  <2>4. Spent'
    BY <2>1, <2>2, <2>3 DEF Causes, Spent
  <2>5. ErrorMeans' /\ ReturnedError'
    BY <2>1, <2>2 DEF Causes, ErrorMeans, ReturnedError, Cause
  <2> QED BY <2>4, <2>5 DEF Causes
<1>4. CASE Join
  <2>1. /\ UNCHANGED <<ctx, cur, hookVars, errs, lines>>
        /\ \A a \in Alerter : pc[a] = "idle" /\ pc'[a] = "idle"
        /\ pc["loop"] = "wait" /\ pc'["loop"] = "recv"
        /\ results' = Append(results, Joined)
    BY <1>1, <1>4 DEF Join, Types
  <2>2. Spent' /\ ErrorMeans'
    BY <2>1 DEF Causes, Spent, ErrorMeans, hookVars
  <2>3. ReturnedError'
    <3> SUFFICES ASSUME NEW n \in DOMAIN results', results'[n] = "error"
                 PROVE  Cause(n) \/ \E w \in Writers : n \notin ToSet(lines[w])
      BY <2>1 DEF ReturnedError, Cause, hookVars
    <3>1. results \in Seq(Error) /\ Len(results) = cur - 1 /\ cur \in Nat
      BY <1>1, <2>1 DEF Types, Places
    <3>2. CASE n \in DOMAIN results
      BY <2>1, <3>1, <3>2 DEF Causes, ReturnedError
    <3>3. CASE n = cur
      <4>1. Joined = "error"
        BY <2>1, <3>1, <3>3
      <4>2. PICK a \in Alerter : errs[a] # "nil"
        BY <4>1 DEF Joined
      <4>3. errs[a] = "error"
        BY <1>1, <4>2 DEF Types
      <4> QED BY <2>1, <3>3, <4>3 DEF Causes, ErrorMeans
    <3>4. n \in 1..Len(results) + 1
      BY <2>1, <3>1
    <3> QED BY <3>1, <3>2, <3>3, <3>4
  <2> QED BY <2>2, <2>3 DEF Causes
<1> QED BY <1>2, <1>3, <1>4

\* A line is written for the anomaly under way only, so one that is missing stays so.
LEMMA WriteKeepsCauses ==
  ASSUME IInv, Causes, NEW v \in Writers, WriteLine(v)
  PROVE  Causes'
<1> USE DEF Alerter, Writers, Error, InLoop
<1>1. Types /\ Places
  BY DEF IInv
<1>2. /\ pc[v] = "send" /\ pc' = [pc EXCEPT ![v] = "idle"]
      /\ UNCHANGED <<ctx, cur, hookVars, results>>
  BY DEF WriteLine, Return
<1>3. PICK e \in Error :
        /\ errs' = [errs EXCEPT ![v] = e]
        /\ lines' = IF e = "nil" THEN [lines EXCEPT ![v] = Append(@, cur)] ELSE lines
  BY DEF WriteLine, Return
<1>4. /\ \A a \in {"loop", "webhook"} : pc'[a] = pc[a]
      /\ errs'["webhook"] = errs["webhook"]
  BY <1>1, <1>2, <1>3 DEF Types
<1>5. Spent'
  BY <1>2, <1>4 DEF Causes, Spent, hookVars
<1>6. \A n \in Anomaly, w \in Writers : n # cur /\ n \notin ToSet(lines[w]) => n \notin ToSet(lines'[w])
  <2> SUFFICES ASSUME NEW n \in Anomaly, NEW w \in Writers, n # cur, n \in ToSet(lines'[w])
               PROVE  n \in ToSet(lines[w])
    OBVIOUS
  <2>1. CASE lines'[w] = lines[w]
    BY <2>1
  <2>2. CASE lines'[w] = Append(lines[w], cur)
    <3>1. lines[w] \in Seq(Anomaly)
      BY <1>1 DEF Types
    <3>2. PICK i \in DOMAIN lines'[w] : lines'[w][i] = n
      BY DEF ToSet
    <3>3. i \in DOMAIN lines[w] /\ lines[w][i] = n
      BY <2>2, <3>1, <3>2
    <3> QED BY <3>3 DEF ToSet
  <2> QED BY <1>1, <1>3, <2>1, <2>2 DEF Types
<1>7. pc["loop"] = "wait" /\ Len(results) = cur - 1 /\ cur \in Nat /\ results \in Seq(Error)
  <2>1. pc["loop"] = "wait"
    BY <1>1, <1>2 DEF Places
  <2> QED BY <1>1, <2>1 DEF Places, Types
<1>8. ErrorMeans'
  <2>1. Cause(cur) => Cause(cur)'
    BY <1>2 DEF Cause, hookVars
  <2>2. ASSUME NEW w \in Writers, pc'[w] = "idle", errs'[w] = "error"
        PROVE  cur \notin ToSet(lines'[w])
    <3>1. CASE w = v
      <4>1. lines'[v] = lines[v]
        BY <1>1, <1>3, <2>2, <3>1 DEF Types
      <4>2. \A i \in DOMAIN lines[v] : lines[v][i] < cur
        BY <1>2 DEF IInv, Written
      <4> QED BY <1>7, <3>1, <4>1, <4>2 DEF ToSet
    <3>2. CASE w # v
      <4>1. pc[w] = "idle" /\ errs[w] = "error" /\ lines'[w] = lines[w]
        BY <1>1, <1>2, <1>3, <2>2, <3>2 DEF Types
      <4> QED BY <1>7, <4>1 DEF Causes, ErrorMeans
    <3> QED BY <3>1, <3>2
  <2> QED BY <1>2, <1>4, <2>1, <2>2 DEF Causes, ErrorMeans
<1>9. ReturnedError'
  <2> SUFFICES ASSUME NEW n \in DOMAIN results, results[n] = "error"
               PROVE  Cause(n)' \/ \E w \in Writers : n \notin ToSet(lines'[w])
    BY <1>2 DEF ReturnedError
  <2>1. Cause(n) => Cause(n)'
    BY <1>2 DEF Cause, hookVars
  <2>2. n # cur /\ n \in Anomaly
    <3>1. DOMAIN results = 1..(cur - 1)
      BY <1>7
    <3>2. cur \in 0..MaxAnomalies /\ MaxAnomalies \in Nat
      BY <1>1, AlertersAssumption DEF Types
    <3> QED BY <3>1, <3>2 DEF Anomaly
  <2> QED BY <1>6, <2>1, <2>2 DEF Causes, ReturnedError
<1> QED BY <1>5, <1>8, <1>9 DEF Causes

\* The webhook gives up with a cause and keeps it.
LEMMA WebhookKeepsCauses ==
  ASSUME IInv, Causes, Webhook
  PROVE  Causes'
<1> USE AlertersAssumption DEF Alerter, Writers, Error, InLoop
<1>1. Types /\ Places
  BY DEF IInv
<1>2. /\ pc["webhook"] \in InLoop
      /\ UNCHANGED <<ctx, cur, lines, results>>
      /\ \A a \in Writers \cup {"loop"} : pc'[a] = pc[a]
      /\ \A w \in Writers : errs'[w] = errs[w]
  BY <1>1 DEF Webhook, LoopHead, Backoff, Do, Answered, Return, hookVars, Types
<1>3. /\ pc["loop"] = "wait" /\ cur \in Anomaly /\ attempt \in 0..MaxRetries /\ MaxRetries \in Nat
      /\ Len(results) = cur - 1 /\ results \in Seq(Error)
  <2>1. pc["loop"] = "wait"
    BY <1>1, <1>2 DEF Places
  <2> QED BY <1>1, <2>1 DEF Places, Types, Anomaly
<1>4. \A n \in Anomaly \ {cur} : posted'[n] = posted[n] /\ verdict'[n] = verdict[n]
  BY <1>1, <1>3 DEF Webhook, LoopHead, Backoff, Do, Answered, hookVars, Types
<1>5. /\ pc["webhook"] \in {"head", "backoff", "do"} => posted[cur] = attempt
      /\ pc["webhook"] = "sent" => posted[cur] = attempt + 1
      /\ verdict[cur] = "none" /\ posted[cur] \in Nat
      /\ pc["webhook"] = "head" /\ attempt = 0 => lastErr = "nil"
      /\ pc["webhook"] # "head" => MaxRetries > 0
  BY <1>1, <1>2, <1>3 DEF IInv, Budget, Causes, Spent, Types
<1> DEFINE Kept == /\ pc'["webhook"] \in {"head", "backoff", "do"} => posted'[cur] = attempt'
                   /\ pc'["webhook"] = "sent" => posted'[cur] = attempt' + 1
                   /\ pc'["webhook"] \in InLoop => verdict'[cur] = "none"
                   /\ pc'["webhook"] = "head" /\ attempt' = 0 => lastErr' = "nil"
                   /\ pc'["webhook"] = "idle" /\ errs'["webhook"] = "error" => Cause(cur)'
<1>6. Kept
  <2>1. CASE LoopHead
    <3>1. pc["webhook"] = "head" /\ UNCHANGED <<hookVars, cur>>
      BY <2>1 DEF LoopHead
    <3>2. \/ pc'["webhook"] \in {"do", "backoff"}
          \/ pc'["webhook"] = "idle" /\ attempt >= MaxRetries /\ errs'["webhook"] = lastErr
      BY <1>1, <1>3, <2>1 DEF LoopHead, Return, Types
    <3>3. posted[cur] = attempt
      BY <1>5, <3>1
    <3> QED BY <1>2, <1>3, <1>5, <3>1, <3>2, <3>3 DEF hookVars, Cause
  <2>2. CASE Backoff
    <3>1. pc["webhook"] = "backoff" /\ UNCHANGED <<hookVars, cur>>
      BY <2>2 DEF Backoff
    <3>2. pc'["webhook"] = "do" \/ (pc'["webhook"] = "idle" /\ ctx)
      BY <1>1, <2>2 DEF Backoff, Return, Types
    <3> QED BY <1>2, <1>5, <3>1, <3>2 DEF hookVars, Cause
  <2>3. CASE Do
    <3>1. pc["webhook"] = "do" /\ UNCHANGED <<attempt, verdict, cur>>
      BY <2>3 DEF Do
    <3>2. \/ pc'["webhook"] = "sent" /\ posted'[cur] = posted[cur] + 1
          \/ pc'["webhook"] = "idle" /\ ctx
      BY <1>1, <1>3, <2>3 DEF Do, Return, Types
    <3> QED BY <1>2, <1>5, <3>1, <3>2 DEF Cause
  <2>4. ASSUME NEW outcome \in Outcomes, Answered(outcome)
        PROVE  Kept
    <3>1. /\ pc["webhook"] = "sent" /\ UNCHANGED <<posted, cur>>
          /\ outcome = "canceled" => ctx
      BY <2>4 DEF Answered
    <3>2. CASE Passes(outcome) \/ Final(outcome)
      <4>1. /\ pc'["webhook"] = "idle" /\ verdict'[cur] = outcome
            /\ errs'["webhook"] = IF Passes(outcome) THEN "nil" ELSE "error"
        BY <1>1, <1>3, <2>4, <3>2 DEF Answered, Return, Types
      <4> QED BY <1>2, <1>5, <3>1, <3>2, <4>1 DEF Final, Cause
    <3>3. CASE ~(Passes(outcome) \/ Final(outcome))
      <4>1. pc'["webhook"] = "head" /\ verdict' = verdict /\ attempt' = attempt + 1
        BY <1>1, <2>4, <3>3 DEF Answered, Types
      <4> QED BY <1>3, <1>5, <3>1, <4>1
    <3> QED BY <3>2, <3>3
  <2> QED BY <2>1, <2>2, <2>3, <2>4 DEF Webhook
<1>7. Spent'
  <2>1. \A n \in Anomaly : n > cur => n \in Anomaly \ {cur}
    BY <1>3 DEF Anomaly
  <2> QED BY <1>2, <1>4, <1>6, <2>1 DEF Causes, Spent
<1>8. ErrorMeans'
  BY <1>2, <1>3, <1>6 DEF Causes, ErrorMeans
<1>9. ReturnedError'
  <2> SUFFICES ASSUME NEW n \in DOMAIN results, results[n] = "error"
               PROVE  Cause(n)' \/ \E w \in Writers : n \notin ToSet(lines'[w])
    BY <1>2 DEF ReturnedError
  <2>1. n \in Anomaly \ {cur}
    BY <1>3 DEF Anomaly
  <2>2. Cause(n) => Cause(n)'
    BY <1>2, <1>4, <2>1 DEF Cause
  <2> QED BY <1>2, <2>2 DEF Causes, ReturnedError
<1> QED BY <1>7, <1>8, <1>9 DEF Causes

\* An error has a cause, whatever becomes of requests and answers.
LEMMA CausesHold == Spec => []Causes
<1>1. Init => Causes
  BY DEF Init, Causes, Spent, ErrorMeans, ReturnedError, Alerter, Writers, InLoop
<1>2. IInv /\ Causes /\ [Next]_vars /\ IInv' => Causes'
  <2>1. IInv /\ Causes /\ UNCHANGED vars => Causes'
    BY DEF vars, hookVars, Causes, Spent, ErrorMeans, ReturnedError, Cause
  <2> QED BY <2>1, LoopKeepsCauses, WriteKeepsCauses, WebhookKeepsCauses DEF Next, Finished
<1> QED BY <1>1, <1>2, Invariance, PTL DEF Spec

\* A Send that ends in an error, though the writers wrote, was cancelled, refused,
\* timed out, or used up the whole budget: no anomaly is given up for less.
THEOREM GivenUp == Spec => []GivesUpForCause
<1>1. Causes => GivesUpForCause
  BY DEF Causes, ReturnedError, Cause, GivesUpForCause
<1> QED BY <1>1, CausesHold, PTL

\* No request is ever sent, and Send returns nil for every alert that the writers wrote.
NeverPosts ==
  /\ \A n \in Anomaly : posted[n] = 0
  /\ \A n \in DOMAIN results : results[n] = "nil" \/ \E w \in Writers : n \notin ToSet(lines[w])

\* A loaded configuration has MaxRetries 0: extract leaves the key out (config.go:207),
\* and Validate does not ask for one. That is a budget of no attempt: the webhook is
\* configured, posts nothing, and makes no error of it.
THEOREM ZeroRetries ==
  ASSUME MaxRetries = 0
  PROVE  Spec => []NeverPosts
<1>1. IInv => \A n \in Anomaly : posted[n] = 0
  <2> SUFFICES ASSUME IInv, NEW n \in Anomaly PROVE posted[n] = 0
    OBVIOUS
  <2> QED BY DEF IInv, Types, Budget
<1>2. IInv /\ Causes =>
        \A n \in DOMAIN results : results[n] = "nil" \/ \E w \in Writers : n \notin ToSet(lines[w])
  BY DEF IInv, Types, Error, Causes, ReturnedError, Cause
<1> QED BY <1>1, <1>2, Invariance, CausesHold, PTL DEF NeverPosts

-----------------------------------------------------------------------------
(* How long a Send can take. *)

\* The steps the webhook's Send has left: four for each attempt of the budget that
\* is not used up, less what has been done of the attempt under way.
WebhookLeft ==
  4 * (MaxRetries - attempt)
    + (IF pc["webhook"] = "head" THEN 1 ELSE 0)
    - (IF pc["webhook"] = "do" THEN 1 ELSE 0)
    - (IF pc["webhook"] = "sent" THEN 2 ELSE 0)

WriteLeft(w) == IF pc[w] = "send" THEN 1 ELSE 0

\* Those of the whole Send: the webhook's, a write for each writer, and the join.
SendLeft ==
  (IF pc["webhook"] = "idle" THEN 0 ELSE WebhookLeft)
    + WriteLeft("console") + WriteLeft("file")
    + (IF pc["loop"] = "wait" THEN 1 ELSE 0)

\* Somebody's guard holds: the join's, a writer's, or the one of the webhook's step.
SendMoves ==
  pc["loop"] = "wait" =>
    \/ \A a \in Alerter : pc[a] = "idle"
    \/ \E w \in Writers : pc[w] = "send"
    \/ pc["webhook"] \in {"head", "do", "sent"}
    \/ pc["webhook"] = "backoff" /\ (ctx \/ DelayBefore(attempt) > 0 \/ ~ctx)

\* Only a new anomaly makes work; every other step but the cancel does some.
WorkShrinks == [][Cancel \/ Fork \/ SendLeft' < SendLeft]_vars

\* The work left is never negative and never more than a fresh budget asks for.
LEMMA LeftIsBounded ==
  ASSUME IInv
  PROVE  SendLeft \in 0..(4 * MaxRetries + 4) /\ SendMoves
<1>. USE DEF Alerter, Writers, InLoop
<1>1. attempt \in 0..MaxRetries /\ MaxRetries \in Nat
  BY AlertersAssumption DEF IInv, Types
<1>2. /\ pc["webhook"] \in {"idle"} \cup InLoop
      /\ pc["webhook"] \in {"do", "sent", "backoff"} => attempt < MaxRetries
  BY DEF IInv, Places, Budget
<1>3. (IF pc["webhook"] = "idle" THEN 0 ELSE WebhookLeft) \in 0..(4 * MaxRetries + 1)
  BY <1>1, <1>2 DEF WebhookLeft
<1>4. WriteLeft("console") \in 0..1 /\ WriteLeft("file") \in 0..1
  BY DEF WriteLeft
<1>5. SendLeft \in 0..(4 * MaxRetries + 4)
  <2> DEFINE h == IF pc["webhook"] = "idle" THEN 0 ELSE WebhookLeft
             j == IF pc["loop"] = "wait" THEN 1 ELSE 0
  <2>1. SendLeft = h + WriteLeft("console") + WriteLeft("file") + j
    BY DEF SendLeft
  <2>2. j \in 0..1 /\ h \in 0..(4 * MaxRetries + 1)
    BY <1>3
  <2> HIDE DEF h, j
  <2> QED BY <1>1, <1>4, <2>1, <2>2
<1>6. SendMoves
  BY DEF IInv, Places, SendMoves
<1> QED BY <1>5, <1>6

\* A step of the webhook: on to the next part of the attempt, to the next attempt,
\* or out of the loop.
LEMMA WebhookShrinks ==
  ASSUME IInv, Webhook
  PROVE  SendLeft' < SendLeft
<1>. USE DEF Alerter, Writers, InLoop
<1>1. /\ attempt \in 0..MaxRetries /\ MaxRetries \in Nat
      /\ pc \in [Alerter \cup {"loop"} -> {"recv", "wait", "idle", "send"} \cup InLoop]
  BY AlertersAssumption DEF IInv, Types
<1>2. pc["webhook"] \in {"do", "sent", "backoff"} => attempt < MaxRetries
  BY DEF IInv, Budget
<1>3. /\ \A p \in {"console", "file", "loop"} : pc'[p] = pc[p]
      /\ pc["webhook"] # "idle"
  BY <1>1 DEF Webhook, LoopHead, Backoff, Do, Answered, Return
<1>4. \/ pc'["webhook"] = "idle" /\ WebhookLeft > 0
      \/ pc'["webhook"] # "idle" /\ WebhookLeft' < WebhookLeft
  <2>1. CASE LoopHead
    <3>1. pc["webhook"] = "head" /\ attempt' = attempt
      BY <2>1 DEF LoopHead, hookVars
    <3>2. IF attempt < MaxRetries THEN pc'["webhook"] \in {"do", "backoff"} ELSE pc'["webhook"] = "idle"
      BY <1>1, <2>1 DEF LoopHead, Return
    <3> QED BY <1>1, <3>1, <3>2 DEF WebhookLeft
  <2>2. CASE Backoff
    <3>1. pc["webhook"] = "backoff" /\ attempt' = attempt /\ pc'["webhook"] \in {"do", "idle"}
      BY <1>1, <2>2 DEF Backoff, Return, hookVars
    <3> QED BY <1>1, <1>2, <3>1 DEF WebhookLeft
  <2>3. CASE Do
    <3>1. pc["webhook"] = "do" /\ attempt' = attempt /\ pc'["webhook"] \in {"sent", "idle"}
      BY <1>1, <2>3 DEF Do, Return
    <3> QED BY <1>1, <1>2, <3>1 DEF WebhookLeft
  <2>4. ASSUME NEW outcome \in Outcomes, Answered(outcome)
        PROVE  \/ pc'["webhook"] = "idle" /\ WebhookLeft > 0
               \/ pc'["webhook"] # "idle" /\ WebhookLeft' < WebhookLeft
    <3>1. /\ pc["webhook"] = "sent"
          /\ pc'["webhook"] = "idle" \/ (pc'["webhook"] = "head" /\ attempt' = attempt + 1)
      BY <1>1, <2>4 DEF Answered, Return
    <3> QED BY <1>1, <1>2, <3>1 DEF WebhookLeft
  <2> QED BY <2>1, <2>2, <2>3, <2>4 DEF Webhook
<1>5. /\ WriteLeft("console")' = WriteLeft("console") /\ WriteLeft("file")' = WriteLeft("file")
      /\ WriteLeft("console") \in Nat /\ WriteLeft("file") \in Nat
  BY <1>3 DEF WriteLeft
<1>6. WebhookLeft \in Int /\ (pc'["webhook"] # "idle" => WebhookLeft' \in Int)
  <2>1. attempt' \in 0..MaxRetries
    BY Consecution DEF Next, IInv, Types
  <2> QED BY <1>1, <2>1 DEF WebhookLeft
<1> QED BY <1>3, <1>4, <1>5, <1>6 DEF SendLeft

\* A writer's step and the join.
LEMMA WriteShrinks ==
  ASSUME IInv, Join \/ \E w \in Writers : WriteLine(w)
  PROVE  SendLeft' < SendLeft
<1>. USE DEF Alerter, Writers, InLoop
<1>1. /\ SendLeft \in Int
      /\ pc \in [Alerter \cup {"loop"} -> {"recv", "wait", "idle", "send"} \cup InLoop]
  BY LeftIsBounded DEF IInv, Types
<1>2. WebhookLeft' = WebhookLeft /\ pc'["webhook"] = pc["webhook"]
  BY <1>1 DEF Join, WriteLine, Return, WebhookLeft, hookVars
<1> DEFINE h == IF pc["webhook"] = "idle" THEN 0 ELSE WebhookLeft
<1>3. h \in Int /\ (IF pc'["webhook"] = "idle" THEN 0 ELSE WebhookLeft') = h
  <2>1. attempt \in 0..MaxRetries /\ MaxRetries \in Nat
    BY AlertersAssumption DEF IInv, Types
  <2> QED BY <1>2, <2>1 DEF WebhookLeft
<1>4. \/ /\ pc'["console"] = pc["console"] /\ pc'["file"] = pc["file"]
         /\ pc["loop"] = "wait" /\ pc'["loop"] = "recv"
      \/ /\ pc["console"] = "send" /\ pc'["console"] = "idle" /\ pc'["file"] = pc["file"]
         /\ pc'["loop"] = pc["loop"]
      \/ /\ pc["file"] = "send" /\ pc'["file"] = "idle" /\ pc'["console"] = pc["console"]
         /\ pc'["loop"] = pc["loop"]
  BY <1>1 DEF Join, WriteLine, Return
<1> HIDE DEF h
<1>5. /\ SendLeft = h + WriteLeft("console") + WriteLeft("file") + (IF pc["loop"] = "wait" THEN 1 ELSE 0)
      /\ SendLeft' = h + WriteLeft("console")' + WriteLeft("file")' + (IF pc'["loop"] = "wait" THEN 1 ELSE 0)
  BY <1>3 DEF SendLeft, h
<1> QED BY <1>3, <1>4, <1>5 DEF WriteLeft

\* A Send is over after at most 4 * MaxRetries + 4 steps of its goroutines, whatever
\* the receiver answers and whenever ctx is cancelled, and until then one of them
\* can always move: the alert loop is never held up for good.
THEOREM SendEnds == Spec => [](SendLeft \in 0..(4 * MaxRetries + 4) /\ SendMoves) /\ WorkShrinks
<1>1. IInv => SendLeft \in 0..(4 * MaxRetries + 4) /\ SendMoves
  BY LeftIsBounded
<1>2. IInv /\ [Next]_vars => [Cancel \/ Fork \/ SendLeft' < SendLeft]_vars
  BY WebhookShrinks, WriteShrinks DEF Next, Finished
<1> QED BY <1>1, <1>2, Invariance, PTL DEF Spec, WorkShrinks
=============================================================================

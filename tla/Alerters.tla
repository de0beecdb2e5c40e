------------------------------ MODULE Alerters ------------------------------
(***************************************************************************)
(* internal/alerter: MultiAlerter.Send hands one anomaly to the console,   *)
(* the alert file and the webhook at the same time and waits for all of    *)
(* them; WebhookAlerter.Send retries.  The alert loop of the pipeline      *)
(* calls Send for one anomaly after the other, with a context that may be  *)
(* cancelled at any moment.  The receiver of the webhook is external: what *)
(* it makes of a request and what becomes of its answer is a choice.       *)
(* Anomalies are numbered in the order they are sent.                      *)
(***************************************************************************)
EXTENDS Integers, SequencesExt

CONSTANTS
  MaxRetries,   \* attempts per anomaly, the first one included
  Delays,       \* retryDelays; only whether a delay is positive matters
  MaxAnomalies  \* bound: anomalies sent

ASSUME AlertersAssumption ==
  /\ MaxRetries \in Nat /\ MaxAnomalies \in Nat
  /\ Delays \in Seq(Nat) /\ Delays # <<>>

Writers == {"console", "file"}
Alerter == Writers \cup {"webhook"}
Anomaly == 1..MaxAnomalies

VARIABLES
  ctx,       \* the context is cancelled
  cur,       \* the anomaly sent last
  pc,        \* where the alert loop ("loop") and each alerter are
  attempt,   \* the loop variable of the webhook's Send
  lastErr,   \* the error of its last attempt
  errs,      \* errs[i] of MultiAlerter.Send
  lines,     \* per writer, the anomalies written
  posted,    \* history: requests sent, per anomaly
  accepted,  \* history: requests the receiver took, per anomaly
  blurred,   \* history: requests whose answer did not tell they were taken
  verdict,   \* history: the outcome that ended the retries, per anomaly
  results    \* what Send returned, per anomaly

hookVars == <<attempt, lastErr, posted, accepted, blurred, verdict>>
vars == <<ctx, cur, pc, hookVars, errs, lines, results>>

Init ==
  /\ ctx = FALSE
  /\ cur = 0
  /\ pc = [p \in Alerter \cup {"loop"} |-> IF p = "loop" THEN "recv" ELSE "idle"]
  /\ attempt = 0
  /\ lastErr = "nil"
  /\ errs = [a \in Alerter |-> "nil"]
  /\ lines = [w \in Writers |-> <<>>]
  /\ posted = [n \in Anomaly |-> 0]
  /\ accepted = [n \in Anomaly |-> 0]
  /\ blurred = [n \in Anomaly |-> 0]
  /\ verdict = [n \in Anomaly |-> "none"]
  /\ results = <<>>

Cancel ==
  /\ ~ctx
  /\ ctx' = TRUE
  /\ UNCHANGED <<cur, pc, hookVars, errs, lines, results>>

-----------------------------------------------------------------------------
(* MultiAlerter.Send, called by the alert loop. *)

Fork ==
  /\ pc["loop"] = "recv"
  /\ cur < MaxAnomalies
  /\ cur' = cur + 1
  /\ pc' = [p \in DOMAIN pc |-> CASE p = "loop" -> "wait" [] p = "webhook" -> "head" [] OTHER -> "send"]
  /\ errs' = [a \in Alerter |-> "nil"]
  /\ attempt' = 0
  /\ lastErr' = "nil"
  /\ UNCHANGED <<ctx, posted, accepted, blurred, verdict, lines, results>>

\* errors.Join of what the alerters returned.
Joined == IF \A a \in Alerter : errs[a] = "nil" THEN "nil" ELSE "error"

\* Variant: the first alerter that is done decides.
JoinFirst ==
  /\ pc["loop"] = "wait"
  /\ \E a \in Alerter : pc[a] = "idle"
  /\ results' = Append(results, Joined)
  /\ pc' = [pc EXCEPT !["loop"] = "recv"]
  /\ UNCHANGED <<ctx, cur, hookVars, errs, lines>>

\* wg.Wait() returns once every alerter has.
Join ==
  /\ pc["loop"] = "wait"
  /\ \A a \in Alerter : pc[a] = "idle"
  /\ results' = Append(results, Joined)
  /\ pc' = [pc EXCEPT !["loop"] = "recv"]
  /\ UNCHANGED <<ctx, cur, hookVars, errs, lines>>

\* Send of alerter a returns.
Return(a, err) ==
  /\ errs' = [errs EXCEPT ![a] = err]
  /\ pc' = [pc EXCEPT ![a] = "idle"]

-----------------------------------------------------------------------------
(* ConsoleAlerter.Send and FileAlerter.Send: one write, whatever ctx says. *)

\* Variant: the writers heed ctx as the webhook does.
WriteUnlessCancelled(w) ==
  /\ pc[w] = "send"
  /\ \/ ~ctx /\ lines' = [lines EXCEPT ![w] = Append(@, cur)] /\ Return(w, "nil")
     \/ Return(w, "error") /\ UNCHANGED lines
     \/ ctx /\ Return(w, "nil") /\ UNCHANGED lines
  /\ UNCHANGED <<ctx, cur, hookVars, results>>

WriteLine(w) ==
  /\ pc[w] = "send"
  /\ \/ lines' = [lines EXCEPT ![w] = Append(@, cur)] /\ Return(w, "nil")
     \/ Return(w, "error") /\ UNCHANGED lines
  /\ UNCHANGED <<ctx, cur, hookVars, results>>

-----------------------------------------------------------------------------
(* WebhookAlerter.Send. *)

\* The delay before attempt n: the last one for every attempt beyond.
DelayBefore(n) == Delays[IF n > Len(Delays) THEN Len(Delays) ELSE n]

\* Variant: one attempt more, `<=` for `<`.
LoopHeadOneMore ==
  /\ pc["webhook"] = "head"
  /\ IF attempt <= MaxRetries
     THEN pc' = [pc EXCEPT !["webhook"] = IF attempt = 0 THEN "do" ELSE "backoff"] /\ UNCHANGED errs
     ELSE Return("webhook", lastErr)
  /\ UNCHANGED <<ctx, cur, hookVars, lines, results>>

\* The head of the retry loop.
LoopHead ==
  /\ pc["webhook"] = "head"
  /\ IF attempt < MaxRetries
     THEN pc' = [pc EXCEPT !["webhook"] = IF attempt = 0 THEN "do" ELSE "backoff"] /\ UNCHANGED errs
     ELSE Return("webhook", lastErr)
  /\ UNCHANGED <<ctx, cur, hookVars, lines, results>>

\* Variant: the select without a delay has no default.
BackoffNoDefault ==
  /\ pc["webhook"] = "backoff"
  /\ \/ ctx /\ Return("webhook", "error")
     \/ /\ DelayBefore(attempt) > 0
        /\ pc' = [pc EXCEPT !["webhook"] = "do"]
        /\ UNCHANGED errs
  /\ UNCHANGED <<ctx, cur, hookVars, lines, results>>

\* The select between the timer and ctx; without a delay, between ctx and default.
Backoff ==
  /\ pc["webhook"] = "backoff"
  /\ \/ ctx /\ Return("webhook", "error")
     \/ /\ DelayBefore(attempt) > 0 \/ ~ctx
        /\ pc' = [pc EXCEPT !["webhook"] = "do"]
        /\ UNCHANGED errs
  /\ UNCHANGED <<ctx, cur, hookVars, lines, results>>

\* do: a request bound to a context that is cancelled never leaves.
Do ==
  /\ pc["webhook"] = "do"
  /\ \/ ctx /\ Return("webhook", "error") /\ UNCHANGED posted
     \/ /\ ~ctx
        /\ posted' = [posted EXCEPT ![cur] = @ + 1]
        /\ pc' = [pc EXCEPT !["webhook"] = "sent"]
        /\ UNCHANGED errs
  /\ UNCHANGED <<ctx, cur, attempt, lastErr, accepted, blurred, verdict, lines, results>>

\* How a request can end: with a status of the receiver, by way of redirects, with an
\* error of the network, or of the context, as which the client's own timeout counts.
Outcomes == {"2xx", "redirected", "4xx", "5xx", "network", "timeout", "canceled"}

\* do returns nil for every status below 400: for a 3xx that the client cannot follow,
\* and for one it has followed, though it may have asked there with a GET.
Passes(outcome) == outcome \in {"2xx", "redirected"}

\* Variant: every status of 400 or more is final.
FinalStatus(outcome) == outcome \in {"canceled", "timeout", "4xx", "5xx"}

\* Send returns such an error at once.
Final(outcome) == outcome \in {"canceled", "timeout", "4xx"}

\* The outcomes that say nothing of whether the receiver took the request.
Blurs(outcome) == outcome \in {"5xx", "network", "timeout", "canceled"}

\* The request ends. Only a 2xx to the request itself says that it was taken; it may
\* have been whatever else the answer is, or if that is lost.
Answered(outcome) ==
  /\ pc["webhook"] = "sent"
  /\ outcome = "canceled" => ctx
  /\ \E taken \in BOOLEAN :
       /\ outcome = "2xx" => taken
       /\ accepted' = [accepted EXCEPT ![cur] = IF taken THEN @ + 1 ELSE @]
       /\ blurred' = [blurred EXCEPT ![cur] = IF taken /\ Blurs(outcome) THEN @ + 1 ELSE @]
  /\ IF Passes(outcome) \/ Final(outcome)
     THEN /\ Return("webhook", IF Passes(outcome) THEN "nil" ELSE "error")
          /\ verdict' = [verdict EXCEPT ![cur] = outcome]
          /\ UNCHANGED <<attempt, lastErr>>
     ELSE /\ lastErr' = "error"
          /\ attempt' = attempt + 1
          /\ pc' = [pc EXCEPT !["webhook"] = "head"]
          /\ UNCHANGED <<errs, verdict>>
  /\ UNCHANGED <<ctx, cur, posted, lines, results>>

Webhook == LoopHead \/ Backoff \/ Do \/ \E outcome \in Outcomes : Answered(outcome)

Finished == pc["loop"] = "recv" /\ cur = MaxAnomalies /\ UNCHANGED vars

Next ==
  \/ Cancel \/ Fork \/ Join
  \/ \E w \in Writers : WriteLine(w)
  \/ Webhook
  \/ Finished

Spec == Init /\ [][Next]_vars

\* The goroutines run, timers fire, and the client's timeout ends every request.
FairSpec ==
  /\ Spec
  /\ WF_vars(Join) /\ WF_vars(Webhook)
  /\ \A w \in Writers : WF_vars(WriteLine(w))

-----------------------------------------------------------------------------

\* Every variable has its type, and one Send has returned for each anomaly sent
\* but the one under way.
TypeOK ==
  /\ cur \in 0..MaxAnomalies
  /\ attempt \in 0..MaxRetries
  /\ Len(results) = IF pc["loop"] = "recv" THEN cur ELSE cur - 1
  /\ ToSet(results) \cup {errs[a] : a \in Alerter} \cup {lastErr} \subseteq {"nil", "error"}
  /\ \A w \in Writers : ToSet(lines[w]) \subseteq 1..cur

\* application_knowledge.md:852: Send "returns nil on success": then the line is in
\* the file and on the console, and the receiver took a request, at whatever attempt.
\* One case is excepted: an exchange that ended in a redirect passes for success
\* (webhook.go:147), and nobody knows whether the alert arrived.
NilMeansDelivered ==
  \A n \in DOMAIN results :
    results[n] = "nil" =>
      /\ accepted[n] > 0 \/ verdict[n] = "redirected"
      /\ \A w \in Writers : n \in ToSet(lines[w])

\* No alerter suppresses another or overtakes itself: alerts are written in the
\* order they were sent, at most once each, and one that is missing although every
\* Send returned was an error.
WritersKeepUp ==
  \A w \in Writers :
    /\ \A i, j \in DOMAIN lines[w] : i < j => lines[w][i] < lines[w][j]
    /\ \A n \in DOMAIN results : n \in ToSet(lines[w]) \/ results[n] = "error"

\* Retries stay within their budget, and the receiver takes an alert twice only
\* where an earlier answer left open whether it had been taken.
RetriesBounded ==
  \A n \in Anomaly : posted[n] <= MaxRetries /\ accepted[n] <= blurred[n] + 1

\* webhook.go:67: "Retries on 5xx / network errors; aborts immediately on 4xx or ctx
\* cancellation." An alert whose Send ends in an error, though it was written, got all
\* the attempts of the budget, each of them lost or answered with a 5xx, unless ctx was
\* cancelled or the receiver refused it. One more cause is excepted: the client's own
\* timeout is an error that webhook.go:113 takes for one of ctx.
GivesUpForCause ==
  \A n \in DOMAIN results :
    results[n] = "error" /\ (\A w \in Writers : n \in ToSet(lines[w])) =>
      \/ ctx \/ verdict[n] \in {"4xx", "timeout"}
      \/ posted[n] = MaxRetries /\ verdict[n] = "none"

\* Every Send returns, so the alert loop is never held up for good.
SendReturns == \A n \in Anomaly : cur = n ~> Len(results) >= n
=============================================================================

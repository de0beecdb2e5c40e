------------------------------ MODULE Startup -------------------------------
(***************************************************************************)
(* internal/config and cmd/loganalyser: from the settings an operator      *)
(* gives in a file, the environment and flags to a pipeline that runs, or  *)
(* to an error.                                                            *)
(*                                                                         *)
(* A setting is a key and a text.  The keys are those that the code treats *)
(* differently: rate stands for the settings that have to be in (0, 1]     *)
(* (error rate and host flood), multiplier for those that have to be       *)
(* positive (the multipliers and the minimum baseline), bucket, window and *)
(* cooldown are durations, and retries and workers are keys that extract   *)
(* does not read.  An empty variable of the environment is as good as      *)
(* none, and cobra refuses a flag it cannot convert before any of this.    *)
(***************************************************************************)
EXTENDS Integers

CONSTANTS
  Offers,    \* the settings there are: records [source, key, text]
  NumCPU

Sources == {"flag", "env", "file"}

\* The defaults of viper, as texts; "" where there is none. A rate of "1" is any
\* within its range, a multiplier or cooldown of "2" any above 1.
Defaults ==
  [format |-> "auto", method |-> "ratio", window |-> "60", bucket |-> "1", rate |-> "1",
   multiplier |-> "2", cooldown |-> "2", workers |-> "",
   url |-> "", secret |-> "", hook |-> "false", retries |-> "",
   path |-> "", tofile |-> "false", metrics |-> ""]

Keys == DOMAIN Defaults
Extracted == Keys \ {"workers", "retries"}
Numeric == {"window", "bucket", "rate", "multiplier", "cooldown", "workers", "retries"}
Flagged == (Numeric \ {"retries"}) \cup {"format", "method", "url", "path", "metrics"}

VARIABLES
  given,    \* per source, a function from some keys to texts
  pc,       \* where the process is
  cfg,      \* the Config, once it is extracted
  alerters, \* the alerters built
  recorder, \* "noop", or "server" if /metrics is served
  ioError   \* a file could not be read or opened

vars == <<given, pc, cfg, alerters, recorder, ioError>>

-----------------------------------------------------------------------------
(* Conversions. A text that is no number reads as 0, one that is no truth    *)
(* value as FALSE, and nobody is told.                                       *)

Number(t) == CASE t = "-1" -> 0 - 1
               [] t = "1" -> 1
               [] t = "2" -> 2
               [] t = "60" -> 60
               [] OTHER -> 0

Convert(k, t) ==
  CASE k \in Numeric -> Number(t)
    [] k \in {"hook", "tofile"} -> t = "true"
    [] OTHER -> t

\* What is not in `over` stays as in `base`.
Overlay(over, base) == [k \in DOMAIN base |-> IF k \in DOMAIN over THEN over[k] ELSE base[k]]

Zero == [k \in Keys |-> Convert(k, "")]

Init ==
  /\ given = [s \in Sources |-> [k \in {} |-> ""]]
  /\ pc = "read"
  /\ cfg = Zero
  /\ alerters = {}
  /\ recorder = "noop"
  /\ ioError = FALSE

\* The operator writes a setting into a source, before the process looks at any.
\* cobra refuses a flag it does not know.
Give(o) ==
  /\ pc = "read"
  /\ o.source = "flag" => o.key \in Flagged
  /\ o.key \notin DOMAIN given[o.source]
  /\ given' = [given EXCEPT ![o.source] =
       [k \in DOMAIN @ \cup {o.key} |-> IF k = o.key THEN o.text ELSE @[k]]]
  /\ UNCHANGED <<pc, cfg, alerters, recorder, ioError>>

-----------------------------------------------------------------------------
(* loadConfig. *)

Refuse == pc' = "refused"

\* With a configuration file: ReadInConfig. Without one its part is empty.
ReadFile ==
  /\ pc = "read"
  /\ \/ pc' = "secrets" /\ UNCHANGED ioError
     \/ DOMAIN given["file"] # {} /\ ioError' = TRUE /\ Refuse
  /\ UNCHANGED <<given, cfg, alerters, recorder>>

HasSecret(s) == "secret" \in DOMAIN given[s] /\ given[s]["secret"] # ""

\* Variant: setupEnv has run by then.
CheckSecretsMerged ==
  /\ pc = "secrets"
  /\ pc' = IF HasSecret("file") \/ HasSecret("env") THEN "refused" ELSE "extract"
  /\ UNCHANGED <<given, cfg, alerters, recorder, ioError>>

\* checkForFileSecrets, before the environment is looked at.
CheckSecrets ==
  /\ pc = "secrets"
  /\ pc' = IF HasSecret("file") THEN "refused" ELSE "extract"
  /\ UNCHANGED <<given, cfg, alerters, recorder, ioError>>

\* setupEnv and extract. The fields that extract leaves out stay zero.
Extract ==
  /\ pc = "extract"
  /\ LET texts == Overlay(given["env"], Overlay(given["file"], Defaults))
     IN  cfg' = [k \in Keys |-> IF k \in Extracted THEN Convert(k, texts[k]) ELSE Zero[k]]
  /\ pc' = "override"
  /\ UNCHANGED <<given, alerters, recorder, ioError>>

\* Variant: flags that were not given override with their defaults.
OverrideUnchanged ==
  /\ pc = "override"
  /\ cfg' = [k \in Keys |->
       IF k \in Flagged
       THEN Convert(k, IF k \in DOMAIN given["flag"] THEN given["flag"][k] ELSE Defaults[k])
       ELSE cfg[k]]
  /\ pc' = "validate"
  /\ UNCHANGED <<given, alerters, recorder, ioError>>

\* applyFlagOverrides: the flags that were given.
Override ==
  /\ pc = "override"
  /\ cfg' = [k \in Keys |->
       IF k \in Flagged \cap DOMAIN given["flag"] THEN Convert(k, given["flag"][k]) ELSE cfg[k]]
  /\ pc' = "validate"
  /\ UNCHANGED <<given, alerters, recorder, ioError>>

Valid(c) ==
  /\ c.format \in {"auto", "nginx", "apache", "json", "syslog"}
  /\ c.method \in {"ratio", "sigma"}
  /\ c.window >= c.bucket
  /\ c.multiplier > 0
  /\ c.rate > 0 /\ c.rate <= 1
  /\ c.cooldown >= 0
  /\ c.hook => c.url # ""
  /\ c.tofile => c.path # ""

Validate ==
  /\ pc = "validate"
  /\ pc' = IF Valid(cfg) THEN "build" ELSE "refused"
  /\ UNCHANGED <<given, cfg, alerters, recorder, ioError>>

-----------------------------------------------------------------------------
(* The rest of RunE. *)

WantsWebhook == cfg.url # "" \/ cfg.hook
WantsFile == cfg.path # ""

\* buildAlerters. NewWebhookAlerter refuses an empty URL; the file may not open.
BuildAlerters ==
  /\ pc = "build"
  /\ \/ /\ alerters' = {"console"} \cup (IF WantsWebhook THEN {"webhook"} ELSE {})
                                   \cup (IF WantsFile THEN {"file"} ELSE {})
        /\ pc' = IF WantsWebhook /\ cfg.url = "" THEN "refused" ELSE "record"
        /\ UNCHANGED ioError
     \/ WantsFile /\ ioError' = TRUE /\ Refuse /\ UNCHANGED alerters
  /\ UNCHANGED <<given, cfg, recorder>>

\* buildRecorder, and the goroutine that serves /metrics. If it cannot listen that
\* is logged and changes nothing.
BuildRecorder ==
  /\ pc = "record"
  /\ recorder' = IF cfg.metrics = "" THEN "noop" ELSE "server"
  /\ pc' = "launch"
  /\ UNCHANGED <<given, cfg, alerters, ioError>>

\* The workers that Pipeline.Run asks for.
CrewSize == IF cfg.workers < 1 THEN NumCPU ELSE cfg.workers

\* The preflight of Pipeline.Run, and the stages it makes: the capacity of the
\* window is a quotient by BucketDuration, and the ticker wants a positive one.
Launch ==
  /\ pc = "launch"
  /\ pc' = IF cfg.bucket <= 0 THEN "crashed" ELSE "run"
  /\ UNCHANGED <<given, cfg, alerters, recorder, ioError>>

LaunchFails ==
  /\ pc = "launch"
  /\ ioError' = TRUE
  /\ Refuse
  /\ UNCHANGED <<given, cfg, alerters, recorder>>

\* Pipeline.Run returns; the server, if there is one, is shut down.
Exit ==
  /\ pc = "run"
  /\ pc' = "exited"
  /\ recorder' = "noop"
  /\ UNCHANGED <<given, cfg, alerters, ioError>>

Prepare ==
  \/ ReadFile \/ CheckSecrets \/ Extract \/ Override \/ Validate
  \/ BuildAlerters \/ BuildRecorder \/ LaunchFails

Next == (\E o \in Offers : Give(o)) \/ Prepare \/ Launch \/ Exit

Spec == Init /\ [][Next]_vars

-----------------------------------------------------------------------------

Ended == {"refused", "crashed", "exited"}

TypeOK ==
  /\ pc \in {"read", "secrets", "extract", "override", "validate", "build", "record", "launch", "run"} \cup Ended
  /\ DOMAIN cfg = Keys
  /\ \A k \in Numeric : cfg[k] \in Int
  /\ {cfg.hook, cfg.tofile} \subseteq BOOLEAN
  /\ alerters \subseteq {"console", "webhook", "file"}
  /\ recorder \in {"noop", "server"}
  /\ ioError \in BOOLEAN

\* The text that README.md:377 makes the winner for a key.
Winner(k) == CASE k \in DOMAIN given["flag"] -> given["flag"][k]
               [] k \in DOMAIN given["env"] \ DOMAIN given["flag"] -> given["env"][k]
               [] k \in DOMAIN given["file"] \ (DOMAIN given["flag"] \cup DOMAIN given["env"]) -> given["file"][k]
               [] OTHER -> Defaults[k]

Intended == [k \in Keys |-> Convert(k, Winner(k))]

\* README.md:377: flags over environment over file over defaults. Whatever runs,
\* runs with the strongest setting given, for each key that extract reads and each
\* that is set by a flag, and a flag that was not given overrides nothing. (What
\* becomes of the keys that extract leaves out is the claim of OneWorkerOneFormat.)
SettingsPrecedence ==
  pc \in {"validate", "build", "record", "launch", "run"} =>
    \A k \in Extracted \cup DOMAIN given["flag"] : cfg[k] = Intended[k]

\* Every end, and the running process, is earned. README.md:379 and config.go:290:
\* what runs was valid after the last override, took no secret from a file and has
\* an alerter for each destination that was set. What is refused had an I/O error,
\* a secret in its file or a setting that Validate forbids, never anything else;
\* and only a bucket duration that is not positive makes it crash.
EndsEarned ==
  /\ pc \in {"run", "exited"} =>
       /\ Valid(Intended) /\ cfg.bucket > 0 /\ ~HasSecret("file")
       /\ alerters = {"console"} \cup {a \in {"webhook"} : Intended.url # ""}
                                 \cup {a \in {"file"} : Intended.path # ""}
  /\ pc = "refused" => ioError \/ HasSecret("file") \/ ~Valid(Intended)
  /\ pc = "crashed" => Intended.bucket <= 0
=============================================================================

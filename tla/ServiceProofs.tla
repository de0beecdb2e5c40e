--------------------------- MODULE ServiceProofs ----------------------------
(***************************************************************************)
(* Theorems about Service, for every set of settings there may be, every   *)
(* set of lines and any number of workers: first what it does with the     *)
(* settings, which is what Startup says, then what its pool makes of the   *)
(* lines.                                                                  *)
(***************************************************************************)
EXTENDS Service, TLAPS

\* What extract makes of the file, the environment and the defaults, and what
\* applyFlagOverrides leaves of that.
Merged ==
  LET texts == S!Overlay(given["env"], S!Overlay(given["file"], S!Defaults))
  IN  [k \in S!Keys |-> IF k \in S!Extracted THEN S!Convert(k, texts[k]) ELSE S!Zero[k]]
Final ==
  [k \in S!Keys |-> IF k \in S!Flagged \cap DOMAIN given["flag"] THEN S!Convert(k, given["flag"][k]) ELSE Merged[k]]

Built == {"record", "launch", "run", "crashed", "exited"}
Validated == {"build"} \cup Built

\* cfg at each stage of its making.
ConfigMade ==
  /\ pc = "override" => cfg = Merged
  /\ pc \in {"validate"} \cup Validated => cfg = Final

\* What the checks that have been passed guarantee from there on.
ChecksHold ==
  /\ pc \notin {"read", "secrets", "refused"} => ~S!HasSecret("file")
  /\ pc \in Validated => S!Valid(cfg)
  /\ pc \in Built =>
       alerters = {"console"} \cup (IF S!WantsWebhook THEN {"webhook"} ELSE {})
                              \cup (IF S!WantsFile THEN {"file"} ELSE {})
  /\ pc \in {"run", "exited"} => cfg.bucket > 0
  /\ pc = "crashed" => cfg.bucket <= 0

RefusedFor == pc = "refused" => ioError \/ S!HasSecret("file") \/ ~S!Valid(Final)

\* The inductive invariant.
SettingsInv ==
  /\ DOMAIN given = S!Sources
  /\ DOMAIN given["flag"] \subseteq S!Flagged
  /\ ConfigMade
  /\ ChecksHold
  /\ RefusedFor

-----------------------------------------------------------------------------

\* Step by step, the three sources and the defaults are overlaid as the winner of
\* each key demands.
LEMMA FinalIsIntended ==
  ASSUME DOMAIN given["flag"] \subseteq S!Flagged
  PROVE  \A k \in S!Extracted \cup DOMAIN given["flag"] : Final[k] = S!Intended[k]
<1>1. SUFFICES ASSUME NEW k \in S!Extracted \cup DOMAIN given["flag"] PROVE Final[k] = S!Intended[k]
  OBVIOUS
<1>2. k \in S!Keys /\ (k \notin DOMAIN given["flag"] => k \in S!Extracted)
  BY DEF S!Extracted, S!Flagged, S!Numeric, S!Keys, S!Defaults
<1>3. S!Intended[k] = S!Convert(k, S!Winner(k))
  BY <1>2 DEF S!Intended
<1> DEFINE base == S!Overlay(given["file"], S!Defaults)
<1>4. S!Overlay(given["env"], base)[k] =
        IF k \in DOMAIN given["env"] THEN given["env"][k]
        ELSE IF k \in DOMAIN given["file"] THEN given["file"][k] ELSE S!Defaults[k]
  BY <1>2 DEF S!Overlay, S!Keys
<1>5. CASE k \in DOMAIN given["flag"]
  <2>1. Final[k] = S!Convert(k, given["flag"][k])
    BY <1>2, <1>5 DEF Final
  <2>2. S!Winner(k) = given["flag"][k]
    BY <1>5 DEF S!Winner
  <2> QED BY <1>3, <2>1, <2>2
<1>6. CASE k \notin DOMAIN given["flag"]
  <2>1. Final[k] = S!Convert(k, S!Overlay(given["env"], base)[k])
    BY <1>2, <1>6 DEF Final, Merged
  <2>2. S!Winner(k) = S!Overlay(given["env"], base)[k]
    BY <1>4, <1>6 DEF S!Winner
  <2> QED BY <1>3, <2>1, <2>2
<1> QED BY <1>5, <1>6

\* Validate reads none of the fields that extract leaves out.
LEMMA ValidReadsExtracted ==
  ASSUME NEW c, NEW d, \A k \in S!Extracted : c[k] = d[k]
  PROVE  S!Valid(c) <=> S!Valid(d)
<1>1. {"format", "method", "window", "bucket", "rate", "multiplier", "cooldown", "hook", "url", "tofile", "path"}
        \subseteq S!Extracted
  BY DEF S!Extracted, S!Keys, S!Defaults
<1> QED BY <1>1 DEF S!Valid

\* Whatever the texts are, the duration of a bucket is a number.
LEMMA BucketIsNumber == Final.bucket \in Int
<1>1. \A t : S!Convert("bucket", t) \in Int
  BY DEF S!Convert, S!Number, S!Numeric
<1>2. "bucket" \in S!Keys /\ "bucket" \in S!Extracted
  BY DEF S!Extracted, S!Keys, S!Defaults
<1> QED BY <1>1, <1>2 DEF Final, Merged

\* Nothing has been given or built at the start.
LEMMA SettingsInitially == S!Init => SettingsInv
  BY DEF S!Init, SettingsInv, ConfigMade, ChecksHold, RefusedFor, S!Sources, S!Flagged, Validated, Built

\* Each step of main.go keeps the invariant.
LEMMA SettingsStep == SettingsInv /\ [S!Next]_(S!vars) => SettingsInv'
<1> SUFFICES ASSUME SettingsInv, [S!Next]_(S!vars) PROVE SettingsInv'
  OBVIOUS
<1> USE DEF SettingsInv, ConfigMade, ChecksHold, RefusedFor, Validated, Built, Merged, Final, S!HasSecret,
            S!WantsWebhook, S!WantsFile
<1>1. ASSUME NEW o \in Offers, S!Give(o) PROVE SettingsInv'
  <2>1. DOMAIN given' = S!Sources /\ DOMAIN given'["flag"] \subseteq S!Flagged
    BY <1>1 DEF S!Give, S!Sources
  <2> QED BY <1>1, <2>1 DEF S!Give
<1>2. CASE S!ReadFile
  BY <1>2 DEF S!ReadFile, S!Refuse
<1>3. CASE S!CheckSecrets
  BY <1>3 DEF S!CheckSecrets
<1>4. CASE S!Extract
  BY <1>4 DEF S!Extract
<1>5. CASE S!Override
  BY <1>5 DEF S!Override
<1>6. CASE S!Validate
  BY <1>6 DEF S!Validate
<1>7. CASE S!BuildAlerters
  BY <1>7 DEF S!BuildAlerters, S!Refuse, S!Valid
<1>8. CASE S!BuildRecorder
  BY <1>8 DEF S!BuildRecorder
<1>9. CASE S!LaunchFails
  BY <1>9 DEF S!LaunchFails, S!Refuse
<1>10. CASE S!Launch
  <2>1. cfg.bucket \in Int
    BY <1>10, BucketIsNumber DEF S!Launch
  <2>2. /\ pc' \in {"crashed", "run"}
        /\ pc' = "run" => cfg.bucket > 0
        /\ pc' = "crashed" => cfg.bucket <= 0
    <3> HIDE DEF SettingsInv
    <3> QED BY <1>10, <2>1 DEF S!Launch
  <2>3. UNCHANGED <<given, cfg, alerters, recorder, ioError>> /\ pc = "launch"
    BY <1>10 DEF S!Launch
  <2> QED BY <2>2, <2>3
<1>11. CASE S!Exit
  BY <1>11 DEF S!Exit
<1>12. CASE UNCHANGED S!vars
  BY <1>12 DEF S!vars
<1> QED BY <1>1, <1>2, <1>3, <1>4, <1>5, <1>6, <1>7, <1>8, <1>9, <1>10, <1>11, <1>12 DEF S!Next, S!Prepare

\* README.md:377, for all settings: flags over environment over file over defaults.
LEMMA PrecedenceHolds == SettingsInv => S!SettingsPrecedence
<1> SUFFICES ASSUME SettingsInv, pc \in {"validate", "build", "record", "launch", "run"}
             PROVE  \A k \in S!Extracted \cup DOMAIN given["flag"] : cfg[k] = S!Intended[k]
  BY DEF S!SettingsPrecedence
<1>1. cfg = Final /\ DOMAIN given["flag"] \subseteq S!Flagged
  BY DEF SettingsInv, ConfigMade, Validated, Built
<1> QED BY <1>1, FinalIsIntended

\* Every end of the process, and its running, is earned, whatever is given.
LEMMA EndsAreEarned == SettingsInv => S!EndsEarned
<1> SUFFICES ASSUME SettingsInv PROVE S!EndsEarned
  OBVIOUS
<1>1. \A k \in S!Extracted : Final[k] = S!Intended[k]
  BY FinalIsIntended DEF SettingsInv
<1>2. S!Valid(Final) <=> S!Valid(S!Intended)
  BY <1>1, ValidReadsExtracted
<1>3. {"url", "path", "bucket"} \subseteq S!Extracted
  BY DEF S!Extracted, S!Keys, S!Defaults
<1>4. Final.url = S!Intended.url /\ Final.path = S!Intended.path /\ Final.bucket = S!Intended.bucket
  BY <1>1, <1>3
<1>5. ASSUME pc \in Validated PROVE cfg = Final
  BY <1>5 DEF SettingsInv, ConfigMade
<1>6. ASSUME pc \in {"run", "exited"}
      PROVE  S!Valid(cfg) /\ cfg.bucket > 0 /\ ~S!HasSecret("file")
  BY <1>6 DEF SettingsInv, ChecksHold, Validated, Built
<1> QED BY <1>2, <1>4, <1>5, <1>6
     DEF SettingsInv, ChecksHold, RefusedFor, S!EndsEarned, Validated, Built, S!WantsWebhook, S!WantsFile, S!Valid

-----------------------------------------------------------------------------

\* Whatever the text is, a setting has the type of its key.
LEMMA ConvertTypes ==
  ASSUME NEW k, NEW t
  PROVE  /\ k \in S!Numeric => S!Convert(k, t) \in Int
         /\ k \in {"hook", "tofile"} => S!Convert(k, t) \in BOOLEAN
<1>1. S!Number(t) \in Int
  BY DEF S!Number
<1>2. k \in S!Numeric => S!Convert(k, t) = S!Number(t)
  BY DEF S!Convert, S!Numeric
<1>3. k \in {"hook", "tofile"} => S!Convert(k, t) \in BOOLEAN
  <2>1. k \in {"hook", "tofile"} => k \notin S!Numeric
    BY DEF S!Numeric
  <2> QED BY <2>1, Zenon DEF S!Convert
<1> QED BY <1>1, <1>2, <1>3

\* Every step of main.go keeps the types.
LEMMA SettingsTyped == S!TypeOK /\ [S!Next]_(S!vars) => S!TypeOK'
<1> SUFFICES ASSUME S!TypeOK, [S!Next]_(S!vars) PROVE S!TypeOK'
  OBVIOUS
<1>1. S!Numeric \cup {"hook", "tofile"} \subseteq S!Keys
  BY DEF S!Numeric, S!Keys, S!Defaults
<1>3. CASE S!Extract
  <2> DEFINE t == S!Overlay(given["env"], S!Overlay(given["file"], S!Defaults))
  <2>1. /\ DOMAIN cfg' = S!Keys
        /\ \A k \in S!Keys : \E u : cfg'[k] = S!Convert(k, u)
    BY <1>3 DEF S!Extract, S!Zero
  <2> HIDE DEF t
  <2>2. /\ \A k \in S!Numeric : cfg'[k] \in Int
        /\ {cfg'.hook, cfg'.tofile} \subseteq BOOLEAN
    BY <1>1, <2>1, ConvertTypes
  <2> QED BY <1>3, <2>1, <2>2 DEF S!Extract, S!TypeOK
<1>4. CASE S!Override
  <2>1. /\ DOMAIN cfg' = S!Keys
        /\ \A k \in S!Keys : cfg'[k] = S!Convert(k, given["flag"][k]) \/ cfg'[k] = cfg[k]
    BY <1>4 DEF S!Override
  <2>2. /\ \A k \in S!Numeric : cfg'[k] \in Int
        /\ {cfg'.hook, cfg'.tofile} \subseteq BOOLEAN
    BY <1>1, <2>1, ConvertTypes DEF S!TypeOK
  <2> QED BY <1>4, <2>1, <2>2 DEF S!Override, S!TypeOK
<1>5. CASE UNCHANGED cfg
  <2> USE DEF S!TypeOK, S!Ended, S!Refuse
  <2>1. ASSUME NEW o \in Offers, S!Give(o) PROVE S!TypeOK'
    BY <2>1 DEF S!Give
  <2>2. CASE S!ReadFile \/ S!CheckSecrets \/ S!Validate
    BY <1>5, <2>2 DEF S!ReadFile, S!CheckSecrets, S!Validate
  <2>3. CASE S!BuildAlerters
    BY <1>5, <2>3 DEF S!BuildAlerters
  <2>4. CASE S!BuildRecorder \/ S!LaunchFails \/ S!Launch \/ S!Exit
    BY <1>5, <2>4 DEF S!BuildRecorder, S!LaunchFails, S!Launch, S!Exit
  <2>5. CASE UNCHANGED S!vars
    BY <2>5 DEF S!vars
  <2> QED BY <1>3, <1>4, <2>1, <2>2, <2>3, <2>4, <2>5 DEF S!Next, S!Prepare
<1>6. UNCHANGED cfg \/ S!Extract \/ S!Override
  BY DEF S!Next, S!Prepare, S!Give, S!ReadFile, S!CheckSecrets, S!Validate, S!BuildAlerters,
         S!BuildRecorder, S!LaunchFails, S!Launch, S!Exit, S!vars
<1> QED BY <1>3, <1>4, <1>5, <1>6

\* No flag asks for more workers than there may be.
WorkersAsked ==
  "workers" \in DOMAIN given["flag"] => S!Number(given["flag"]["workers"]) <= MaxCrew

\* It is from an offer.
LEMMA WorkersStep ==
  ASSUME DOMAIN given = S!Sources, WorkersAsked, [S!Next]_(S!vars)
  PROVE  WorkersAsked'
<1>1. ASSUME NEW o \in Offers, S!Give(o) PROVE WorkersAsked'
  <2>1. /\ o.key = "workers" => S!Number(o.text) <= MaxCrew
        /\ o.source \in S!Sources
    BY WorkersAssumption, OffersAssumption DEF S!Sources
  <2>2. CASE o.source # "flag"
    BY <1>1, <2>1, <2>2 DEF S!Give, WorkersAsked, S!Sources
  <2>3. CASE o.source = "flag"
    <3>1. /\ DOMAIN given'["flag"] = DOMAIN given["flag"] \cup {o.key}
          /\ \A k \in DOMAIN given["flag"] \cup {o.key} :
               given'["flag"][k] = IF k = o.key THEN o.text ELSE given["flag"][k]
      BY <1>1, <2>1, <2>3 DEF S!Give
    <3> QED BY <2>1, <3>1 DEF WorkersAsked
  <2> QED BY <2>2, <2>3
<1>2. CASE UNCHANGED given
  BY <1>2 DEF WorkersAsked
<1> QED BY <1>1, <1>2 DEF S!Next, S!Prepare, S!ReadFile, S!CheckSecrets, S!Extract, S!Override,
      S!Validate, S!BuildAlerters, S!BuildRecorder, S!LaunchFails, S!Launch, S!Exit, S!vars

\* So the pool gets one that it has room for.
LEMMA CrewFits ==
  ASSUME SettingsInv, S!TypeOK, WorkersAsked, pc = "launch"
  PROVE  S!CrewSize \in 1..MaxCrew
<1>1. cfg = Final /\ cfg.workers \in Int
  BY DEF SettingsInv, ConfigMade, Validated, Built, S!TypeOK, S!Numeric
<1>2. "workers" \in S!Keys \ S!Extracted /\ "workers" \in S!Flagged
  BY DEF S!Extracted, S!Keys, S!Defaults, S!Flagged, S!Numeric
<1>3. \A t : S!Convert("workers", t) = S!Number(t)
  BY DEF S!Convert, S!Numeric
<1>4. CASE "workers" \in DOMAIN given["flag"]
  <2>1. Final.workers = S!Number(given["flag"]["workers"])
    BY <1>2, <1>3, <1>4 DEF Final
  <2> QED BY <1>1, <1>4, <2>1, CrewAssumption DEF WorkersAsked, S!CrewSize
<1>5. CASE "workers" \notin DOMAIN given["flag"]
  <2> DEFINE no == ""
  <2>1. S!Number(no) = 0
    BY DEF S!Number
  <2>2. S!Zero["workers"] = S!Number(no)
    BY <1>2, <1>3 DEF S!Zero
  <2>3. Final.workers = 0
    BY <1>2, <1>5, <2>1, <2>2 DEF Final, Merged
  <2> QED BY <1>1, <2>3, CrewAssumption DEF S!CrewSize
<1> QED BY <1>4, <1>5

-----------------------------------------------------------------------------

Taking ==
  [line : Lines, events : {{}} \cup {P!Parsed(f, l) : f \in P!FormatNames, l \in Lines}]

PoolTyped ==
  /\ format \in P!FormatNames \cup {"auto", "odd", P!Unset}
  /\ crew \subseteq P!Workers
  /\ queue \in Seq(Lines)
  /\ locked \in [P!Workers -> P!FormatNames \cup {P!Unset}]
  /\ taken \in [P!Workers -> Seq(Taking)]
  /\ DOMAIN holding = P!Workers
  /\ \A w \in P!Workers :
       holding[w] # {} => /\ w \in crew /\ taken[w] # <<>>
                          /\ holding[w] = taken[w][Len(taken[w])].events

\* There is a pool as long as the process runs, and nothing is left in it at the end.
PoolLives ==
  /\ pc \notin {"run", "exited"} =>
       /\ crew = {} /\ format = P!Unset
       /\ \A w \in P!Workers : taken[w] = <<>> /\ locked[w] = P!Unset
  /\ pc \in {"run", "exited"} => format \in P!FormatNames \cup {"auto"}
  /\ pc = "run" => format = cfg.format /\ (crew = {} => closed /\ queue = <<>>)
  /\ pc = "exited" => crew = {} /\ queue = <<>>

\* The first of the lines taken that any format claims.
FirstKnown(s, j) ==
  /\ j \in DOMAIN s /\ P!Claimant(s[j].line) # P!Unset
  /\ \A k \in 1..(j - 1) : P!Claimant(s[k].line) = P!Unset

\* A worker has locked to the format that claims it.
LockOf(s, f) ==
  IF f = P!Unset THEN \A j \in DOMAIN s : P!Claimant(s[j].line) = P!Unset
  ELSE \E j \in DOMAIN s : FirstKnown(s, j) /\ f = P!Claimant(s[j].line)

\* And each line has been judged by what the worker had locked to.
Judged(made, s, i) ==
  \/ made # "auto" /\ s[i].events = P!Parsed(made, s[i].line)
  \/ /\ made = "auto" /\ s[i].events = {}
     /\ \A j \in 1..i : P!Claimant(s[j].line) = P!Unset
  \/ /\ made = "auto"
     /\ \E j \in 1..i : FirstKnown(s, j) /\ s[i].events = P!Parsed(P!Claimant(s[j].line), s[i].line)

PoolJudges ==
  \A w \in P!Workers :
    /\ format = "auto" => LockOf(taken[w], locked[w])
    /\ format # "auto" => locked[w] = P!Unset
    /\ \A i \in DOMAIN taken[w] : Judged(format, taken[w], i)

\* The inductive invariant.
IInv ==
  /\ SettingsInv /\ S!TypeOK /\ WorkersAsked
  /\ PoolTyped /\ PoolLives /\ PoolJudges

-----------------------------------------------------------------------------

\* A set of places in a list of four has a first one.
LEMMA FirstOfFour ==
  ASSUME NEW K \in SUBSET (1..4), K # {}
  PROVE  P!Min(K) \in K /\ \A y \in K : P!Min(K) <= y
<1>1. \E x \in K : \A y \in K : x <= y
  <2>1. 1 \in K \/ 2 \in K \/ 3 \in K \/ 4 \in K
    <3>1. PICK x \in K : TRUE
      OBVIOUS
    <3>2. x = 1 \/ x = 2 \/ x = 3 \/ x = 4
      OBVIOUS
    <3> QED BY <3>1, <3>2
  <2>2. CASE 1 \in K
    BY <2>2
  <2>3. CASE 1 \notin K /\ 2 \in K
    BY <2>3
  <2>4. CASE 1 \notin K /\ 2 \notin K /\ 3 \in K
    BY <2>4
  <2>5. CASE 1 \notin K /\ 2 \notin K /\ 3 \notin K /\ 4 \in K
    BY <2>5
  <2> QED BY <2>1, <2>2, <2>3, <2>4, <2>5
<1> QED BY <1>1 DEF P!Min

\* The format that claims a line knows it.
LEMMA ClaimantKnows ==
  ASSUME NEW l
  PROVE  /\ P!Claimant(l) \in P!FormatNames \cup {P!Unset}
         /\ P!Claimant(l) # P!Unset => P!Parsed(P!Claimant(l), l) # {}
         /\ P!Unset \notin P!FormatNames /\ "auto" \notin P!FormatNames
<1> DEFINE K == {i \in 1..4 : P!Parsed(P!DocumentedOrder[i], l) # {}}
<1>1. DOMAIN P!DocumentedOrder = 1..4 /\ \A i \in 1..4 : P!DocumentedOrder[i] \in P!FormatNames
  BY DEF P!DocumentedOrder, P!FormatNames
<1>2. P!Claimant(l) = IF K = {} THEN P!Unset ELSE P!DocumentedOrder[P!Min(K)]
  BY <1>1 DEF P!Claimant, P!FirstToKnow
<1>3. K # {} => P!Min(K) \in K
  BY FirstOfFour
<1>4. P!Unset \notin P!FormatNames /\ "auto" \notin P!FormatNames
  BY DEF P!Unset, P!FormatNames
<1> QED BY <1>1, <1>2, <1>3, <1>4

\* The automatic parser tries the candidates in the order documented.
LEMMA ProbeIsClaimant == \A l : P!Probe(l) = P!Claimant(l)
BY DEF P!Probe, P!Claimant, P!Probes, P!DocumentedOrder

\* One more line has been taken, and what had been judged is judged as before.
OneMore(made, s, t, u) ==
  /\ u \in Seq(Taking) /\ Len(u) = Len(s) + 1 /\ u # <<>>
  /\ DOMAIN s = 1..Len(s) /\ DOMAIN u = 1..(Len(s) + 1) /\ Len(s) \in Nat
  /\ u[Len(s) + 1] = t /\ \A j \in DOMAIN s : u[j] = s[j]
  /\ \A j \in DOMAIN s : FirstKnown(s, j) => FirstKnown(u, j)
  /\ \A i \in DOMAIN s : Judged(made, s, i) => Judged(made, u, i)

\* What has been judged stays so when more lines are taken.
LEMMA MoreLines ==
  ASSUME NEW made, NEW s \in Seq(Taking), NEW t \in Taking, NEW u, u = Append(s, t)
  PROVE  OneMore(made, s, t, u)
<1>1. /\ u \in Seq(Taking) /\ Len(u) = Len(s) + 1 /\ u # <<>> /\ Len(s) \in Nat
      /\ DOMAIN s = 1..Len(s) /\ DOMAIN u = 1..(Len(s) + 1)
      /\ u[Len(s) + 1] = t /\ \A j \in DOMAIN s : u[j] = s[j]
  <2>1. Append(s, t) \in Seq(Taking) /\ Len(Append(s, t)) = Len(s) + 1 /\ Len(s) \in Nat
    OBVIOUS
  <2>2. DOMAIN s = 1..Len(s) /\ DOMAIN u = 1..(Len(s) + 1)
    BY <2>1
  <2>3. Append(s, t)[Len(s) + 1] = t /\ \A j \in 1..Len(s) : Append(s, t)[j] = s[j]
    BY <2>1
  <2> QED BY <2>1, <2>2, <2>3
<1>2. ASSUME NEW j \in DOMAIN s, FirstKnown(s, j) PROVE FirstKnown(u, j)
  <2>1. \A k \in 1..(j - 1) : k \in DOMAIN s
    BY <1>1
  <2> QED BY <1>1, <1>2, <2>1 DEF FirstKnown
<1>3. ASSUME NEW i \in DOMAIN s, Judged(made, s, i) PROVE Judged(made, u, i)
  <2>1. \A j \in 1..i : j \in DOMAIN s
    BY <1>1
  <2> QED BY <1>1, <1>2, <1>3, <2>1 DEF Judged
<1> QED BY <1>1, <1>2, <1>3 DEF OneMore

-----------------------------------------------------------------------------

\* The pool and the lines leave the settings alone.
LEMMA SettingsOnly == [Next]_vars => [S!Next]_(S!vars)
<1> SUFFICES ASSUME [Next]_vars PROVE [S!Next]_(S!vars)
  OBVIOUS
<1>1. CASE Give
  BY <1>1 DEF Give, S!Next
<1>2. CASE Prepare
  BY <1>2 DEF Prepare, S!Next
<1>3. CASE Start
  BY <1>3 DEF Start, S!Next
<1>4. CASE Exit
  BY <1>4 DEF Exit, S!Next
<1>5. CASE Write \/ CloseInput \/ Finished \/ UNCHANGED vars
  BY <1>5 DEF Write, CloseInput, Finished, vars, startVars, S!vars
<1>6. ASSUME NEW w \in 1..MaxCrew, Work(w) PROVE UNCHANGED S!vars
  BY <1>6 DEF Work, startVars, S!vars
<1> QED BY <1>1, <1>2, <1>3, <1>4, <1>5, <1>6 DEF Next

\* At the start there are no lines and no workers.
LEMMA Initially == Init => IInv
<1> SUFFICES ASSUME Init PROVE IInv
  OBVIOUS
<1>1. SettingsInv
  BY SettingsInitially DEF Init
<1>2. S!TypeOK
  <2>1. S!Numeric \cup {"hook", "tofile"} \subseteq S!Keys
    BY DEF S!Numeric, S!Keys, S!Defaults
  <2>2. cfg = S!Zero /\ DOMAIN cfg = S!Keys /\ \A k \in S!Keys : \E t : cfg[k] = S!Convert(k, t)
    BY DEF Init, S!Init, S!Zero
  <2>3. /\ \A k \in S!Numeric : cfg[k] \in Int
        /\ {cfg.hook, cfg.tofile} \subseteq BOOLEAN
    BY <2>1, <2>2, ConvertTypes
  <2> QED BY <2>2, <2>3 DEF Init, S!Init, S!TypeOK
<1>3. WorkersAsked
  BY DEF Init, S!Init, S!Sources, WorkersAsked
<1>4. PoolTyped
  BY DEF Init, P!Init, PoolTyped
<1>5. PoolLives
  BY DEF Init, P!Init, S!Init, PoolLives
<1>6. PoolJudges
  BY DEF Init, P!Init, PoolJudges, LockOf
<1> QED BY <1>1, <1>2, <1>3, <1>4, <1>5, <1>6 DEF IInv

\* A worker takes a line: it is judged by what the worker has locked to, or locks to now.
LEMMA TakeKeeps ==
  ASSUME IInv, pc = "run", NEW w \in P!Workers, P!WorkerTake(w), UNCHANGED startVars
  PROVE  PoolTyped' /\ PoolLives' /\ PoolJudges'
<1>1. PoolTyped /\ PoolLives /\ PoolJudges
  BY DEF IInv
<1> DEFINE l == Head(queue)
           f == P!Choice(w, l)
           events == IF f = P!Unset THEN {} ELSE P!Parsed(f, l)
           t == [line |-> l, events |-> events]
<1>2. /\ w \in crew /\ queue # <<>> /\ queue' = Tail(queue)
      /\ locked' = [locked EXCEPT ![w] = IF format = "auto" THEN f ELSE @]
      /\ holding' = [holding EXCEPT ![w] = events]
      /\ taken' = [taken EXCEPT ![w] = Append(@, t)]
      /\ UNCHANGED <<format, crew, closed, pc, cfg>>
  BY DEF P!WorkerTake, startVars
<1>3. l \in Lines /\ queue' \in Seq(Lines)
  BY <1>1, <1>2 DEF PoolTyped
<1>4. format \in P!FormatNames \cup {"auto"}
  BY <1>1 DEF PoolLives
<1>5. /\ f \in P!FormatNames \cup {P!Unset}
      /\ format # "auto" => f = format
      /\ format = "auto" => f = IF locked[w] # P!Unset THEN locked[w] ELSE P!Claimant(l)
  <2>1. locked[w] \in P!FormatNames \cup {P!Unset}
    BY <1>1 DEF PoolTyped
  <2> QED BY <1>4, <2>1, ClaimantKnows, ProbeIsClaimant DEF P!Choice
<1> HIDE DEF l, f
<1>6. t \in Taking
  BY <1>3, <1>5 DEF Taking
<1>7. taken[w] \in Seq(Taking)
  BY <1>1 DEF PoolTyped
<1> DEFINE u == Append(taken[w], t)
<1>8. /\ u \in Seq(Taking) /\ Len(u) = Len(taken[w]) + 1 /\ u # <<>>
      /\ DOMAIN taken[w] = 1..Len(taken[w]) /\ DOMAIN u = 1..(Len(taken[w]) + 1)
      /\ Len(taken[w]) \in Nat
      /\ u[Len(taken[w]) + 1] = t /\ \A j \in DOMAIN taken[w] : u[j] = taken[w][j]
      /\ \A j \in DOMAIN taken[w] : FirstKnown(taken[w], j) => FirstKnown(u, j)
      /\ \A i \in DOMAIN taken[w] : Judged(format, taken[w], i) => Judged(format, u, i)
  <2>1. u = Append(taken[w], t)
    OBVIOUS
  <2> HIDE DEF t, u
  <2>2. OneMore(format, taken[w], t, u)
    BY <1>6, <1>7, <2>1, MoreLines
  <2> QED BY <2>2 DEF OneMore
<1>9. taken'[w] = u /\ \A x \in P!Workers \ {w} : taken'[x] = taken[x]
  BY <1>1, <1>2 DEF PoolTyped
<1>10. DOMAIN taken' = P!Workers /\ DOMAIN locked' = P!Workers /\ DOMAIN holding' = P!Workers
  BY <1>1, <1>2 DEF PoolTyped
<1>11. /\ locked'[w] = IF format = "auto" THEN f ELSE locked[w]
       /\ holding'[w] = events
       /\ \A x \in P!Workers \ {w} : locked'[x] = locked[x] /\ holding'[x] = holding[x]
  BY <1>1, <1>2 DEF PoolTyped
<1>12. events = t.events /\ l = t.line
  OBVIOUS
<1>13. format = "auto" => LockOf(u, f) /\ Judged(format, u, Len(taken[w]) + 1)
  <2> SUFFICES ASSUME format = "auto" PROVE LockOf(u, f) /\ Judged(format, u, Len(taken[w]) + 1)
    OBVIOUS
  <2>1. LockOf(taken[w], locked[w])
    BY <1>1 DEF PoolJudges
  <2> HIDE DEF u, t
  <2>2. CASE locked[w] # P!Unset
    <3>1. PICK j \in DOMAIN taken[w] : FirstKnown(taken[w], j) /\ locked[w] = P!Claimant(taken[w][j].line)
      BY <2>1, <2>2 DEF LockOf
    <3>2. j \in DOMAIN u /\ j \in 1..(Len(taken[w]) + 1) /\ FirstKnown(u, j) /\ f = P!Claimant(u[j].line)
      BY <1>5, <1>8, <2>2, <3>1
    <3>3. events = P!Parsed(f, l)
      BY <1>5, <2>2
    <3> HIDE DEF events
    <3> QED BY <1>5, <1>8, <1>12, <2>2, <3>2, <3>3 DEF LockOf, Judged
  <2>3. CASE locked[w] = P!Unset /\ f # P!Unset
    <3>1. \A j \in DOMAIN taken[w] : P!Claimant(taken[w][j].line) = P!Unset
      BY <2>1, <2>3 DEF LockOf
    <3>2. f = P!Claimant(l) /\ events = P!Parsed(f, l)
      BY <1>5, <2>3
    <3> HIDE DEF events
    <3>3. \A k \in 1..(Len(taken[w]) + 1 - 1) : k \in DOMAIN taken[w]
      BY <1>8
    <3>4. Len(taken[w]) + 1 \in DOMAIN u /\ FirstKnown(u, Len(taken[w]) + 1)
      BY <1>8, <1>12, <2>3, <3>1, <3>2, <3>3 DEF FirstKnown
    <3> QED BY <1>8, <1>12, <2>3, <3>2, <3>4 DEF LockOf, Judged
  <2>4. CASE locked[w] = P!Unset /\ f = P!Unset
    <3>1. \A j \in DOMAIN taken[w] : P!Claimant(taken[w][j].line) = P!Unset
      BY <2>1, <2>4 DEF LockOf
    <3>2. P!Claimant(l) = P!Unset /\ events = {}
      BY <1>5, <2>4
    <3> HIDE DEF events
    <3>3. \A j \in DOMAIN u : P!Claimant(u[j].line) = P!Unset
      BY <1>8, <1>12, <3>1, <3>2
    <3> QED BY <1>8, <1>12, <2>4, <3>2, <3>3 DEF LockOf, Judged
  <2> QED BY <2>2, <2>3, <2>4
<1>14. format # "auto" => Judged(format, u, Len(taken[w]) + 1)
  <2> SUFFICES ASSUME format # "auto" PROVE Judged(format, u, Len(taken[w]) + 1)
    OBVIOUS
  <2>1. f = format /\ f # P!Unset
    BY <1>4, <1>5, ClaimantKnows
  <2>2. events = P!Parsed(format, l)
    BY <2>1
  <2> HIDE DEF u, t, events
  <2> DEFINE m == Len(taken[w]) + 1
  <2>3. u[m].events = events /\ u[m].line = l
    BY <1>8, <1>12
  <2> HIDE DEF m
  <2>4. u[m].events = P!Parsed(format, u[m].line)
    BY <2>2, <2>3
  <2>5. Judged(format, u, m)
    BY <2>4, Zenon DEF Judged
  <2> QED BY <2>5 DEF m
<1> HIDE DEF u, t, events
<1>15. PoolTyped'
  <2>1. \A x \in P!Workers : taken'[x] \in Seq(Taking) /\ locked'[x] \in P!FormatNames \cup {P!Unset}
    BY <1>1, <1>5, <1>8, <1>9, <1>11 DEF PoolTyped
  <2>2. taken' \in [P!Workers -> Seq(Taking)] /\ locked' \in [P!Workers -> P!FormatNames \cup {P!Unset}]
    <3>1. taken' = [x \in P!Workers |-> taken'[x]] /\ locked' = [x \in P!Workers |-> locked'[x]]
      BY <1>1, <1>2 DEF PoolTyped
    <3> QED BY <2>1, <3>1
  <2>3. ASSUME NEW x \in P!Workers, holding'[x] # {}
        PROVE  /\ x \in crew' /\ taken'[x] # <<>>
               /\ holding'[x] = taken'[x][Len(taken'[x])].events
    <3>1. CASE x = w
      BY <1>2, <1>8, <1>9, <1>11, <1>12, <3>1
    <3>2. CASE x # w
      BY <1>1, <1>2, <1>9, <1>11, <2>3, <3>2 DEF PoolTyped
    <3> QED BY <3>1, <3>2
  <2> QED BY <1>1, <1>2, <1>3, <1>10, <2>2, <2>3 DEF PoolTyped
<1>16. PoolLives'
  BY <1>1, <1>2 DEF PoolLives
<1>17. PoolJudges'
  <2>1. ASSUME NEW x \in P!Workers
        PROVE  /\ format = "auto" => LockOf(taken'[x], locked'[x])
               /\ format # "auto" => locked'[x] = P!Unset
               /\ \A i \in DOMAIN taken'[x] : Judged(format, taken'[x], i)
    <3>1. CASE x = w
      <4>1. \A i \in DOMAIN u : i \in DOMAIN taken[w] \/ i = Len(taken[w]) + 1
        BY <1>8
      <4>2. \A i \in DOMAIN taken[w] : Judged(format, taken[w], i)
        BY <1>1 DEF PoolJudges
      <4>3. format # "auto" => locked'[x] = P!Unset
        BY <1>1, <1>11, <3>1 DEF PoolJudges
      <4> QED BY <4>3, <1>8, <1>9, <1>11, <1>13, <1>14, <3>1, <4>1, <4>2
    <3>2. CASE x # w
      BY <1>1, <1>9, <1>11, <3>2 DEF PoolJudges
    <3> QED BY <3>1, <3>2
  <2> QED BY <1>2, <2>1 DEF PoolJudges
<1> QED BY <1>15, <1>16, <1>17

\* The rest of what the pool does: a worker sends its event or returns.
LEMMA WorkKeeps ==
  ASSUME IInv, NEW w \in 1..MaxCrew, Work(w)
  PROVE  PoolTyped' /\ PoolLives' /\ PoolJudges'
<1>1. PoolTyped /\ PoolLives /\ PoolJudges
  BY DEF IInv
<1>2. pc = "run" /\ UNCHANGED startVars /\ w \in P!Workers
  BY DEF Work, P!Workers
<1>3. CASE P!WorkerTake(w)
  BY <1>2, <1>3, TakeKeeps
<1>4. CASE P!WorkerSend(w)
  <2>1. holding' = [holding EXCEPT ![w] = {}]
    BY <1>4 DEF P!WorkerSend
  <2> QED BY <1>1, <1>2, <1>4, <2>1 DEF P!WorkerSend, startVars, PoolTyped, PoolLives, PoolJudges
<1>5. CASE P!WorkerReturn(w)
  BY <1>1, <1>2, <1>5 DEF P!WorkerReturn, startVars, PoolTyped, PoolLives, PoolJudges
<1> QED BY <1>3, <1>4, <1>5 DEF Work, P!Worker

\* The process starts the pool, feeds it, closes its input, and ends when it has returned.
LEMMA RestKeeps ==
  ASSUME IInv, Give \/ Prepare \/ Start \/ Write \/ CloseInput \/ Exit \/ UNCHANGED vars
  PROVE  PoolTyped' /\ PoolLives' /\ PoolJudges'
<1>1. PoolTyped /\ PoolLives /\ PoolJudges /\ SettingsInv /\ S!TypeOK /\ WorkersAsked
  BY DEF IInv
<1>2. CASE Give \/ Prepare
  <2>1. UNCHANGED poolVars /\ pc \notin {"run", "exited"} /\ pc' \notin {"run", "exited"}
    BY <1>2 DEF Give, Prepare, S!Give, S!Prepare, S!ReadFile, S!CheckSecrets, S!Extract, S!Override,
      S!Validate, S!BuildAlerters, S!BuildRecorder, S!LaunchFails, S!Refuse
  <2> QED BY <1>1, <2>1 DEF poolVars, PoolTyped, PoolLives, PoolJudges
<1>3. CASE Start /\ pc' = "run"
  <2>1. /\ pc = "launch" /\ cfg' = cfg
        /\ format' = cfg.format
        /\ crew' = 1..(IF S!CrewSize < 1 THEN 1 ELSE S!CrewSize)
        /\ UNCHANGED <<queue, closed, locked, holding, taken>>
    BY <1>3 DEF Start, S!Launch, P!Open
  <2>2. S!CrewSize \in 1..MaxCrew
    BY <1>1, <2>1, CrewFits
  <2>3. crew' = 1..S!CrewSize /\ crew' \subseteq P!Workers /\ crew' # {}
    BY <2>1, <2>2, CrewAssumption DEF P!Workers
  <2>4. cfg.format \in P!FormatNames \cup {"auto"}
    BY <1>1, <2>1 DEF SettingsInv, ChecksHold, Validated, Built, S!Valid, P!FormatNames
  <2>5. \A w \in P!Workers : taken[w] = <<>> /\ locked[w] = P!Unset /\ holding[w] = {}
    BY <1>1, <2>1 DEF PoolLives, PoolTyped
  <2>6. PoolTyped'
    BY <1>1, <2>1, <2>3, <2>4, <2>5 DEF PoolTyped
  <2>7. PoolLives'
    BY <1>3, <2>1, <2>3, <2>4 DEF PoolLives
  <2>8. PoolJudges'
    BY <2>1, <2>5 DEF PoolJudges, LockOf
  <2> QED BY <2>6, <2>7, <2>8
<1>4. CASE Start /\ pc' # "run"
  <2>1. UNCHANGED poolVars /\ pc = "launch" /\ pc' = "crashed"
    BY <1>4 DEF Start, S!Launch
  <2> QED BY <1>1, <2>1 DEF poolVars, PoolTyped, PoolLives, PoolJudges
<1>5. CASE Write
  <2>1. PICK l \in Lines : P!Feed(l)
    BY <1>5 DEF Write
  <2>2. /\ ~closed /\ queue' = Append(queue, l) /\ queue' \in Seq(Lines) /\ pc = "run"
        /\ UNCHANGED <<format, crew, closed, locked, holding, taken, pc, cfg>>
    BY <1>1, <1>5, <2>1 DEF Write, P!Feed, startVars, PoolTyped
  <2> QED BY <1>1, <2>2 DEF PoolTyped, PoolLives, PoolJudges
<1>6. CASE CloseInput
  BY <1>1, <1>6 DEF CloseInput, P!Close, startVars, PoolTyped, PoolLives, PoolJudges
<1>7. CASE Exit
  <2>1. UNCHANGED poolVars /\ closed /\ crew = {} /\ pc = "run" /\ pc' = "exited"
    BY <1>7 DEF Exit, S!Exit
  <2>2. queue = <<>>
    BY <1>1, <2>1 DEF PoolLives
  <2> QED BY <1>1, <2>1, <2>2 DEF poolVars, PoolTyped, PoolLives, PoolJudges
<1>8. CASE UNCHANGED vars
  BY <1>1, <1>8 DEF vars, startVars, poolVars, PoolTyped, PoolLives, PoolJudges
<1> QED BY <1>2, <1>3, <1>4, <1>5, <1>6, <1>7, <1>8

\* Every step keeps the invariant.
LEMMA Consecution == IInv /\ [Next]_vars => IInv'
<1> SUFFICES ASSUME IInv, [Next]_vars PROVE IInv'
  OBVIOUS
<1>1. SettingsInv' /\ S!TypeOK' /\ WorkersAsked'
  <2>1. [S!Next]_(S!vars)
    BY SettingsOnly
  <2>2. SettingsInv /\ S!TypeOK /\ WorkersAsked /\ DOMAIN given = S!Sources
    BY DEF IInv, SettingsInv
  <2> QED BY <2>1, <2>2, SettingsStep, SettingsTyped, WorkersStep
<1>2. PoolTyped' /\ PoolLives' /\ PoolJudges'
  BY WorkKeeps, RestKeeps DEF Next, Finished
<1> QED BY <1>1, <1>2 DEF IInv

\* What the checks of loadConfig and Validate have established stays established to
\* the end of the process, and the pool lives by it.
THEOREM Invariance == Spec => []IInv
BY Initially, Consecution, PTL DEF Spec

\* The pool and the lines leave the settings alone: Service implements Startup.
THEOREM ImplementsStartup == Spec => S!Spec
<1>1. Init => S!Init
  BY DEF Init
<1> QED BY <1>1, SettingsOnly, PTL DEF Spec, S!Spec

\* README.md:377, whatever lines come: flags over environment over file over defaults.
THEOREM Precedence == Spec => []SettingsPrecedence
<1>1. IInv => SettingsPrecedence
  BY PrecedenceHolds DEF IInv, SettingsPrecedence
<1> QED BY <1>1, Invariance, PTL

\* Every end of the process, and its running, is earned, whatever lines come.
THEOREM Earned == Spec => []EndsEarned
<1>1. IInv => EndsEarned
  BY EndsAreEarned DEF IInv, EndsEarned
<1> QED BY <1>1, Invariance, PTL

\* Types; a process that has exited has left no line in its pool and no event.
THEOREM TypeCorrect == Spec => []TypeOK
<1>1. IInv => TypeOK
  <2> SUFFICES ASSUME IInv PROVE TypeOK
    OBVIOUS
  <2>1. S!TypeOK /\ PoolTyped /\ PoolLives /\ PoolJudges
    BY DEF IInv
  <2>2. ASSUME NEW w \in P!Workers, locked[w] # P!Unset PROVE taken[w] # <<>>
    <3>1. format = "auto" /\ LockOf(taken[w], locked[w])
      BY <2>1, <2>2 DEF PoolJudges
    <3> QED BY <2>2, <3>1 DEF LockOf
  <2>3. P!TypeOK
    BY <2>1, <2>2 DEF PoolTyped, P!TypeOK, P!Last
  <2>4. pc = "exited" => \A w \in 1..MaxCrew : holding[w] = {}
    BY <2>1 DEF PoolTyped, PoolLives, P!Workers
  <2> QED BY <2>1, <2>3, <2>4 DEF PoolLives, TypeOK, P!Unset
<1> QED BY <1>1, Invariance, PTL

\* The first of the lines known is what Min finds.
LEMMA FirstIsMin ==
  ASSUME NEW K \in SUBSET Nat, NEW j \in K, \A k \in K : j <= k
  PROVE  P!Min(K) = j
<1>1. P!Min(K) \in K /\ \A k \in K : P!Min(K) <= k
  BY DEF P!Min
<1>2. P!Min(K) <= j /\ j <= P!Min(K) /\ P!Min(K) \in Nat /\ j \in Nat
  BY <1>1
<1> QED BY <1>2

\* What becomes of a line depends on the lines its own worker took before it and on
\* nothing else: it is judged by the format of the pool or, if that is to be detected,
\* by the one that claims the first line of this worker that any format claims.
EachForItself ==
  \A w \in P!Workers : \A i \in DOMAIN taken[w] :
    LET line(j) == taken[w][j].line
        known == {j \in 1..i : P!Claimant(line(j)) # P!Unset}
        judge == IF format # "auto" THEN format
                 ELSE IF known = {} THEN P!Unset ELSE P!Claimant(line(P!Min(known)))
    IN  taken[w][i].events = IF judge = P!Unset THEN {} ELSE P!Parsed(judge, line(i))

\* Detection is each worker's own, and final: a later line never changes it, and no
\* other worker does. That is what the code has in place of the one race across all
\* workers of docs/application_knowledge.md:283.
THEOREM EachDetects == Spec => []EachForItself
<1>1. IInv => EachForItself
  <2> SUFFICES ASSUME IInv, NEW w \in P!Workers, NEW i \in DOMAIN taken[w]
               PROVE  LET line(j) == taken[w][j].line
                          known == {j \in 1..i : P!Claimant(line(j)) # P!Unset}
                          judge == IF format # "auto" THEN format
                                   ELSE IF known = {} THEN P!Unset ELSE P!Claimant(line(P!Min(known)))
                      IN  taken[w][i].events = IF judge = P!Unset THEN {} ELSE P!Parsed(judge, line(i))
    BY DEF EachForItself
  <2> DEFINE line(j) == taken[w][j].line
             known == {j \in 1..i : P!Claimant(line(j)) # P!Unset}
  <2>1. taken[w] \in Seq(Taking) /\ i \in Nat
    BY DEF IInv, PoolTyped
  <2>2. Judged(format, taken[w], i)
    BY DEF IInv, PoolJudges
  <2>3. CASE format # "auto"
    <3>1. format # P!Unset
      <4>1. taken[w] # <<>>
        BY <2>1
      <4>2. pc \in {"run", "exited"}
        BY <4>1 DEF IInv, PoolLives
      <4>3. format \in P!FormatNames \cup {"auto"}
        BY <4>2 DEF IInv, PoolLives
      <4> QED BY <2>3, <4>3, ClaimantKnows
    <3> QED BY <2>2, <2>3, <3>1 DEF Judged
  <2>4. CASE format = "auto" /\ \A j \in 1..i : P!Claimant(line(j)) = P!Unset
    <3>1. taken[w][i].events = {}
      BY <2>1, <2>2, <2>4 DEF Judged, FirstKnown
    <3> QED BY <2>4, <3>1
  <2>5. CASE format = "auto" /\ \E j \in 1..i : P!Claimant(line(j)) # P!Unset
    <3>1. PICK j \in 1..i : /\ FirstKnown(taken[w], j)
                            /\ taken[w][i].events = P!Parsed(P!Claimant(line(j)), line(i))
      BY <2>2, <2>5 DEF Judged
    <3>2. j \in known /\ known \subseteq Nat /\ \A k \in known : j <= k
      BY <2>1, <3>1 DEF FirstKnown
    <3>3. P!Min(known) = j
      <4> HIDE DEF known
      <4> QED BY <3>2, FirstIsMin
    <3>4. known # {} /\ P!Claimant(line(P!Min(known))) # P!Unset
      BY <3>2, <3>3
    <3> QED BY <2>5, <3>1, <3>3, <3>4
  <2> QED BY <2>3, <2>4, <2>5
<1> QED BY <1>1, Invariance, PTL

\* An input that one format claims as a whole loses no line to detection, however many
\* workers share it.
THEOREM Lossless == Spec => []HomogeneousLossless
<1>1. IInv => HomogeneousLossless
  <2> DEFINE known == {t \in P!Takings : P!Claimant(t.line) # P!Unset}
  <2> SUFFICES ASSUME IInv, format = "auto", NEW t \in known,
                      \A x, y \in known : P!Claimant(x.line) = P!Claimant(y.line)
               PROVE  t.events # {}
    BY DEF HomogeneousLossless, P!HomogeneousLossless
  <2>1. \A x : x \in P!Takings <=> \E w \in P!Workers : \E i \in DOMAIN taken[w] : x = taken[w][i]
    BY DEF P!Takings, P!ToSet
  <2>2. PICK w \in P!Workers : \E i \in DOMAIN taken[w] : t = taken[w][i]
    BY <2>1
  <2> PICK i \in DOMAIN taken[w] : t = taken[w][i]
    BY <2>2
  <2>3. Judged(format, taken[w], i) /\ taken[w] \in Seq(Taking)
    BY DEF IInv, PoolJudges, PoolTyped
  <2>4. P!Claimant(t.line) # P!Unset /\ i \in 1..i
    BY <2>3
  <2>5. PICK j \in 1..i : /\ FirstKnown(taken[w], j)
                          /\ t.events = P!Parsed(P!Claimant(taken[w][j].line), t.line)
    BY <2>3, <2>4 DEF Judged
  <2>6. taken[w][j] \in known
    BY <2>1, <2>5 DEF FirstKnown
  <2>7. P!Claimant(taken[w][j].line) = P!Claimant(t.line)
    BY <2>6
  <2> QED BY <2>4, <2>5, <2>7, ClaimantKnows
<1> QED BY <1>1, Invariance, PTL

-----------------------------------------------------------------------------

\* What FirstOf finds in a list of up to four keys: the value under the first that fits.
LEMMA FirstOfFinds ==
  ASSUME NEW obj, NEW keys, NEW fit, NEW default, NEW n \in 1..4, DOMAIN keys = 1..n
  PROVE  LET v == P!FirstOf(obj, keys, fit, default)
         IN  \/ v = default /\ \A i \in 1..n : keys[i] \notin fit
             \/ \E i \in 1..n : /\ keys[i] \in fit /\ v = obj[keys[i]].val
                              /\ \A j \in 1..(i - 1) : keys[j] \notin fit
<1> DEFINE hits == {i \in 1..n : keys[i] \in fit}
           v == P!FirstOf(obj, keys, fit, default)
<1>1. v = IF hits = {} THEN default ELSE obj[keys[P!Min(hits)]].val
  BY DEF P!FirstOf
<1>2. CASE hits = {}
  BY <1>1, <1>2
<1>3. CASE hits # {}
  <2>1. P!Min(hits) \in hits /\ \A y \in hits : P!Min(hits) <= y
    <3> hits \in SUBSET (1..4)
      OBVIOUS
    <3> HIDE DEF hits
    <3> QED BY <1>3, FirstOfFour
  <2> DEFINE i == P!Min(hits)
  <2>2. i \in 1..n /\ keys[i] \in fit /\ v = obj[keys[i]].val
    BY <1>1, <1>3, <2>1
  <2>3. \A j \in 1..(i - 1) : keys[j] \notin fit
    <3>1. \A y \in 1..n : keys[y] \in fit => i <= y
      BY <2>1
    <3> HIDE DEF i
    <3> QED BY <2>2, <3>1
  <2> HIDE DEF i
  <2> QED BY <2>2, <2>3
<1> QED BY <1>2, <1>3

\* A priority is 8 times the facility and the severity; errors have the severities up to 3.
LEMMA Severity ==
  ASSUME NEW pri \in Nat
  PROVE  P!PriToLevel(pri) \in {"error", "fatal"}
           <=> \E facility \in 0..pri : pri \in (8 * facility)..(8 * facility + 3)
<1> DEFINE q == pri % 8
<1>1. q \in 0..7 /\ pri \div 8 \in 0..pri /\ pri = 8 * (pri \div 8) + q
  OBVIOUS
<1>2. /\ q \in 0..2 \/ (q = 3 /\ q \notin 0..2) \/ (q = 4 /\ q \notin 0..2 /\ q # 3)
         \/ (q \notin 0..2 /\ q # 3 /\ q # 4)
      /\ q \in 0..3 <=> q \in 0..2 \/ q = 3
  BY <1>1
<1>3. P!PriToLevel(pri) \in {"error", "fatal"} <=> q \in 0..2 \/ q = 3
  <2>1. P!PriToLevel(pri) = CASE q \in 0..2 -> "fatal" [] q = 3 -> "error" [] q = 4 -> "warn"
                              [] q \in 5..6 -> "info" [] OTHER -> "debug"
    BY DEF P!PriToLevel
  <2> HIDE DEF q
  <2>2. CASE q \in 0..2
    <3>1. q # 3 /\ q # 4 /\ q \notin 5..6
      BY <2>2
    <3> QED BY <2>1, <2>2, <3>1, Zenon
  <2>3. CASE q = 3
    <3>1. q \notin 0..2 /\ q # 4 /\ q \notin 5..6
      BY <2>3
    <3> QED BY <2>1, <2>3, <3>1, Zenon
  <2>4. CASE q = 4
    <3>1. q \notin 0..2 /\ q # 3 /\ q \notin 5..6
      BY <2>4
    <3> QED BY <2>1, <2>4, <3>1, Zenon
  <2>5. CASE q \notin 0..2 /\ q # 3 /\ q # 4 /\ q \in 5..6
    BY <2>1, <2>5, Zenon
  <2>6. CASE q \notin 0..2 /\ q # 3 /\ q # 4 /\ q \notin 5..6
    BY <2>1, <2>6, Zenon
  <2> QED BY <2>2, <2>3, <2>4, <2>5, <2>6
<1>4. q \in 0..3 <=> \E facility \in 0..pri : pri \in (8 * facility)..(8 * facility + 3)
  <2>1. ASSUME q \in 0..3 PROVE \E facility \in 0..pri : pri \in (8 * facility)..(8 * facility + 3)
    BY <1>1, <2>1
  <2>2. ASSUME NEW f \in 0..pri, pri \in (8 * f)..(8 * f + 3) PROVE q \in 0..3
    <3> DEFINE d == pri \div 8
    <3>1. d \in Nat /\ q \in 0..7 /\ pri = 8 * d + q
      BY <1>1
    <3> HIDE DEF d, q
    <3>2. d = f
      BY <2>2, <3>1
    <3> QED BY <2>2, <3>1, <3>2
  <2> QED BY <2>1, <2>2
<1> QED BY <1>2, <1>3, <1>4

\* Each parser tells the counter what its line says.
LEMMA SaysWhatTheLineSays ==
  ASSUME NEW f \in P!FormatNames, NEW l \in Lines, NEW e \in P!Parsed(f, l)
  PROVE  (P!IsError(e) <=> P!SaysError(f, l)) /\ P!SaysLatency(f, l, e.lat)
<1>1. /\ \A m, n \in l.access : m = n
      /\ \A m, n \in l.syslog : m = n
      /\ \A m, n \in l.json : m = n
      /\ \A m \in l.access : m.status \in Nat /\ m.secs \in Nat
      /\ \A m \in l.syslog : m.pri \in Nat
      /\ \A obj \in l.json : \A k \in P!Numbers(obj) : obj[k].val \in Int
  BY LinesAssumption
<1> DEFINE nothing == ""
<1>2. /\ P!NoEvent = [host |-> nothing, status |-> 0, level |-> nothing, lat |-> 0]
      /\ nothing \notin {"error", "fatal"}
      /\ f \in {"nginx", "apache", "syslog", "json"}
  BY Zenon DEF P!NoEvent, P!FormatNames
<1> HIDE DEF nothing
<1>3. CASE f \in {"nginx", "apache"}
  <2>1. P!Parsed(f, l) \in {P!NginxParse(l), P!ApacheParse(l)}
    <3>1. f = "nginx" => P!Parsed(f, l) = P!NginxParse(l)
      BY Zenon DEF P!Parsed
    <3>2. f = "apache" => P!Parsed(f, l) = P!ApacheParse(l)
      BY Zenon DEF P!Parsed
    <3> QED BY <1>3, <3>1, <3>2
  <2>2. PICK m \in l.access : /\ e.status = m.status /\ e.level = nothing
                              /\ f = "nginx" => e.lat = 1000 * m.secs
                              /\ f = "apache" => e.lat = 0
    <3>1. CASE f = "nginx"
      <4>1. e \in P!NginxParse(l)
        BY <3>1, Zenon DEF P!Parsed
      <4>2. PICK m \in l.access :
              e = [P!NoEvent EXCEPT !.host = m.host, !.status = m.status, !.lat = 1000 * m.secs]
        <5> DEFINE made(m) == [P!NoEvent EXCEPT !.host = m.host, !.status = m.status, !.lat = 1000 * m.secs]
        <5>1. P!NginxParse(l) = {made(m) : m \in {x \in l.access : x.agents}}
          BY DEF P!NginxParse
        <5> HIDE DEF made
        <5>2. \E m \in l.access : e = made(m)
          BY <4>1, <5>1
        <5> QED BY <5>2 DEF made
      <4> QED BY <1>2, <3>1, <4>2
    <3>2. CASE f = "apache"
      <4>1. e \in P!ApacheParse(l)
        BY <3>2, Zenon DEF P!Parsed
      <4>2. PICK m \in l.access : e = [P!NoEvent EXCEPT !.host = m.host, !.status = m.status]
        BY <4>1, Zenon DEF P!ApacheParse
      <4>3. e.status = m.status /\ e.level = nothing /\ e.lat = 0
        BY <1>2, <4>2
      <4> QED BY <3>2, <4>3, Zenon
    <3> QED BY <1>3, <3>1, <3>2
  <2>3. P!IsError(e) <=> m.status >= 400
    BY <1>1, <1>2, <2>2 DEF P!IsError, P!IsHttp
  <2>4. P!SaysError(f, l) <=> m.status >= 400
    <3>1. P!SaysError(f, l) <=> \E n \in l.access : n.status >= 400
      BY <1>3, Zenon DEF P!SaysError
    <3> QED BY <1>1, <3>1
  <2>5. P!SaysLatency(f, l, e.lat)
    <3>1. CASE f = "nginx"
      <4>1. \A n \in l.access : e.lat = 1000 * n.secs
        BY <1>1, <2>2, <3>1
      <4> QED BY <3>1, <4>1, Zenon DEF P!SaysLatency
    <3>2. CASE f = "apache"
      <4>1. P!SaysLatency(f, l, e.lat) <=> e.lat = 0
        BY <3>2, Zenon DEF P!SaysLatency
      <4> QED BY <2>2, <3>2, <4>1, Zenon
    <3> QED BY <1>3, <3>1, <3>2
  <2> QED BY <2>3, <2>4, <2>5
<1>4. CASE f = "syslog"
  <2>1. e \in P!SyslogParse(l)
    BY <1>4, Zenon DEF P!Parsed
  <2>2. PICK m \in l.syslog : e.status = 0 /\ e.lat = 0 /\ e.level = P!PriToLevel(m.pri)
    BY <1>2, <2>1 DEF P!SyslogParse
  <2>3. P!IsError(e) <=> P!PriToLevel(m.pri) \in {"error", "fatal"}
    BY <2>2 DEF P!IsError, P!IsHttp
  <2>4. P!SaysError(f, l) <=>
          \E n \in l.syslog : \E facility \in 0..n.pri : n.pri \in (8 * facility)..(8 * facility + 3)
    BY <1>4, Zenon DEF P!SaysError
  <2>5. P!PriToLevel(m.pri) \in {"error", "fatal"}
          <=> \E facility \in 0..m.pri : m.pri \in (8 * facility)..(8 * facility + 3)
    BY <1>1, Severity
  <2>6. P!SaysLatency(f, l, e.lat)
    BY <1>4, <2>2, Zenon DEF P!SaysLatency
  <2> QED BY <1>1, <2>3, <2>4, <2>5, <2>6
<1>5. CASE f = "json"
  <2> DEFINE codes == <<"status_code">>
  <2>1. e \in P!JsonParse(l)
    BY <1>5, Zenon DEF P!Parsed
  <2>2. PICK obj \in l.json :
          /\ e.status = P!FirstOf(obj, codes, P!Numbers(obj), 0)
          /\ e.level = P!ToLower(P!FirstOf(obj, P!LevelKeys, P!Words(obj), nothing))
          /\ e.lat = P!FirstOf(obj, P!LatencyKeys, P!Numbers(obj), 0)
    <3>1. P!JsonParse(l) =
            {[host   |-> P!FirstOf(obj, <<"host">>, P!Texts(obj), nothing),
              status |-> P!FirstOf(obj, codes, P!Numbers(obj), 0),
              level  |-> P!ToLower(P!FirstOf(obj, P!LevelKeys, P!Words(obj), nothing)),
              lat    |-> P!FirstOf(obj, P!LatencyKeys, P!Numbers(obj), 0)] : obj \in l.json}
      BY Zenon DEF P!JsonParse, nothing
    <3> QED BY <2>1, <3>1
  <2> DEFINE coded == "status_code" \in P!Numbers(obj)
             http == coded /\ obj["status_code"].val # 0
             word == P!FirstOf(obj, P!LevelKeys, P!Words(obj), nothing)
  <2>3. /\ coded => e.status = obj["status_code"].val /\ e.status \in Int
        /\ ~coded => e.status = 0
    <3>1. DOMAIN codes = 1..1 /\ codes[1] = "status_code" /\ 1 \in 1..4
      OBVIOUS
    <3> HIDE DEF codes
    <3>2. \/ e.status = 0 /\ \A i \in 1..1 : codes[i] \notin P!Numbers(obj)
          \/ \E i \in 1..1 : codes[i] \in P!Numbers(obj) /\ e.status = obj[codes[i]].val
      BY <2>2, <3>1, FirstOfFinds
    <3>3. \A i \in 1..1 : i = 1
      OBVIOUS
    <3> QED BY <1>1, <3>1, <3>2, <3>3
  <2>4. http <=> e.status # 0
    BY <2>3
  <2>5. ~http => (P!ToLower(word) \in {"error", "fatal"} <=>
                   \E w \in {"error", "ERROR", "fatal", "Fatal"} : P!LevelWord(obj, w))
    <3>1. DOMAIN P!LevelKeys = 1..3 /\ 3 \in 1..4
      BY DEF P!LevelKeys
    <3>2. \/ word = nothing /\ \A i \in 1..3 : P!LevelKeys[i] \notin P!Words(obj)
          \/ P!LevelWord(obj, word)
      BY <3>1, FirstOfFinds DEF P!LevelWord
    <3>3. \A u, v : P!LevelWord(obj, u) /\ P!LevelWord(obj, v) => u = v
      BY <3>1 DEF P!LevelWord
    <3>4. P!ToLower(nothing) = nothing
      BY Zenon DEF P!ToLower, nothing
    <3>5. \A u : P!ToLower(u) \in {"error", "fatal"} <=> u \in {"error", "ERROR", "fatal", "Fatal"}
      BY Zenon DEF P!ToLower
    <3> HIDE DEF word
    <3> QED BY <1>2, <3>1, <3>2, <3>3, <3>4, <3>5 DEF P!LevelWord
  <2>6. P!IsError(e) <=> IF http THEN obj["status_code"].val >= 400
                         ELSE P!ToLower(word) \in {"error", "fatal"}
    BY <2>2, <2>3, <2>4 DEF P!IsError, P!IsHttp
  <2>7. P!SaysError(f, l) <=>
          \/ http /\ obj["status_code"].val >= 400
          \/ ~http /\ \E w \in {"error", "ERROR", "fatal", "Fatal"} : P!LevelWord(obj, w)
    <3>1. P!SaysError(f, l) <=> \E o \in l.json :
            LET h == "status_code" \in P!Numbers(o) /\ o["status_code"].val # 0
            IN  \/ h /\ o["status_code"].val >= 400
                \/ ~h /\ \E w \in {"error", "ERROR", "fatal", "Fatal"} : P!LevelWord(o, w)
      BY <1>5, Zenon DEF P!SaysError
    <3> DEFINE Says(o) ==
                 LET h == "status_code" \in P!Numbers(o) /\ o["status_code"].val # 0
                 IN  \/ h /\ o["status_code"].val >= 400
                     \/ ~h /\ \E w \in {"error", "ERROR", "fatal", "Fatal"} : P!LevelWord(o, w)
    <3>2. P!SaysError(f, l) <=> \E o \in l.json : Says(o)
      BY <3>1, Zenon
    <3>3. \A o \in l.json : o = obj
      BY <1>1
    <3>4. Says(obj) <=> \/ http /\ obj["status_code"].val >= 400
                        \/ ~http /\ \E w \in {"error", "ERROR", "fatal", "Fatal"} : P!LevelWord(obj, w)
      BY Zenon
    <3> HIDE DEF Says
    <3>5. (\E o \in l.json : Says(o)) <=> Says(obj)
      BY <2>2, <3>3, Zenon
    <3> QED BY <3>2, <3>4, <3>5, Zenon
  <2>8. P!SaysLatency(f, l, e.lat)
    <3> DEFINE said(o) == {o[k].val : k \in P!ToSet(P!LatencyKeys) \cap P!Numbers(o)}
    <3>1. DOMAIN P!LatencyKeys = 1..3 /\ 3 \in 1..4
      BY DEF P!LatencyKeys
    <3>2. \/ e.lat = 0 /\ \A i \in 1..3 : P!LatencyKeys[i] \notin P!Numbers(obj)
          \/ \E i \in 1..3 : P!LatencyKeys[i] \in P!Numbers(obj) /\ e.lat = obj[P!LatencyKeys[i]].val
      BY <2>2, <3>1, FirstOfFinds
    <3>3. P!ToSet(P!LatencyKeys) = {P!LatencyKeys[i] : i \in 1..3}
      BY <3>1 DEF P!ToSet
    <3>4. IF said(obj) = {} THEN e.lat = 0 ELSE e.lat \in said(obj)
      BY <3>2, <3>3
    <3>5. \A o \in l.json : o = obj
      BY <1>1
    <3>6. \A o \in l.json : IF said(o) = {} THEN e.lat = 0 ELSE e.lat \in said(o)
      BY <3>4, <3>5
    <3> QED BY <1>5, <3>6, Zenon DEF P!SaysLatency
  <2> QED BY <2>5, <2>6, <2>7, <2>8
<1> QED BY <1>2, <1>3, <1>4, <1>5

\* Whatever the format, the counter's rule finds the errors that lines report, and p99s
\* are compared in one unit.
THEOREM Meaning == Spec => []MeaningKept
<1>1. IInv => MeaningKept
  <2> DEFINE form(w) == IF format = "auto" THEN locked[w] ELSE format
  <2> SUFFICES ASSUME IInv, NEW w \in P!Workers, NEW i \in DOMAIN taken[w], NEW e \in taken[w][i].events
               PROVE  /\ P!IsError(e) <=> P!SaysError(form(w), taken[w][i].line)
                      /\ P!SaysLatency(form(w), taken[w][i].line, e.lat)
    BY DEF MeaningKept, P!MeaningKept
  <2>1. /\ taken[w] \in Seq(Taking) /\ taken[w][i].line \in Lines
        /\ Judged(format, taken[w], i)
        /\ format = "auto" => LockOf(taken[w], locked[w])
        /\ taken[w] # <<>>
    <3>1. taken[w] \in Seq(Taking) /\ taken[w] # <<>>
      BY DEF IInv, PoolTyped
    <3>2. taken[w][i] \in Taking
      BY <3>1
    <3>3. taken[w][i].line \in Lines
      BY <3>2 DEF Taking
    <3> QED BY <3>1, <3>3 DEF IInv, PoolJudges
  <2>2. format \in P!FormatNames \cup {"auto"}
    BY <2>1 DEF IInv, PoolLives
  <2>3. form(w) \in P!FormatNames /\ taken[w][i].events = P!Parsed(form(w), taken[w][i].line)
    <3>1. CASE format # "auto"
      BY <2>1, <2>2, <3>1 DEF Judged
    <3>2. CASE format = "auto"
      <4>1. PICK j \in 1..i : /\ FirstKnown(taken[w], j)
                              /\ taken[w][i].events = P!Parsed(P!Claimant(taken[w][j].line), taken[w][i].line)
        BY <2>1, <3>2 DEF Judged
      <4>2. locked[w] # P!Unset
        BY <2>1, <3>2, <4>1 DEF LockOf, FirstKnown
      <4>3. PICK k \in DOMAIN taken[w] : FirstKnown(taken[w], k) /\ locked[w] = P!Claimant(taken[w][k].line)
        BY <2>1, <3>2, <4>2 DEF LockOf
      <4>4. j = k
        <5>1. j \in Nat \ {0} /\ k \in Nat \ {0}
          BY <2>1
        <5>2. ~(j < k) /\ ~(k < j)
          BY <4>1, <4>3, <5>1 DEF FirstKnown
        <5> QED BY <5>1, <5>2
      <4> QED BY <3>2, <4>1, <4>2, <4>3, <4>4, ClaimantKnows
    <3> QED BY <3>1, <3>2
  <2> HIDE DEF form
  <2> QED BY <2>1, <2>3, SaysWhatTheLineSays
<1> QED BY <1>1, Invariance, PTL
=============================================================================

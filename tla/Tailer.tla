------------------------------- MODULE Tailer -------------------------------
(***************************************************************************)
(* internal/tailer/tailer.go, runFile: tailing a file that other processes *)
(* append to, rename away, recreate and truncate meanwhile.                *)
(*                                                                         *)
(* A file is a sequence of bytes.  Line k is one byte k or two, by parity, *)
(* so that lines differ in length, and a NL; one line may be as long as    *)
(* the scanner's buffer.  A read returns all there is.  Every write has a  *)
(* later mtime than the one before.  The reader of `out` is always ready:  *)
(* Pipeline models a tailer that waits for it.                             *)
(***************************************************************************)
EXTENDS Integers, SequencesExt

CONSTANTS
  MaxLines,  \* bound: lines ever written
  MaxFiles,  \* bound: files ever created under the path
  MaxTruncs, \* bound: truncations
  Huge       \* the lines of which one may be too long for the scanner

ASSUME TailerAssumption ==
  {MaxLines, MaxFiles, MaxTruncs} \subseteq Nat /\ MaxLines > 0 /\ MaxFiles > 0
ASSUME HugeAssumption == Huge \subseteq 1..MaxLines

NL == 0
BufMax == 3  \* the size of the scanner's buffer, 1 MB
Lines == 1..MaxLines
Files == 1..MaxFiles
None == 0

VARIABLES
  follow,   \* the Follow flag of the config
  tidy,     \* writers of this behaviour append whole lines and never truncate
  huge,     \* the line that is too long in this behaviour, or None
  content, mtime,  \* per file, its bytes and the time of its last write
  path,     \* the file the path names, or None while there is none
  created,  \* files created; writers write to the last one
  clock,    \* number of writes
  written,  \* lines begun
  part,     \* the line a writer has written half of, or None
  truncs,   \* truncations
  pc,       \* where runFile is
  fd,       \* the open file f, None once a reopen has failed and f is nil
  offset,   \* bytes consumed of it
  stat,     \* the FileInfo kept for comparison: file and mtime
  buf,      \* bytes the scanner has read ahead and not returned yet
  eof,      \* the scanner has read the end of the file
  token,    \* the line about to be sent
  pass,     \* tokens sent since the reader was last put at a start position
  base,     \* that position
  got,      \* lines sent whole so far
  old,      \* lines whole or begun in the file when it was opened
  raced,    \* lines begun between the opening and the first stat
  ctx       \* the context is cancelled

modeVars == <<follow, tidy, huge>>
fileVars == <<content, mtime, path, created, clock, written, part, truncs>>
readVars == <<fd, offset, stat, buf, eof, token, pass, base, got, old, raced>>
vars == <<modeVars, fileVars, pc, readVars, ctx>>

Body(k) == IF k = huge THEN <<k, k, k>> ELSE IF k % 2 = 1 THEN <<k, k>> ELSE <<k>>
Whole(k) == Append(Body(k), NL)

\* The lines a file holds whole.
LinesOf(c) ==
  {k \in Lines : \E i \in 1..(Len(c) - Len(Body(k))) : SubSeq(c, i, i + Len(Body(k))) = Whole(k)}

Init ==
  /\ follow \in BOOLEAN
  /\ tidy \in BOOLEAN
  /\ huge \in Huge \cup {None}
  /\ written \in 0..1
  /\ content = [i \in Files |-> IF i = 1 /\ written = 1 THEN Whole(1) ELSE <<>>]
  /\ mtime = [i \in Files |-> 0]
  /\ path = 1
  /\ created = 1
  /\ clock = 0
  /\ part = None
  /\ truncs = 0
  /\ pc = "open"
  /\ fd = None
  /\ offset = 0
  /\ stat = [file |-> None, mtime |-> 0]
  /\ token = <<>>
  /\ buf = <<>>
  /\ eof = FALSE
  /\ pass = <<>>
  /\ base = 0
  /\ got = {}
  /\ old = {}
  /\ raced = {}
  /\ ctx = FALSE

-----------------------------------------------------------------------------
(* The processes that write the log, and the one that rotates it. *)

Write(bytes) ==
  /\ content' = [content EXCEPT ![created] = @ \o bytes]
  /\ clock' = clock + 1
  /\ mtime' = [mtime EXCEPT ![created] = clock + 1]

WriteLine ==
  /\ part = None
  /\ written < MaxLines
  /\ written' = written + 1
  /\ Write(Whole(written + 1))
  /\ UNCHANGED <<modeVars, path, created, part, truncs, pc, readVars, ctx>>

\* The beginning of a line of two bytes, and later its end.
WritePart ==
  /\ ~tidy
  /\ part = None
  /\ written < MaxLines
  /\ Len(Body(written + 1)) = 2
  /\ written' = written + 1
  /\ part' = written + 1
  /\ Write(<<written + 1>>)
  /\ UNCHANGED <<modeVars, path, created, truncs, pc, readVars, ctx>>

FinishPart ==
  /\ part # None
  /\ part' = None
  /\ Write(<<part, NL>>)
  /\ UNCHANGED <<modeVars, path, created, written, truncs, pc, readVars, ctx>>

\* Rotation: the file is renamed away, then a new one is created.
RenameAway ==
  /\ path # None
  /\ created < MaxFiles
  /\ path' = None
  /\ UNCHANGED <<modeVars, content, mtime, created, clock, written, part, truncs, pc, readVars, ctx>>

CreateNew ==
  /\ path = None
  /\ created' = created + 1
  /\ path' = created + 1
  /\ UNCHANGED <<modeVars, content, mtime, clock, written, part, truncs, pc, readVars, ctx>>

Truncate ==
  /\ ~tidy
  /\ truncs < MaxTruncs
  /\ truncs' = truncs + 1
  /\ content' = [content EXCEPT ![created] = <<>>]
  /\ clock' = clock + 1
  /\ mtime' = [mtime EXCEPT ![created] = clock + 1]
  /\ UNCHANGED <<modeVars, path, created, written, part, pc, readVars, ctx>>

Cancel ==
  /\ ~ctx
  /\ ctx' = TRUE
  /\ UNCHANGED <<modeVars, fileVars, pc, readVars>>

-----------------------------------------------------------------------------
(* runFile. *)

\* Variant: every reader seeks to the end.
StartPosAtEnd(c) == Len(c)

\* Where reading starts: follow mode seeks to the end of the file.
StartPos(c) == IF follow THEN Len(c) ELSE 0

\* Variant: the position Seek returns is not kept.
RewindForgetsSeek(n) ==
  /\ base' = n
  /\ pass' = <<>>
  /\ UNCHANGED offset

\* offset and lineNum are set for a new pass over the file.
Rewind(n) ==
  /\ offset' = n
  /\ base' = n
  /\ pass' = <<>>

\* openFile and the first Seek.
Open ==
  /\ pc = "open"
  /\ IF path = None
     THEN pc' = "done" /\ UNCHANGED readVars
     ELSE /\ fd' = path
          /\ Rewind(StartPos(content[path]))
          /\ old' = LinesOf(content[path]) \cup ({part} \ {None})
          /\ pc' = "baseline"
          /\ UNCHANGED <<stat, buf, eof, token, got, raced>>

StatOf(i) == [file |-> i, mtime |-> mtime[i]]

Baseline ==
  /\ pc = "baseline"
  /\ stat' = StatOf(fd)
  /\ raced' = (1..written) \ old
  /\ pc' = "poll"
  /\ UNCHANGED <<fd, offset, buf, eof, token, pass, base, got, old>>

\* Variant: ctx is not looked at between two reads.
PollBlind ==
  /\ pc = "poll"
  /\ pc' = IF fd = None THEN "done" ELSE "scan"
  /\ buf' = <<>>
  /\ eof' = FALSE
  /\ UNCHANGED <<fd, offset, stat, token, pass, base, got, old, raced>>

\* Top of the loop: the look at ctx, the Seek (which fails on a nil f), and a
\* new scanner.
Poll ==
  /\ pc = "poll"
  /\ pc' = IF ctx \/ fd = None THEN "done" ELSE "scan"
  /\ buf' = <<>>
  /\ eof' = FALSE
  /\ UNCHANGED <<fd, offset, stat, token, pass, base, got, old, raced>>

HasLine == \E i \in DOMAIN buf : i <= BufMax /\ buf[i] = NL

\* The scanner's buffer is full and holds no NL.
TooLong == ~HasLine /\ Len(buf) >= BufMax
TokenLen == IF HasLine THEN SelectInSeq(buf, LAMBDA b : b = NL) - 1 ELSE Len(buf)

\* The scanner wants more data and reads on from where it is in the file.
Fill ==
  /\ pc = "scan"
  /\ ~HasLine /\ ~TooLong
  /\ ~eof
  /\ LET pos == offset + Len(buf)
     IN  /\ buf' = buf \o SubSeq(content[fd], pos + 1, Len(content[fd]))
         /\ eof' = (Len(content[fd]) <= pos)
  /\ UNCHANGED <<pc, fd, offset, stat, token, pass, base, got, old, raced>>

\* Variant: the newline is forgotten.
ConsumedToken(n) == n

\* The bytes offset advances by: the token and, always, one for its newline.
Consumed(n) == n + 1

\* Scan returns a line: up to the next NL or, at the end of the file, what is left.
Scan ==
  /\ pc = "scan"
  /\ HasLine \/ (eof /\ buf # <<>> /\ ~TooLong)
  /\ token' = SubSeq(buf, 1, TokenLen)
  /\ offset' = offset + Consumed(TokenLen)
  /\ buf' = SubSeq(buf, TokenLen + 2, Len(buf))
  /\ pc' = "send"
  /\ UNCHANGED <<fd, stat, eof, pass, base, got, old, raced>>

Send ==
  /\ pc = "send"
  /\ pass' = Append(pass, token)
  /\ got' = got \cup {k \in Lines : token = Body(k)}
  /\ pc' = "scan"
  /\ UNCHANGED <<fd, offset, stat, buf, eof, token, base, old, raced>>

\* Scan returns false: at the end of the file, or with an error that nobody asks
\* for if the line does not fit its buffer.
Drained ==
  /\ pc = "scan"
  /\ (buf = <<>> /\ eof) \/ TooLong
  /\ pc' = IF follow THEN "stat" ELSE "done"
  /\ UNCHANGED readVars

\* Variant: an overwrite of the same size is not noticed.
TruncatedBySize(i) == Len(content[i]) < offset

Truncated(i) ==
  \/ Len(content[i]) < offset
  \/ Len(content[i]) = offset /\ mtime[i] > stat.mtime

\* os.Stat(path), and what follows from it.
Stat ==
  /\ pc = "stat"
  /\ \/ /\ path = None
        /\ pc' = "sleep"
        /\ UNCHANGED readVars
     \/ /\ path \notin {None, stat.file}
        /\ pc' = "reopen"
        /\ UNCHANGED readVars
     \/ /\ path = stat.file
        /\ Truncated(path)
        /\ Rewind(0)
        /\ stat' = StatOf(path)
        /\ pc' = "poll"
        /\ UNCHANGED <<fd, buf, eof, token, got, old, raced>>
     \/ /\ path = stat.file
        /\ ~Truncated(path)
        /\ pc' = "sleep"
        /\ UNCHANGED readVars

\* Rotation was seen: the path is opened again, whatever it names by now. If it
\* names nothing the open fails and leaves f nil.
Reopen ==
  /\ pc = "reopen"
  /\ IF path = None
     THEN /\ fd' = None
          /\ pc' = "sleep"
          /\ UNCHANGED <<offset, stat, buf, eof, token, pass, base, got, old, raced>>
     ELSE /\ fd' = path
          /\ stat' = StatOf(path)
          /\ Rewind(0)
          /\ pc' = "poll"
          /\ UNCHANGED <<buf, eof, token, got, old, raced>>

\* The timer, or ctx: a select between the two.
Sleep ==
  /\ pc = "sleep"
  /\ \/ pc' = "poll"
     \/ ctx /\ pc' = "done"
  /\ UNCHANGED readVars

RunFile ==
  /\ Open \/ Baseline \/ Poll \/ Fill \/ Scan \/ Send \/ Drained \/ Stat \/ Reopen \/ Sleep
  /\ UNCHANGED <<modeVars, fileVars, ctx>>

Finished == pc = "done" /\ UNCHANGED vars

Next ==
  \/ WriteLine \/ WritePart \/ FinishPart \/ RenameAway \/ CreateNew \/ Truncate \/ Cancel
  \/ RunFile \/ Finished

Spec == Init /\ [][Next]_vars

\* The goroutine is scheduled and its timer fires; writers may stop at any time.
FairSpec == Spec /\ WF_vars(RunFile)

-----------------------------------------------------------------------------

\* Every variable has its type, and the reader never holds a file the path has
\* not named.
TypeOK ==
  /\ content \in [Files -> Seq(Lines \cup {NL})]
  /\ mtime \in [Files -> 0..clock]
  /\ path \in {None} \cup 1..created
  /\ fd \in {None} \cup 1..created
  /\ offset \in Nat /\ base \in 0..offset
  /\ part \in {None} \cup 1..written
  /\ pc \in {"open", "baseline", "poll", "scan", "send", "stat", "reopen", "sleep", "done"}
  /\ got \subseteq 1..written /\ old \subseteq 1..written

\* The tokens of the current pass, the one about to be sent included.
PassTokens == IF pc = "send" THEN Append(pass, token) ELSE pass

\* offset keeps to the line boundaries although it is never read back from the
\* file but summed up from token lengths: as long as writers append whole lines,
\* what a pass has sent is exactly the lines between its start and offset, in
\* order, none missing, none torn, none twice.
PassInOrder ==
  tidy /\ fd # None =>
    FlattenSeq([i \in DOMAIN PassTokens |-> Append(PassTokens[i], NL)])
      = SubSeq(content[fd], base + 1, offset)

\* Of some lines of a file, those that do not come after one that is too long.
\* (Writers write lines in order.)
Readable(ks) == {k \in ks : huge \in ks => k < huge}

\* Without follow the tailer reads everything there was when it opened the file, up
\* to a line that is too long, unless it is cancelled.
EofReadsAll ==
  ~follow /\ tidy /\ pc = "done" /\ ~ctx /\ fd # None => Readable(old) \subseteq got

\* The readable lines at the path now that were begun after the tailer had opened
\* the file and taken its first stat. (A truncation between the two goes unseen.)
NewLines ==
  (IF path = None THEN {} ELSE Readable(LinesOf(content[path]))) \ (old \cup raced)

\* A line that was read in two pieces is sent whole only when the file is read again,
\* and a line that is too long for the scanner keeps that from happening.
Stuck == ~tidy /\ path # None /\ huge \in LinesOf(content[path])

\* In follow mode every new line that stays in the file is sent whole, however it
\* got there: by whole appends or torn ones, across rotations, and after
\* truncations that the size does not give away. A line that is too long stops only
\* what comes after it in its file, or was torn before it, and only until that file
\* is rotated. The other excuses are a cancelled context and a file that was not
\* there when the tailer opened the path.
QuietFileIsRead ==
  \A k \in Lines :
    follow /\ <>[](k \in NewLines /\ ~Stuck) => <>(k \in got \/ ctx \/ (pc = "done" /\ fd = None))

\* A cancelled tailer returns.
CancelStops == ctx ~> pc = "done"

\* tailer_test.go:270-279: follow mode "should not emit pre-existing lines".
NoOldLines == follow => got \cap old = {}
=============================================================================

---------------------------- MODULE TailerProofs ----------------------------
(***************************************************************************)
(* Theorems about Tailer, for any number of lines, files and truncations   *)
(* and whichever line is too long.                                         *)
(***************************************************************************)
EXTENDS Tailer, StatsProofs, SequenceTheorems, TLAPS

Byte == 0..written

\* The length of line k when h is the huge one.
Size(h, k) == IF k = h THEN 3 ELSE IF k % 2 = 1 THEN 2 ELSE 1

\* Types, and where runFile holds a file.
Types ==
  /\ {follow, tidy, eof, ctx} \subseteq BOOLEAN
  /\ huge \in Nat /\ truncs \in Nat /\ clock \in Nat
  /\ written \in 0..MaxLines
  /\ created \in Files /\ (path = None => created < MaxFiles)
  /\ content \in [Files -> Seq(Byte)]
  /\ mtime \in [Files -> 0..clock]
  /\ path \in {None} \cup 1..created
  /\ fd \in {None} \cup 1..created
  /\ part \in {None} \cup 1..written
  /\ pc \in {"open", "baseline", "poll", "scan", "send", "stat", "reopen", "sleep", "done"}
  /\ pc \in {"baseline", "scan", "send", "stat", "reopen"} => fd # None
  /\ pc = "open" => fd = None
  /\ offset \in Nat /\ base \in 0..offset
  /\ buf \in Seq(Byte) /\ token \in Seq(Byte) /\ pass \in Seq(Seq(Byte))
  /\ got \subseteq 1..written /\ old \subseteq 1..written

\* Position p of c is where a line begins.
Boundary(c, p) == p = 0 \/ c[p] = NL

\* Line k is at p in c, whole.
At(h, c, p, k) ==
  /\ p + Size(h, k) < Len(c)
  /\ \A i \in 1..Size(h, k) : c[p + i] = k
  /\ c[p + Size(h, k) + 1] = NL
  /\ Boundary(c, p)

\* A file of whole lines, in the order they were written.
Tidy(h, c) ==
  /\ Boundary(c, Len(c))
  /\ \A i \in 1..Len(c) : c[i] # NL =>
       c[i] \in Lines /\ \E p \in 0..(i - 1) : At(h, c, p, c[i]) /\ i <= p + Size(h, c[i])
  /\ \A p, q \in 0..Len(c), j, k \in Lines : At(h, c, p, j) /\ At(h, c, q, k) /\ j < k => p < q

\* What the scanner has read ahead is what follows offset in the file.
Ahead ==
  /\ offset + Len(buf) <= Len(content[fd])
  /\ \A i \in 1..Len(buf) : buf[i] = content[fd][offset + i]
  /\ eof => Boundary(buf, Len(buf))

\* The tokens toks are the lines of c from b to o.
InOrder(toks, c, b, o) ==
  FlattenSeq([i \in DOMAIN toks |-> Append(toks[i], NL)]) = SubSeq(c, b + 1, o)

\* Writers that append whole lines leave tidy files, and the reader keeps to the lines.
InStep ==
  tidy =>
    /\ part = None
    /\ \A i \in Files : Tidy(huge, content[i])
    /\ fd # None => /\ offset <= Len(content[fd]) /\ Boundary(content[fd], offset)
                    /\ InOrder(PassTokens, content[fd], base, offset)
    /\ pc \in {"scan", "send"} => Ahead

\* Without follow: the lines before offset have been sent; the lines there were at the
\* opening are there still, before any others, and within what was read at the end of
\* the file.
Repeats(t, h, k) == Len(t) = Size(h, k) /\ \A i \in 1..Len(t) : t[i] = k
Delivered(k) == k \in got \/ (pc = "send" /\ Repeats(token, huge, k))
SentSoFar == \A p \in 0..(offset - 1), k \in Lines : At(huge, content[fd], p, k) => Delivered(k)
OldFirst ==
  /\ \A k \in old : \E p \in 0..Len(content[fd]) : At(huge, content[fd], p, k)
  /\ \A p \in 0..Len(content[fd]), k \in Lines \ old : At(huge, content[fd], p, k) => \A j \in old : j < k
OldWithin == \A k \in old : \E p \in 0..Len(content[fd]) :
                At(huge, content[fd], p, k) /\ p + Size(huge, k) < offset + Len(buf)
ReadingOnce ==
  tidy /\ ~follow =>
    /\ pc \notin {"stat", "reopen", "sleep"}
    /\ fd # None => SentSoFar /\ OldFirst
    /\ pc \in {"scan", "send"} /\ eof => OldWithin
    /\ EofReadsAll

-----------------------------------------------------------------------------
(* Lines and cuts of sequences. *)

\* The bounds are numbers.
LEMMA BoundsAre ==
  /\ MaxLines \in Nat /\ MaxFiles \in Nat /\ MaxTruncs \in Nat /\ MaxLines > 0 /\ MaxFiles > 0
  /\ Huge \subseteq 1..MaxLines
BY TailerAssumption, HugeAssumption

\* A line repeats its number, and ends with a NL; the longest is the huge one.
LEMMA BodyIs ==
  ASSUME NEW k \in Nat
  PROVE  /\ Len(Body(k)) = Size(huge, k) /\ Size(huge, k) \in 1..3
         /\ Body(k) \in Seq({k}) /\ \A i \in 1..Size(huge, k) : Body(k)[i] = k
         /\ Size(huge, k) = 3 => k = huge
<1>1. CASE k = huge
  BY <1>1 DEF Body, Size
<1>2. CASE k # huge /\ k % 2 = 1
  <2>1. Body(k) = <<k, k>> /\ Size(huge, k) = 2
    BY <1>2 DEF Body, Size
  <2> QED BY <2>1
<1>3. CASE k # huge /\ k % 2 # 1
  <2>1. Body(k) = <<k>> /\ Size(huge, k) = 1
    BY <1>3 DEF Body, Size
  <2> QED BY <2>1
<1> QED BY <1>1, <1>2, <1>3

\* The bytes of a whole line.
LEMMA WholeIs ==
  ASSUME NEW k \in Nat
  PROVE  /\ Whole(k) \in Seq({k, NL}) /\ Len(Whole(k)) = Size(huge, k) + 1
         /\ \A i \in 1..Size(huge, k) : Whole(k)[i] = k
         /\ Whole(k)[Size(huge, k) + 1] = NL
<1>1. /\ Size(huge, k) \in 1..3 /\ Body(k) \in Seq({k}) /\ \A i \in 1..Size(huge, k) : Body(k)[i] = k
      /\ Len(Body(k)) = Size(huge, k)
  BY BodyIs
<1> DEFINE b == Body(k)
<1>2. b \in Seq({k, NL}) /\ Len(b) = Size(huge, k)
  BY <1>1
<1> HIDE DEF b
<1>3. Append(b, NL) \in Seq({k, NL}) /\ Len(Append(b, NL)) = Len(b) + 1
      /\ (\A i \in 1..Len(b) : Append(b, NL)[i] = b[i]) /\ Append(b, NL)[Len(b) + 1] = NL
  BY <1>2
<1>4. Whole(k) = Append(b, NL)
  BY DEF Whole, b
<1> QED BY <1>1, <1>2, <1>3, <1>4 DEF b

\* Lists over a set are lists over a larger one.
LEMMA Wider == ASSUME NEW S, NEW T, S \subseteq T PROVE Seq(S) \subseteq Seq(T)
OBVIOUS

\* A stretch of a sequence.
LEMMA CutIs ==
  ASSUME NEW S, NEW s \in Seq(S), NEW m \in Nat, NEW n \in 0..Len(s)
  PROVE  /\ SubSeq(s, m + 1, n) \in Seq(S)
         /\ Len(SubSeq(s, m + 1, n)) = IF m <= n THEN n - m ELSE 0
         /\ \A i \in 1..(n - m) : SubSeq(s, m + 1, n)[i] = s[m + i]
<1>1. \A i \in (m + 1)..n : s[i] \in S
  OBVIOUS
<1>2. /\ SubSeq(s, m + 1, n) \in Seq(S)
      /\ Len(SubSeq(s, m + 1, n)) = IF m + 1 <= n THEN n - (m + 1) + 1 ELSE 0
      /\ \A i \in 1..(n - (m + 1) + 1) : SubSeq(s, m + 1, n)[i] = s[m + 1 + i - 1]
  BY <1>1, SubSeqProperties
<1>3. n - (m + 1) + 1 = n - m /\ \A i \in 1..(n - m) : m + 1 + i - 1 = m + i
  OBVIOUS
<1> QED BY <1>2, <1>3

\* A stretch is the same after an append.
LEMMA CutStays ==
  ASSUME NEW S, NEW s \in Seq(S), NEW t \in Seq(S), NEW m \in Nat, NEW n \in 0..Len(s)
  PROVE  SubSeq(s \o t, m + 1, n) = SubSeq(s, m + 1, n)
<1>1. s \o t \in Seq(S) /\ n \in 0..Len(s \o t) /\ \A i \in 1..Len(s) : (s \o t)[i] = s[i]
  OBVIOUS
<1> DEFINE u == s \o t
           a == SubSeq(s, m + 1, n)
           b == SubSeq(u, m + 1, n)
<1>2. a \in Seq(S) /\ Len(a) = (IF m <= n THEN n - m ELSE 0) /\ \A i \in 1..(n - m) : a[i] = s[m + i]
  BY CutIs
<1>3. b \in Seq(S) /\ Len(b) = (IF m <= n THEN n - m ELSE 0) /\ \A i \in 1..(n - m) : b[i] = u[m + i]
  BY <1>1, CutIs
<1>4. \A i \in 1..(n - m) : u[m + i] = s[m + i]
  BY <1>1
<1> HIDE DEF u, a, b
<1>5. \A i \in 1..Len(a) : a[i] = b[i]
  BY <1>2, <1>3, <1>4
<1> QED BY <1>2, <1>3, <1>5, SameList DEF a, b, u

\* What the scanner returns ends at the first NL, if there is one.
LEMMA TokenIs ==
  ASSUME NEW S, buf \in Seq(S)
  PROVE  /\ HasLine => /\ TokenLen + 1 \in 1..Len(buf) /\ TokenLen \in Nat /\ TokenLen < BufMax
                       /\ buf[TokenLen + 1] = NL
                       /\ \A i \in 1..TokenLen : buf[i] # NL
         /\ ~HasLine => TokenLen = Len(buf) /\ \A i \in 1..Len(buf) : i <= BufMax => buf[i] # NL
<1>1. DOMAIN buf = 1..Len(buf) /\ Len(buf) \in Nat
  OBVIOUS
<1>2. ASSUME HasLine
      PROVE  /\ TokenLen + 1 \in 1..Len(buf) /\ TokenLen \in Nat /\ TokenLen < BufMax
             /\ buf[TokenLen + 1] = NL
             /\ \A i \in 1..TokenLen : buf[i] # NL
  <2> DEFINE I == {i \in 1..Len(buf) : buf[i] = NL}
  <2>1. PICK j \in 1..Len(buf) : j <= BufMax /\ buf[j] = NL
    BY <1>1, <1>2 DEF HasLine
  <2>2. I \in SUBSET Nat /\ I # {} /\ j \in I
    BY <2>1
  <2>3. \E m \in I : \A n \in I : m <= n
    BY <2>2, LeastNat
  <2> DEFINE m == CHOOSE x \in I : \A y \in I : x =< y
  <2>4. m \in I /\ \A y \in I : m <= y
    BY <2>3
  <2>5. TokenLen = m - 1
    BY <1>2, <2>2 DEF TokenLen, SelectInSeq, Min
  <2> HIDE DEF m
  <2>6. \A i \in 1..(m - 1) : buf[i] # NL
    BY <2>4
  <2>7. m \in 1..Len(buf) /\ buf[m] = NL /\ m <= BufMax /\ m - 1 + 1 = m
    BY <2>1, <2>2, <2>4 DEF BufMax
  <2> HIDE DEF I
  <2> QED BY <1>1, <2>5, <2>6, <2>7 DEF BufMax
<1>3. ASSUME ~HasLine PROVE TokenLen = Len(buf) /\ \A i \in 1..Len(buf) : i <= BufMax => buf[i] # NL
  BY <1>1, <1>3 DEF HasLine, TokenLen
<1> QED BY <1>2, <1>3

-----------------------------------------------------------------------------
(* Files. *)

\* Lines are numbers other than NL.
LEMMA LineIs == \A k \in Lines : k \in Nat /\ k # NL /\ k <= MaxLines
BY BoundsAre DEF Lines, NL

\* Lines are not too long for the model's bounds.
LEMMA SizeIs ==
  /\ \A k \in Nat : Size(huge, k) \in 1..3
  /\ \A k \in Lines : Size(huge, k) \in 1..3
<1>1. ASSUME NEW k \in Nat PROVE Size(huge, k) \in 1..3
  BY BodyIs
<1> QED BY <1>1, LineIs

\* The lines a file holds are among its bytes, and every line that is somewhere is
\* one of them.
LEMMA LinesAre ==
  ASSUME NEW S, NEW c \in Seq(S)
  PROVE  /\ \A k \in LinesOf(c) : k \in Lines /\ k \in S
         /\ \A k \in Lines, p \in Nat : At(huge, c, p, k) => k \in LinesOf(c)
<1>1. Len(c) \in Nat /\ DOMAIN c = 1..Len(c)
  OBVIOUS
<1>2. ASSUME NEW k \in LinesOf(c) PROVE k \in Lines /\ k \in S
  <2>2. k \in Lines /\ k \in Nat
    BY LineIs DEF LinesOf
  <2>1. PICK i \in 1..(Len(c) - Size(huge, k)) : SubSeq(c, i, i + Size(huge, k)) = Whole(k)
    <3>1. Len(Body(k)) = Size(huge, k)
      BY <2>2, BodyIs
    <3> QED BY <3>1 DEF LinesOf
  <2>3. Size(huge, k) \in 1..3
    BY <2>2, SizeIs
  <2>4. Whole(k)[1] = k
    <3>1. \A j \in 1..Size(huge, k) : Whole(k)[j] = k
      BY <2>2, WholeIs
    <3> QED BY <2>3, <3>1
  <2>5. PICK m \in Nat : i = m + 1
    <3>1. i - 1 \in Nat /\ i = (i - 1) + 1
      OBVIOUS
    <3> QED BY <3>1
  <2> DEFINE n == i + Size(huge, k)
  <2>6. n \in 0..Len(c) /\ 1 \in 1..(n - m) /\ i \in 1..Len(c)
    BY <1>1, <2>3, <2>5
  <2> HIDE DEF n
  <2>7. \A j \in 1..(n - m) : SubSeq(c, m + 1, n)[j] = c[m + j]
    BY <2>6, CutIs
  <2>8. c[i] = k
    BY <2>1, <2>4, <2>5, <2>6, <2>7 DEF n
  <2> QED BY <2>2, <2>6, <2>8
<1>3. ASSUME NEW k \in Lines, NEW p \in Nat, At(huge, c, p, k) PROVE k \in LinesOf(c)
  <2>1. k \in Nat /\ Size(huge, k) \in 1..3
    BY LineIs, SizeIs
  <2> DEFINE n == Size(huge, k)
             e == p + n + 1
             u == SubSeq(c, p + 1, e)
  <2>2. e \in 0..Len(c) /\ p <= e /\ e - p = n + 1
    BY <1>1, <1>3, <2>1 DEF At
  <2>3. u \in Seq(S) /\ Len(u) = n + 1 /\ \A i \in 1..(n + 1) : u[i] = c[p + i]
    <3> HIDE DEF e, n
    <3>1. u \in Seq(S) /\ Len(u) = (IF p <= e THEN e - p ELSE 0) /\ \A i \in 1..(e - p) : u[i] = c[p + i]
      BY <2>2, CutIs
    <3> QED BY <2>2, <3>1
  <2>4. (\A i \in 1..n : c[p + i] = k) /\ c[p + n + 1] = NL
    BY <1>3 DEF At
  <2>5. /\ Whole(k) \in Seq({k, NL}) /\ Len(Whole(k)) = n + 1
        /\ (\A i \in 1..n : Whole(k)[i] = k) /\ Whole(k)[n + 1] = NL
    BY <2>1, WholeIs
  <2> HIDE DEF u, n
  <2>6. n \in 1..3
    BY <2>1 DEF n
  <2>7. \A i \in 1..(n + 1) : u[i] = Whole(k)[i]
    <3> SUFFICES ASSUME NEW i \in 1..(n + 1) PROVE u[i] = Whole(k)[i]
      OBVIOUS
    <3>1. CASE i = n + 1
      <4>1. p + i = p + n + 1
        BY <2>6, <3>1
      <4> QED BY <2>3, <2>4, <2>5, <3>1, <4>1
    <3>2. CASE i # n + 1
      <4>1. i \in 1..n
        BY <2>6, <3>2
      <4> QED BY <2>3, <2>4, <2>5, <4>1
    <3> QED BY <3>1, <3>2
  <2>8. u = Whole(k)
    <3> DEFINE T == S \cup {k, NL}
    <3>1. u \in Seq(T) /\ Whole(k) \in Seq(T)
      BY <2>3, <2>5, Wider
    <3> HIDE DEF T
    <3> QED BY <2>3, <2>5, <2>7, <3>1, SameList
  <2>9. p + 1 \in 1..(Len(c) - Len(Body(k))) /\ p + 1 + Len(Body(k)) = p + n + 1
    <3>1. Len(Body(k)) = Size(huge, k)
      BY <2>1, BodyIs
    <3> QED BY <1>1, <2>1, <2>2, <3>1 DEF n
  <2>10. SubSeq(c, p + 1, p + 1 + Len(Body(k))) = Whole(k)
    BY <2>8, <2>9 DEF u
  <2> QED BY <2>9, <2>10 DEF LinesOf
<1> QED BY <1>2, <1>3

\* What d is, the file c with the line k appended: its bytes, and where lines are.
Appended(h, c, k, d) ==
  /\ d \in Seq(Nat) /\ Len(d) = Len(c) + Size(h, k) + 1 /\ Len(c) \in Nat /\ Size(h, k) \in 1..3
  /\ \A i \in 1..Len(c) : d[i] = c[i]
  /\ \A i \in 1..Size(h, k) : d[Len(c) + i] = k
  /\ d[Len(c) + Size(h, k) + 1] = NL
  /\ At(h, d, Len(c), k)
  /\ \A p \in Nat, j \in Lines : At(h, c, p, j) => At(h, d, p, j)
  /\ \A p \in Nat, j \in Lines : At(h, d, p, j) => At(h, c, p, j) \/ (p = Len(c) /\ j = k)

\* A whole line is appended to a file.
LEMMA AppendWhole ==
  ASSUME NEW c \in Seq(Nat), NEW k \in Lines, Boundary(c, Len(c)),
         NEW d, d = c \o Whole(k)
  PROVE  Appended(huge, c, k, d)
<1> DEFINE w == Whole(k)
           n == Len(c)
           s == Size(huge, k)
<1>1. k \in Nat /\ k # NL /\ s \in 1..3 /\ n \in Nat
  BY LineIs, SizeIs
<1>2. /\ w \in Seq(Nat) /\ Len(w) = s + 1
      /\ (\A i \in 1..s : w[i] = k) /\ w[s + 1] = NL
  <2>1. {k, NL} \subseteq Nat
    BY <1>1 DEF NL
  <2> QED BY <1>1, <2>1, WholeIs, Wider
<1> HIDE DEF w
<1>3. d \in Seq(Nat) /\ Len(d) = n + s + 1
  <2> HIDE DEF s
  <2> QED BY <1>1, <1>2 DEF w
<1>4. \A i \in 1..n : d[i] = c[i]
  BY <1>2 DEF w
<1>5. \A i \in 1..(s + 1) : d[n + i] = w[i]
  <2> HIDE DEF s
  <2> QED BY <1>1, <1>2 DEF w
<1> HIDE DEF n, s
<1>6. (\A i \in 1..s : d[n + i] = k) /\ d[n + s + 1] = NL
  <2>1. s + 1 \in 1..(s + 1) /\ n + (s + 1) = n + s + 1 /\ \A i \in 1..s : i \in 1..(s + 1)
    BY <1>1
  <2> QED BY <1>2, <1>5, <2>1
<1>7. Boundary(d, n)
  <2>1. n # 0 => n \in 1..n
    BY <1>1
  <2> QED BY <1>4, <2>1 DEF Boundary, n
<1>8. At(huge, d, n, k)
  <2>1. n + s < Len(d)
    BY <1>1, <1>3
  <2> QED BY <1>6, <1>7, <2>1 DEF At, s
<1>9. ASSUME NEW p \in Nat, NEW j \in Lines
      PROVE  /\ Size(huge, j) \in 1..3 /\ j # NL
             /\ p + Size(huge, j) < n => (At(huge, c, p, j) <=> At(huge, d, p, j))
  <2>1. Size(huge, j) \in 1..3 /\ j # NL
    BY LineIs, SizeIs
  <2>2. ASSUME p + Size(huge, j) < n PROVE At(huge, c, p, j) <=> At(huge, d, p, j)
    <3> DEFINE z == Size(huge, j)
    <3>0. z \in 1..3 /\ p + z < n /\ n \in Nat /\ s \in Nat /\ Len(d) = n + s + 1
      BY <1>1, <1>3, <2>1, <2>2
    <3>1. p + z + 1 \in 1..n /\ p + z < Len(d) /\ (p # 0 => p \in 1..n)
          /\ \A i \in 1..z : p + i \in 1..n
      <4> HIDE DEF z
      <4> QED BY <3>0
    <3>2. /\ d[p + Size(huge, j) + 1] = c[p + Size(huge, j) + 1]
          /\ \A i \in 1..Size(huge, j) : d[p + i] = c[p + i]
          /\ p # 0 => d[p] = c[p]
      BY <1>4, <3>1
    <3>3. Boundary(c, p) <=> Boundary(d, p)
      BY <3>2 DEF Boundary
    <3>4. (\A i \in 1..Size(huge, j) : c[p + i] = j) <=> (\A i \in 1..Size(huge, j) : d[p + i] = j)
      BY <3>2
    <3> QED BY <2>2, <3>1, <3>2, <3>3, <3>4 DEF At, n
  <2> QED BY <2>1, <2>2
<1>10. ASSUME NEW p \in Nat, NEW j \in Lines, At(huge, c, p, j) PROVE At(huge, d, p, j)
  BY <1>9, <1>10 DEF At, n
<1>11. ASSUME NEW p \in Nat, NEW j \in Lines, At(huge, d, p, j), ~(p + Size(huge, j) < n)
       PROVE  p = n /\ j = k
  <2>0. Size(huge, j) \in 1..3 /\ j # NL /\ ~(p + Size(huge, j) < n)
    BY <1>9, <1>11
  <2>1. /\ p + Size(huge, j) < n + s + 1
        /\ d[p + Size(huge, j) + 1] = NL /\ d[p + Size(huge, j)] = j
    <3>1. p + Size(huge, j) < Len(d) /\ d[p + Size(huge, j) + 1] = NL /\ \A i \in 1..Size(huge, j) : d[p + i] = j
      BY <1>11 DEF At
    <3>2. Size(huge, j) \in 1..Size(huge, j)
      BY <2>0
    <3> QED BY <1>3, <3>1, <3>2
  <2>2. p + Size(huge, j) = n + s
    <3> SUFFICES ASSUME p + Size(huge, j) # n + s PROVE FALSE
      OBVIOUS
    <3>1. PICK i \in 1..s : n + i = p + Size(huge, j) + 1
      <4> DEFINE z == p + Size(huge, j)
      <4>1. z \in Int /\ ~(z < n) /\ z < n + s + 1 /\ z # n + s /\ n \in Int /\ s \in Int
        BY <1>1, <2>0, <2>1
      <4> HIDE DEF z
      <4>2. z + 1 - n \in 1..s /\ n + (z + 1 - n) = z + 1
        BY <4>1
      <4> QED BY <4>2 DEF z
    <3> QED BY <1>1, <1>6, <2>0, <2>1, <3>1
  <2>3. j = k
    <3>1. s \in 1..s
      BY <1>1
    <3> QED BY <1>1, <1>6, <2>0, <2>1, <2>2, <3>1
  <2> QED BY <1>1, <2>0, <2>2, <2>3 DEF s
<1>12. \A p \in Nat, j \in Lines : At(huge, d, p, j) => At(huge, c, p, j) \/ (p = n /\ j = k)
  BY <1>9, <1>11
<1> QED BY <1>1, <1>3, <1>4, <1>6, <1>8, <1>10, <1>12 DEF n, s, Appended

\* A file of whole lines in order stays one when the next line is appended.
LEMMA TidyStays ==
  ASSUME NEW w \in Nat, NEW c \in Seq(0..w), Tidy(huge, c), w + 1 \in Lines
  PROVE  Tidy(huge, c \o Whole(w + 1))
<1> DEFINE k == w + 1
           d == c \o Whole(k)
           n == Len(c)
<1> HIDE DEF k, d
<1>1. c \in Seq(Nat) /\ k \in Lines /\ Boundary(c, n)
  <2>1. 0..w \subseteq Nat
    OBVIOUS
  <2> QED BY <2>1, Wider DEF Tidy, k
<1>2. /\ d \in Seq(Nat) /\ Len(d) = n + Size(huge, k) + 1 /\ n \in Nat /\ Size(huge, k) \in 1..3
      /\ \A i \in 1..n : d[i] = c[i]
      /\ \A i \in 1..Size(huge, k) : d[n + i] = k
      /\ d[n + Size(huge, k) + 1] = NL
      /\ At(huge, d, n, k)
      /\ \A p \in Nat, j \in Lines : At(huge, c, p, j) => At(huge, d, p, j)
      /\ \A p \in Nat, j \in Lines : At(huge, d, p, j) => At(huge, c, p, j) \/ (p = n /\ j = k)
  <2>1. d = c \o Whole(k)
    BY DEF d
  <2>2. Appended(huge, c, k, d)
    BY <1>1, <2>1, AppendWhole
  <2> QED BY <2>2, Zenon DEF Appended
<1>3. Boundary(d, Len(d)) /\ n \in Nat
  BY <1>2 DEF Boundary
<1>4. ASSUME NEW i \in 1..Len(d), d[i] # NL
      PROVE  d[i] \in Lines /\ \E p \in 0..(i - 1) : At(huge, d, p, d[i]) /\ i <= p + Size(huge, d[i])
  <2>1. CASE i \in 1..n
    <3>1. d[i] = c[i]
      BY <1>2, <2>1
    <3>2. c[i] \in Lines /\ \E p \in 0..(i - 1) : At(huge, c, p, c[i]) /\ i <= p + Size(huge, c[i])
      BY <1>4, <2>1, <3>1 DEF Tidy
    <3>3. 0..(i - 1) \subseteq Nat
      OBVIOUS
    <3> QED BY <1>2, <3>1, <3>2, <3>3
  <2>2. CASE i \notin 1..n
    <3>1. i \in (n + 1)..(n + Size(huge, k) + 1) /\ i # n + Size(huge, k) + 1
      BY <1>2, <1>4, <2>2
    <3>2. i - n \in 1..Size(huge, k) /\ n + (i - n) = i /\ n \in 0..(i - 1) /\ i <= n + Size(huge, k)
      <4>1. n \in Nat /\ Size(huge, k) \in Nat
        BY <1>2
      <4> HIDE DEF n
      <4> QED BY <3>1, <4>1
    <3>3. d[i] = k
      BY <1>2, <3>2
    <3> QED BY <1>1, <1>2, <3>2, <3>3
  <2> QED BY <2>1, <2>2
<1>5. ASSUME NEW p \in 0..Len(d), NEW q \in 0..Len(d), NEW j \in Lines, NEW l \in Lines,
             At(huge, d, p, j), At(huge, d, q, l), j < l
      PROVE  p < q
  <2>0. p \in Nat /\ q \in Nat /\ j \in Nat /\ l \in Nat /\ k \in Nat
    BY <1>1, LineIs
  <2>1. CASE At(huge, c, p, j) /\ At(huge, c, q, l)
    <3>1. p \in 0..n /\ q \in 0..n
      <4>1. Size(huge, j) \in 1..3 /\ Size(huge, l) \in 1..3
        BY SizeIs
      <4>2. p + Size(huge, j) < n /\ q + Size(huge, l) < n
        BY <2>1 DEF At
      <4> HIDE DEF n
      <4> QED BY <1>3, <2>0, <4>1, <4>2
    <3> QED BY <1>5, <2>1, <3>1 DEF Tidy
  <2>2. CASE At(huge, c, p, j) /\ q = n
    <3>1. Size(huge, j) \in 1..3 /\ p + Size(huge, j) < n
      BY <2>2, SizeIs DEF At
    <3>2. p < n
      <4> HIDE DEF n
      <4> QED BY <1>3, <2>0, <3>1
    <3> QED BY <2>2, <3>2
  <2>3. CASE j = k /\ At(huge, c, q, l)
    <3>1. Size(huge, l) \in 1..3 /\ q + Size(huge, l) < n /\ \A i \in 1..Size(huge, l) : c[q + i] = l
      BY <2>3, SizeIs DEF At
    <3>2. q + 1 \in 1..n /\ 1 \in 1..Size(huge, l)
      <4> HIDE DEF n
      <4> QED BY <1>3, <2>0, <3>1
    <3>3. l \in 0..w
      <4>1. c[q + 1] = l
        BY <3>1, <3>2
      <4> QED BY <3>2, <4>1
    <3> QED BY <1>5, <2>0, <2>3, <3>3 DEF k
  <2>4. CASE j = k /\ l = k
    BY <1>5, <2>0, <2>4
  <2> QED BY <1>2, <1>5, <2>0, <2>1, <2>2, <2>3, <2>4
<1>6. Tidy(huge, d)
  BY <1>3, <1>4, <1>5 DEF Tidy
<1> QED BY <1>6 DEF d, k

\* A byte after a line's end belongs to a line that begins there.
LEMMA LineAt ==
  ASSUME NEW S, NEW c \in Seq(S), Tidy(huge, c), NEW o \in Nat, o < Len(c), Boundary(c, o), c[o + 1] # NL
  PROVE  c[o + 1] \in Lines /\ At(huge, c, o, c[o + 1])
<1> DEFINE k == c[o + 1]
<1>1. o + 1 \in 1..Len(c)
  OBVIOUS
<1>2. k \in Lines /\ \E p \in 0..(o + 1 - 1) : At(huge, c, p, k) /\ o + 1 <= p + Size(huge, k)
  BY <1>1 DEF Tidy
<1>3. PICK p \in 0..(o + 1 - 1) : At(huge, c, p, k) /\ o + 1 <= p + Size(huge, k)
  BY <1>2
<1>4. Size(huge, k) \in 1..3 /\ k # NL /\ \A i \in 1..Size(huge, k) : c[p + i] = k
  BY <1>2, <1>3, LineIs, SizeIs DEF At
<1>5. p = o
  <2> SUFFICES ASSUME p # o PROVE FALSE
    OBVIOUS
  <2>1. o - p \in 1..Size(huge, k) /\ p + (o - p) = o /\ o # 0
    BY <1>3, <1>4
  <2> QED BY <1>4, <2>1 DEF Boundary
<1> QED BY <1>2, <1>3, <1>5

\* A stretch without NL, from the beginning of a line to an NL, is that line.
LEMMA OneLine ==
  ASSUME NEW c, NEW o \in Nat, NEW n \in Nat, c[o + n + 1] = NL, \A i \in 1..n : c[o + i] # NL,
         NEW p \in o..(o + n), NEW k \in Lines, At(huge, c, p, k)
  PROVE  p = o /\ n = Size(huge, k)
<1>1. /\ Size(huge, k) \in 1..3 /\ k # NL /\ Boundary(c, p) /\ c[p + Size(huge, k) + 1] = NL
      /\ \A i \in 1..Size(huge, k) : c[p + i] = k
  BY LineIs, SizeIs DEF At
<1>2. p = o
  <2> SUFFICES ASSUME p # o PROVE FALSE
    OBVIOUS
  <2>1. p - o \in 1..n /\ o + (p - o) = p /\ p # 0
    OBVIOUS
  <2> QED BY <1>1, <2>1 DEF Boundary
<1>3. ~(n < Size(huge, k))
  <2> SUFFICES ASSUME n < Size(huge, k) PROVE FALSE
    OBVIOUS
  <2>1. n + 1 \in 1..Size(huge, k) /\ o + (n + 1) = o + n + 1
    BY <1>1
  <2> QED BY <1>1, <1>2, <2>1
<1>4. ~(Size(huge, k) < n)
  <2> SUFFICES ASSUME Size(huge, k) < n PROVE FALSE
    OBVIOUS
  <2>1. Size(huge, k) + 1 \in 1..n /\ o + (Size(huge, k) + 1) = o + Size(huge, k) + 1
    BY <1>1
  <2> QED BY <1>1, <1>2, <2>1
<1> QED BY <1>1, <1>2, <1>3, <1>4

-----------------------------------------------------------------------------
(* Lists of lists put end to end. *)

\* What the beginnings of a list of lists come to, put end to end.
Joins(S, s, f) ==
  /\ f \in [1..Len(s) -> Seq(S)]
  /\ \A i \in 1..Len(s) : f[i] = IF i = 1 THEN s[i] ELSE f[i - 1] \o s[i]

\* There is such a function for every list of lists.
LEMMA JoinsExist ==
  ASSUME NEW S, NEW s \in Seq(Seq(S))
  PROVE  \E f : Joins(S, s, f)
<1> DEFINE Folded(n, f) == /\ f \in [1..n -> Seq(S)]
                         /\ \A i \in 1..n : f[i] = IF i = 1 THEN s[i] ELSE f[i - 1] \o s[i]
           T == {n \in Nat : n <= Len(s) => \E f : Folded(n, f)}
<1> HIDE DEF Folded
<1>1. 0 \in T
  <2> DEFINE f == [i \in 1..0 |-> <<>>]
  <2>1. Folded(0, f)
    <3>1. \A i \in 1..0 : FALSE
      OBVIOUS
    <3> QED BY <3>1 DEF Folded
  <2> HIDE DEF f
  <2> QED BY <2>1
<1>2. ASSUME NEW n \in Nat, n \in T PROVE n + 1 \in T
  <2> SUFFICES ASSUME n + 1 <= Len(s) PROVE \E g : Folded(n + 1, g)
    OBVIOUS
  <2>1. n <= Len(s) /\ s[n + 1] \in Seq(S) /\ n + 1 - 1 = n
    <3>1. n + 1 \in DOMAIN s
      OBVIOUS
    <3> QED BY <3>1
  <2>2. PICK f : Folded(n, f)
    BY <1>2, <2>1
  <2>3. f \in [1..n -> Seq(S)] /\ \A i \in 1..n : f[i] = IF i = 1 THEN s[i] ELSE f[i - 1] \o s[i]
    BY <2>2 DEF Folded
  <2> DEFINE y == IF n = 0 THEN s[n + 1] ELSE f[n] \o s[n + 1]
             g == [i \in 1..(n + 1) |-> IF i = n + 1 THEN y ELSE f[i]]
  <2>4. y \in Seq(S)
    <3>1. CASE n = 0
      BY <2>1, <3>1
    <3>2. CASE n # 0
      <4>1. f[n] \in Seq(S)
        BY <2>3, <3>2
      <4> DEFINE u == f[n]
                 v == s[n + 1]
      <4>2. u \in Seq(S) /\ v \in Seq(S)
        BY <2>1, <4>1
      <4> HIDE DEF u, v
      <4>3. u \o v \in Seq(S)
        BY <4>2
      <4> QED BY <3>2, <4>3 DEF u, v
    <3> QED BY <3>1, <3>2
  <2>5. g \in [1..(n + 1) -> Seq(S)]
    <3> HIDE DEF y
    <3>1. \A i \in 1..(n + 1) : i # n + 1 => f[i] \in Seq(S)
      BY <2>3
    <3> QED BY <2>4, <3>1
  <2>6. ASSUME NEW i \in 1..(n + 1) PROVE g[i] = IF i = 1 THEN s[i] ELSE g[i - 1] \o s[i]
    <3>1. CASE i = n + 1
      <4>1. n # 0 => n \in 1..(n + 1) /\ n # n + 1
        OBVIOUS
      <4>2. g[i] = y /\ (n # 0 => g[i - 1] = f[n])
        <5> HIDE DEF y
        <5> QED BY <2>1, <3>1, <4>1
      <4> HIDE DEF g
      <4> QED BY <3>1, <4>2
    <3>2. CASE i # n + 1
      <4>1. i \in 1..n /\ (i # 1 => i - 1 \in 1..n)
        BY <3>2
      <4>2. g[i] = f[i] /\ (i # 1 => g[i - 1] = f[i - 1])
        <5> HIDE DEF y
        <5> QED BY <4>1
      <4> HIDE DEF g
      <4> QED BY <2>3, <4>1, <4>2
    <3> QED BY <3>1, <3>2
  <2> HIDE DEF g
  <2>7. Folded(n + 1, g)
    BY <2>5, <2>6 DEF Folded
  <2> QED BY <2>7
<1>3. Len(s) \in T
  <2> HIDE DEF T
  <2> QED BY <1>1, <1>2, Inductive
<1> QED BY <1>3 DEF Joins, Folded

\* Flattening a list gives what all of it comes to.
LEMMA FlattenIs ==
  ASSUME NEW S, NEW s \in Seq(Seq(S)), s # <<>>
  PROVE  \E f : Joins(S, s, f) /\ FlattenSeq(s) = f[Len(s)]
<1> DEFINE Rec(f) == f = [i \in 1..Len(s) |-> IF i = 1 THEN s[i] ELSE f[i - 1] \o s[i]]
           F == CHOOSE f : Rec(f)
<1>1. Len(s) \in Nat /\ Len(s) # 0 /\ \A i \in 1..Len(s) : s[i] \in Seq(S)
  OBVIOUS
<1>2. \E f : Rec(f)
  <2>1. PICK f : Joins(S, s, f)
    BY JoinsExist
  <2>2. Rec(f)
    BY <2>1 DEF Joins
  <2> HIDE DEF Rec
  <2> QED BY <2>2
<1>3. Rec(F)
  <2> HIDE DEF Rec
  <2> QED BY <1>2
<1>4. FlattenSeq(s) = F[Len(s)]
  BY <1>1 DEF FlattenSeq
<1> HIDE DEF F
<1>5. DOMAIN F = 1..Len(s) /\ F = [i \in 1..Len(s) |-> F[i]]
  BY <1>3
<1>6. \A i \in 1..Len(s) : F[i] = IF i = 1 THEN s[i] ELSE F[i - 1] \o s[i]
  BY <1>3
<1>7. \A i \in 1..Len(s) : F[i] \in Seq(S)
  <2> DEFINE T == {n \in Nat : n + 1 <= Len(s) => F[n + 1] \in Seq(S)}
  <2>1. 0 \in T
    BY <1>1, <1>6
  <2>2. ASSUME NEW n \in Nat, n \in T PROVE n + 1 \in T
    <3> SUFFICES ASSUME n + 1 + 1 <= Len(s) PROVE F[n + 1 + 1] \in Seq(S)
      OBVIOUS
    <3>1. n + 1 + 1 \in 1..Len(s) /\ n + 1 + 1 # 1 /\ n + 1 + 1 - 1 = n + 1 /\ n + 1 <= Len(s)
      BY <1>1
    <3> DEFINE u == F[n + 1]
               v == s[n + 1 + 1]
    <3>2. F[n + 1 + 1] = u \o v
      <4>1. PICK i \in 1..Len(s) : i = n + 1 + 1 /\ i # 1 /\ i - 1 = n + 1
        BY <3>1
      <4>2. F[i] = F[i - 1] \o s[i]
        BY <1>6, <4>1
      <4> QED BY <4>1, <4>2
    <3>3. u \in Seq(S) /\ v \in Seq(S)
      BY <1>1, <2>2, <3>1
    <3> HIDE DEF u, v
    <3>4. u \o v \in Seq(S)
      BY <3>3
    <3> QED BY <3>2, <3>4
  <2>3. \A n \in Nat : n \in T
    <3> HIDE DEF T
    <3> QED BY <2>1, <2>2, Inductive
  <2> SUFFICES ASSUME NEW i \in 1..Len(s) PROVE F[i] \in Seq(S)
    OBVIOUS
  <2>4. i - 1 \in Nat /\ i - 1 + 1 = i
    BY <1>1
  <2>5. i - 1 \in T
    BY <2>3, <2>4
  <2> QED BY <1>1, <2>4, <2>5
<1>8. Joins(S, s, F)
  BY <1>5, <1>6, <1>7 DEF Joins
<1> QED BY <1>4, <1>8

\* One more list comes at the end.
LEMMA FlattenAppend ==
  ASSUME NEW S, NEW s \in Seq(Seq(S)), NEW x \in Seq(S)
  PROVE  FlattenSeq(Append(s, x)) = IF s = <<>> THEN x ELSE FlattenSeq(s) \o x
<1> DEFINE n == Len(s)
           t == Append(s, x)
<1>1. /\ t \in Seq(Seq(S)) /\ t # <<>> /\ Len(t) = n + 1 /\ n \in Nat
      /\ \A i \in 1..n : t[i] = s[i]
      /\ t[n + 1] = x
  <2> DEFINE Q == Seq(S)
  <2> HIDE DEF Q
  <2>1. s \in Seq(Q) /\ x \in Q
    BY DEF Q
  <2>2. t \in Seq(Q) /\ t # <<>> /\ Len(t) = n + 1 /\ n \in Nat
    BY <2>1
  <2>3. (\A i \in 1..n : t[i] = s[i]) /\ t[n + 1] = x
    BY <2>1
  <2> QED BY <2>2, <2>3 DEF Q
<1>2. PICK g : Joins(S, t, g) /\ FlattenSeq(t) = g[Len(t)]
  BY <1>1, FlattenIs
<1> HIDE DEF t
<1>3. \A i \in 1..(n + 1) : g[i] = IF i = 1 THEN t[i] ELSE g[i - 1] \o t[i]
  BY <1>1, <1>2 DEF Joins
<1>4. CASE s = <<>>
  <2>1. n = 0 /\ n + 1 = 1 /\ 1 \in 1..(n + 1)
    BY <1>4
  <2>2. g[1] = x
    BY <1>1, <1>3, <2>1
  <2> QED BY <1>1, <1>2, <1>4, <2>1, <2>2 DEF t
<1>5. CASE s # <<>>
  <2>1. PICK f : Joins(S, s, f) /\ FlattenSeq(s) = f[n]
    BY <1>5, FlattenIs
  <2>2. \A i \in 1..n : f[i] = IF i = 1 THEN s[i] ELSE f[i - 1] \o s[i]
    BY <2>1 DEF Joins
  <2>3. n # 0 /\ n \in Nat
    BY <1>1, <1>5
  <2> HIDE DEF n
  <2> DEFINE T == {j \in Nat : j + 1 <= n => f[j + 1] = g[j + 1]}
  <2>4. 0 \in T
    <3>1. 1 \in 1..n /\ 1 \in 1..(n + 1)
      BY <2>3
    <3>2. f[1] = s[1] /\ g[1] = t[1] /\ t[1] = s[1]
      BY <1>1, <1>3, <2>2, <3>1
    <3> QED BY <3>2
  <2>5. ASSUME NEW j \in Nat, j \in T PROVE j + 1 \in T
    <3> SUFFICES ASSUME j + 1 + 1 <= n PROVE f[j + 1 + 1] = g[j + 1 + 1]
      OBVIOUS
    <3>1. /\ j + 1 + 1 \in 1..n /\ j + 1 + 1 \in 1..(n + 1) /\ j + 1 + 1 # 1 /\ j + 1 + 1 - 1 = j + 1
          /\ j + 1 <= n
      BY <2>3
    <3>2. f[j + 1] = g[j + 1]
      BY <2>5, <3>1
    <3>0. PICK i \in 1..n : i = j + 1 + 1 /\ i # 1 /\ i - 1 = j + 1 /\ i \in 1..(n + 1)
      BY <3>1
    <3>3. f[i] = f[i - 1] \o s[i]
      BY <2>2, <3>0
    <3>4. g[i] = g[i - 1] \o t[i]
      BY <1>3, <3>0
    <3>5. t[j + 1 + 1] = s[j + 1 + 1]
      BY <1>1, <3>1
    <3> QED BY <3>0, <3>2, <3>3, <3>4, <3>5
  <2>6. \A j \in Nat : j \in T
    <3> HIDE DEF T
    <3> QED BY <2>4, <2>5, Inductive
  <2>7. f[n] = g[n]
    <3>1. n - 1 \in Nat /\ n - 1 + 1 = n /\ n <= n
      BY <2>3
    <3>2. n - 1 \in T
      <4> HIDE DEF T
      <4> QED BY <2>6, <3>1
    <3> QED BY <3>1, <3>2
  <2>8. g[n + 1] = g[n] \o x
    <3>1. PICK i \in 1..(n + 1) : i = n + 1 /\ i # 1 /\ i - 1 = n
      <4>1. n + 1 \in 1..(n + 1) /\ n + 1 # 1 /\ n + 1 - 1 = n
        BY <2>3
      <4> QED BY <2>3, <4>1
    <3>2. g[i] = g[i - 1] \o t[i]
      BY <1>3, <3>1
    <3>3. t[n + 1] = x
      BY <1>1 DEF n
    <3> QED BY <3>1, <3>2, <3>3
  <2> QED BY <1>1, <1>2, <1>5, <2>1, <2>7, <2>8 DEF t, n
<1> QED BY <1>4, <1>5

-----------------------------------------------------------------------------
(* Types. *)

\* At the start.
LEMMA TypesStart == Init => Types
<1> SUFFICES ASSUME Init PROVE Types
  OBVIOUS
<1>1. /\ follow \in BOOLEAN /\ tidy \in BOOLEAN /\ huge \in Huge \cup {None} /\ written \in 0..1
      /\ content = [i \in Files |-> IF i = 1 /\ written = 1 THEN Whole(1) ELSE <<>>]
      /\ mtime = [i \in Files |-> 0] /\ path = 1 /\ created = 1 /\ clock = 0 /\ part = None /\ truncs = 0
      /\ pc = "open" /\ fd = None /\ offset = 0 /\ token = <<>> /\ buf = <<>> /\ eof = FALSE
      /\ pass = <<>> /\ base = 0 /\ got = {} /\ old = {} /\ ctx = FALSE
  BY DEF Init
<1>2. huge \in Nat /\ 1 \in Files
  BY <1>1, BoundsAre DEF None, Files
<1>3. written \in 0..MaxLines
  BY <1>1, BoundsAre
<1>4. content \in [Files -> Seq(Byte)]
  <2>1. Whole(1) \in Seq({1, NL})
    BY WholeIs
  <2>2. written = 1 => {1, NL} \subseteq Byte
    BY DEF Byte, NL
  <2>3. written = 1 => Whole(1) \in Seq(Byte)
    BY <2>1, <2>2, Wider
  <2> QED BY <1>1, <2>3
<1>5. mtime \in [Files -> 0..clock]
  BY <1>1
<1>6. buf \in Seq(Byte) /\ token \in Seq(Byte) /\ pass \in Seq(Seq(Byte))
  BY <1>1
<1>7. path \in 1..created /\ path # None /\ offset \in Nat /\ base \in 0..offset
  BY <1>1 DEF None
<1> QED BY <1>1, <1>2, <1>3, <1>4, <1>5, <1>6, <1>7 DEF Types, None

\* A write to the current file.
LEMMA WriteTypes ==
  ASSUME Types, written' \in written..MaxLines, NEW bytes \in Seq(0..written'), Write(bytes),
         part' \in {None} \cup 1..written',
         UNCHANGED <<modeVars, path, created, truncs, pc, readVars, ctx>>
  PROVE  Types'
<1>1. written \in 0..MaxLines /\ written' \in 0..MaxLines
  BY BoundsAre DEF Types
<1>2. Byte \subseteq 0..written' /\ 1..written \subseteq 1..written' /\ Byte' = 0..written'
  BY <1>1 DEF Byte
<1>3. content \in [Files -> Seq(0..written')] /\ created \in Files
  <2>1. Seq(Byte) \subseteq Seq(0..written')
    BY <1>2, Wider
  <2> QED BY <2>1 DEF Types
<1>4. content' = [content EXCEPT ![created] = content[created] \o bytes]
  BY DEF Write
<1>5. content' \in [Files -> Seq(Byte')]
  <2> DEFINE Q == Seq(0..written')
             c == content[created]
  <2>1. c \in Q
    BY <1>3
  <2>2. c \o bytes \in Q
    <3> HIDE DEF c
    <3> QED BY <2>1
  <2> HIDE DEF Q
  <2> QED BY <1>2, <1>3, <1>4, <2>2 DEF Q
<1>6. clock \in Nat /\ clock' = clock + 1 /\ mtime \in [Files -> 0..clock]
      /\ mtime' = [mtime EXCEPT ![created] = clock + 1]
  BY DEF Write, Types
<1>7. mtime' \in [Files -> 0..clock'] /\ clock' \in Nat
  <2>1. 0..clock \subseteq 0..clock' /\ clock + 1 \in 0..clock'
    BY <1>6
  <2> QED BY <1>3, <1>6, <2>1
<1>8. buf' \in Seq(Byte') /\ token' \in Seq(Byte') /\ pass' \in Seq(Seq(Byte'))
  <2>1. Seq(Byte) \subseteq Seq(Byte')
    BY <1>2, Wider
  <2>2. Seq(Seq(Byte)) \subseteq Seq(Seq(Byte'))
    BY <2>1, Wider
  <2> QED BY <2>1, <2>2 DEF Types, readVars
<1>9. got' \subseteq 1..written' /\ old' \subseteq 1..written'
  BY <1>2 DEF Types, readVars
<1> QED BY <1>1, <1>5, <1>7, <1>8, <1>9 DEF Types, modeVars, readVars

\* The processes that write and rotate the file keep the types.
LEMMA WritersKeepTypes ==
  Types /\ (WriteLine \/ WritePart \/ FinishPart \/ RenameAway \/ CreateNew \/ Truncate) => Types'
<1> SUFFICES ASSUME Types PROVE WriteLine \/ WritePart \/ FinishPart \/ RenameAway \/ CreateNew \/ Truncate => Types'
  OBVIOUS
<1>0. written \in 0..MaxLines /\ MaxLines \in Nat
  BY BoundsAre DEF Types
<1>1. ASSUME WriteLine PROVE Types'
  <2>1. written' = written + 1 /\ written < MaxLines /\ part' = part /\ Write(Whole(written + 1))
        /\ UNCHANGED <<modeVars, path, created, truncs, pc, readVars, ctx>>
    BY <1>1 DEF WriteLine
  <2>2. written' \in written..MaxLines /\ written + 1 \in Nat /\ part' \in {None} \cup 1..written'
    BY <1>0, <2>1 DEF Types
  <2>3. Whole(written + 1) \in Seq(0..written')
    <3>1. Whole(written + 1) \in Seq({written + 1, NL})
      BY <2>2, WholeIs
    <3>2. {written + 1, NL} \subseteq 0..written'
      BY <1>0, <2>1 DEF NL
    <3> QED BY <3>1, <3>2, Wider
  <2> QED BY <2>1, <2>2, <2>3, WriteTypes
<1>2. ASSUME WritePart PROVE Types'
  <2>1. written' = written + 1 /\ written < MaxLines /\ part' = written + 1 /\ Write(<<written + 1>>)
        /\ UNCHANGED <<modeVars, path, created, truncs, pc, readVars, ctx>>
    BY <1>2 DEF WritePart
  <2>2. written' \in written..MaxLines /\ part' \in {None} \cup 1..written'
    BY <1>0, <2>1
  <2>3. <<written + 1>> \in Seq(0..written')
    BY <1>0, <2>1
  <2> QED BY <2>1, <2>2, <2>3, WriteTypes
<1>3. ASSUME FinishPart PROVE Types'
  <2>1. written' = written /\ part # None /\ part' = None /\ Write(<<part, NL>>)
        /\ UNCHANGED <<modeVars, path, created, truncs, pc, readVars, ctx>>
    BY <1>3 DEF FinishPart
  <2>2. written' \in written..MaxLines /\ part' \in {None} \cup 1..written' /\ part \in 1..written
    BY <1>0, <2>1 DEF Types
  <2>3. <<part, NL>> \in Seq(0..written')
    BY <1>0, <2>1, <2>2 DEF NL
  <2> QED BY <2>1, <2>2, <2>3, WriteTypes
<1>4. ASSUME RenameAway PROVE Types'
  <2>1. Byte' = Byte
    BY <1>4 DEF RenameAway, Byte
  <2> QED BY <1>4, <2>1 DEF RenameAway, Types, modeVars, readVars
<1>5. ASSUME CreateNew PROVE Types'
  <2>1. Byte' = Byte
    BY <1>5 DEF CreateNew, Byte
  <2>2. created' \in Files /\ path' # None /\ 1..created \subseteq 1..created' /\ created' \in 1..created'
    BY <1>5, BoundsAre DEF CreateNew, Types, Files, None
  <2> QED BY <1>5, <2>1, <2>2 DEF CreateNew, Types, modeVars, readVars
<1>6. ASSUME Truncate PROVE Types'
  <2>1. Byte' = Byte /\ written' = written /\ truncs' \in Nat
    BY <1>6 DEF Truncate, Byte, Types
  <2>2. content' \in [Files -> Seq(Byte')]
    BY <1>6, <2>1 DEF Truncate, Types
  <2>3. mtime' \in [Files -> 0..clock'] /\ clock' \in Nat
    <3>1. clock \in Nat /\ clock' = clock + 1 /\ mtime \in [Files -> 0..clock]
          /\ mtime' = [mtime EXCEPT ![created] = clock + 1]
      BY <1>6 DEF Truncate, Types
    <3>2. 0..clock \subseteq 0..clock' /\ clock + 1 \in 0..clock'
      BY <3>1
    <3>3. created \in Files
      BY DEF Types
    <3> QED BY <3>1, <3>2, <3>3
  <2> QED BY <1>6, <2>1, <2>2, <2>3 DEF Truncate, Types, modeVars, readVars
<1> QED BY <1>1, <1>2, <1>3, <1>4, <1>5, <1>6

\* What is left of the scanner's bytes, and the token cut off.
LEMMA ScanTypes ==
  ASSUME NEW S, buf \in Seq(S), HasLine \/ ~TooLong
  PROVE  /\ TokenLen \in 0..Len(buf)
         /\ SubSeq(buf, 1, TokenLen) \in Seq(S) /\ Len(SubSeq(buf, 1, TokenLen)) = TokenLen
         /\ \A i \in 1..TokenLen : SubSeq(buf, 1, TokenLen)[i] = buf[i]
         /\ SubSeq(buf, TokenLen + 2, Len(buf)) \in Seq(S)
         /\ Len(SubSeq(buf, TokenLen + 2, Len(buf)))
              = IF TokenLen < Len(buf) THEN Len(buf) - TokenLen - 1 ELSE 0
         /\ \A i \in 1..(Len(buf) - TokenLen - 1) :
              SubSeq(buf, TokenLen + 2, Len(buf))[i] = buf[TokenLen + 1 + i]
<1> DEFINE n == TokenLen
           l == Len(buf)
<1>1. n \in 0..l /\ l \in Nat
  BY TokenIs
<1> HIDE DEF n, l
<1>2. PICK m \in Nat : m = 0 /\ m + 1 = 1
  <2>1. 0 + 1 = 1
    OBVIOUS
  <2> QED BY <2>1
<1>3. PICK o \in Nat : o = n + 1 /\ o + 1 = n + 2
  <2>1. n + 1 \in Nat /\ n + 1 + 1 = n + 2
    BY <1>1
  <2> QED BY <2>1
<1>4. /\ SubSeq(buf, m + 1, n) \in Seq(S) /\ Len(SubSeq(buf, m + 1, n)) = (IF m <= n THEN n - m ELSE 0)
      /\ \A i \in 1..(n - m) : SubSeq(buf, m + 1, n)[i] = buf[m + i]
  BY <1>1, CutIs DEF l
<1>5. /\ SubSeq(buf, o + 1, l) \in Seq(S) /\ Len(SubSeq(buf, o + 1, l)) = (IF o <= l THEN l - o ELSE 0)
      /\ \A i \in 1..(l - o) : SubSeq(buf, o + 1, l)[i] = buf[o + i]
  <2>1. l \in 0..Len(buf)
    BY <1>1 DEF l
  <2> QED BY <2>1, CutIs
<1>6. /\ SubSeq(buf, 1, n) \in Seq(S) /\ Len(SubSeq(buf, 1, n)) = n
      /\ \A i \in 1..n : SubSeq(buf, 1, n)[i] = buf[i]
  <2>1. n - m = n /\ m <= n /\ \A i \in 1..n : m + i = i
    BY <1>1, <1>2
  <2> QED BY <1>2, <1>4, <2>1
<1>7. /\ SubSeq(buf, n + 2, l) \in Seq(S)
      /\ Len(SubSeq(buf, n + 2, l)) = IF n < l THEN l - n - 1 ELSE 0
      /\ \A i \in 1..(l - n - 1) : SubSeq(buf, n + 2, l)[i] = buf[n + 1 + i]
  <2>1. l - o = l - n - 1 /\ (o <= l <=> n < l)
    BY <1>1, <1>3
  <2> QED BY <1>3, <1>5, <2>1
<1> QED BY <1>1, <1>6, <1>7 DEF n, l

\* The steps of runFile keep the types.
LEMMA ReaderKeepsTypes == Types /\ RunFile => Types'
<1> SUFFICES ASSUME Types, RunFile PROVE Types'
  OBVIOUS
<1>0. /\ UNCHANGED <<modeVars, fileVars, ctx>>
      /\ Byte' = Byte
      /\ Open \/ Baseline \/ Poll \/ Fill \/ Scan \/ Send \/ Drained \/ Stat \/ Reopen \/ Sleep
  BY DEF RunFile, Byte, fileVars
<1>1. ASSUME Open PROVE Types'
  <2>1. pc = "open" /\ fd = None
    BY <1>1 DEF Open, Types
  <2>2. CASE path = None
    BY <1>0, <1>1, <2>1, <2>2 DEF Open, Types, modeVars, fileVars, readVars
  <2>3. CASE path # None
    <3>1. /\ fd' = path /\ Rewind(StartPos(content[path]))
          /\ old' = LinesOf(content[path]) \cup ({part} \ {None})
          /\ pc' = "baseline" /\ UNCHANGED <<stat, buf, eof, token, got, raced>>
      BY <1>1, <2>3 DEF Open
    <3>2. content[path] \in Seq(Byte) /\ part \in {None} \cup 1..written /\ written \in Nat
      BY <2>3, BoundsAre DEF Types, Files
    <3>3. LinesOf(content[path]) \subseteq 1..written
      <4>1. \A k \in LinesOf(content[path]) : k \in Lines /\ k \in Byte
        BY <3>2, LinesAre
      <4> QED BY <3>2, <4>1 DEF Lines, Byte
    <3>4. StartPos(content[path]) \in Nat
      BY <3>2 DEF StartPos
    <3>5. offset' \in Nat /\ base' \in 0..offset' /\ pass' = <<>>
      BY <3>1, <3>4 DEF Rewind
    <3>6. old' \subseteq 1..written'
      BY <1>0, <3>1, <3>2, <3>3 DEF fileVars
    <3> QED BY <1>0, <2>3, <3>1, <3>5, <3>6 DEF Types, modeVars, fileVars
  <2> QED BY <2>2, <2>3
<1>2. ASSUME Baseline PROVE Types'
  BY <1>0, <1>2 DEF Baseline, Types, modeVars, fileVars
<1>3. ASSUME Poll PROVE Types'
  <2>1. buf' = <<>> /\ buf' \in Seq(Byte') /\ eof' = FALSE
    BY <1>3 DEF Poll
  <2>2. pc' \in {"scan", "done"} /\ (pc' = "scan" => fd' # None)
    BY <1>3 DEF Poll
  <2>3. UNCHANGED <<fd, offset, stat, token, pass, base, got, old, raced>>
    BY <1>3 DEF Poll
  <2> QED BY <1>0, <2>1, <2>2, <2>3 DEF Types, modeVars, fileVars
<1>4. ASSUME Fill PROVE Types'
  <2> DEFINE c == content[fd]
             pos == offset + Len(buf)
             more == SubSeq(c, pos + 1, Len(c))
  <2>1. c \in Seq(Byte) /\ buf \in Seq(Byte) /\ pos \in Nat /\ Len(c) \in 0..Len(c)
    <3>1. fd # None
      BY <1>4 DEF Fill, Types
    <3>2. c \in Seq(Byte)
      BY <3>1, BoundsAre DEF Types, Files
    <3>3. buf \in Seq(Byte) /\ offset \in Nat
      BY DEF Types
    <3> HIDE DEF c
    <3>4. Len(c) \in Nat /\ Len(buf) \in Nat
      BY <3>2, <3>3
    <3> QED BY <3>2, <3>3, <3>4
  <2>2. more \in Seq(Byte)
    <3> HIDE DEF c, pos
    <3> QED BY <2>1, CutIs
  <2>3. buf' = buf \o more /\ eof' \in BOOLEAN
    BY <1>4 DEF Fill
  <2>4. buf' \in Seq(Byte')
    <3> HIDE DEF more
    <3> QED BY <1>0, <2>1, <2>2, <2>3
  <2> QED BY <1>0, <1>4, <2>3, <2>4 DEF Fill, Types, modeVars, fileVars
<1>5. ASSUME Scan PROVE Types'
  <2>1. /\ token' = SubSeq(buf, 1, TokenLen) /\ offset' = offset + Consumed(TokenLen)
        /\ buf' = SubSeq(buf, TokenLen + 2, Len(buf)) /\ pc' = "send" /\ pc = "scan"
        /\ UNCHANGED <<fd, stat, eof, pass, base, got, old, raced>>
        /\ HasLine \/ ~TooLong
    BY <1>5 DEF Scan
  <2>2. token' \in Seq(Byte) /\ buf' \in Seq(Byte) /\ TokenLen \in Nat
    <3>1. buf \in Seq(Byte)
      BY DEF Types
    <3>2. SubSeq(buf, 1, TokenLen) \in Seq(Byte) /\ SubSeq(buf, TokenLen + 2, Len(buf)) \in Seq(Byte)
          /\ TokenLen \in 0..Len(buf)
      BY <2>1, <3>1, ScanTypes
    <3> QED BY <2>1, <3>1, <3>2
  <2>3. offset' \in Nat /\ base' \in 0..offset'
    BY <2>1, <2>2 DEF Consumed, Types
  <2> QED BY <1>0, <2>1, <2>2, <2>3 DEF Types, modeVars, fileVars
<1>6. ASSUME Send PROVE Types'
  <2>1. pass' \in Seq(Seq(Byte))
    <3> DEFINE Q == Seq(Byte)
    <3>1. pass \in Seq(Q) /\ token \in Q /\ pass' = Append(pass, token)
      BY <1>6 DEF Send, Types
    <3> HIDE DEF Q
    <3>2. pass' \in Seq(Q)
      BY <3>1
    <3> QED BY <3>2 DEF Q
  <2>2. ASSUME NEW k \in Lines, token = Body(k) PROVE k \in 1..written
    <3>1. k \in Nat /\ k # NL /\ Size(huge, k) \in 1..3 /\ token \in Seq(Byte) /\ written \in Nat
      BY LineIs, SizeIs, BoundsAre DEF Types
    <3>2. \A i \in 1..Size(huge, k) : token[i] = k
      BY <2>2, <3>1, BodyIs
    <3>3. 1 \in 1..Size(huge, k) /\ Len(token) = Size(huge, k)
      <4>1. Len(Body(k)) = Size(huge, k)
        BY <3>1, BodyIs
      <4> QED BY <2>2, <3>1, <4>1
    <3>4. token[1] \in Byte /\ token[1] = k
      BY <3>1, <3>2, <3>3
    <3> QED BY <3>1, <3>4 DEF Byte, NL
  <2>3. got' \subseteq 1..written
    BY <1>6, <2>2 DEF Send, Types
  <2> QED BY <1>0, <1>6, <2>1, <2>3 DEF Send, Types, modeVars, fileVars
<1>7. ASSUME Drained PROVE Types'
  BY <1>0, <1>7 DEF Drained, Types, modeVars, fileVars, readVars
<1>8. ASSUME Stat PROVE Types'
  <2>1. CASE UNCHANGED readVars
    BY <1>0, <1>8, <2>1 DEF Stat, Types, modeVars, fileVars, readVars
  <2>2. CASE Rewind(0) /\ pc' = "poll" /\ UNCHANGED <<fd, buf, eof, token, got, old, raced>>
    <3>1. offset' \in Nat /\ base' \in 0..offset' /\ pass' \in Seq(Seq(Byte))
      BY <2>2 DEF Rewind
    <3> QED BY <1>0, <2>2, <3>1 DEF Types, modeVars, fileVars
  <2> QED BY <1>8, <2>1, <2>2 DEF Stat
<1>9. ASSUME Reopen PROVE Types'
  <2>1. CASE path = None
    BY <1>0, <1>9, <2>1 DEF Reopen, Types, modeVars, fileVars
  <2>2. CASE path # None
    <3>1. /\ fd' = path /\ Rewind(0) /\ pc' = "poll" /\ UNCHANGED <<buf, eof, token, got, old, raced>>
      BY <1>9, <2>2 DEF Reopen
    <3>2. offset' \in Nat /\ base' \in 0..offset' /\ pass' \in Seq(Seq(Byte))
      BY <3>1 DEF Rewind
    <3> QED BY <1>0, <2>2, <3>1, <3>2 DEF Types, modeVars, fileVars
  <2> QED BY <2>1, <2>2
<1>10. ASSUME Sleep PROVE Types'
  BY <1>0, <1>10 DEF Sleep, Types, modeVars, fileVars, readVars
<1> QED BY <1>0, <1>1, <1>2, <1>3, <1>4, <1>5, <1>6, <1>7, <1>8, <1>9, <1>10

\* Every step keeps the types.
LEMMA TypesStay == Types /\ [Next]_vars => Types'
<1> SUFFICES ASSUME Types, [Next]_vars PROVE Types'
  OBVIOUS
<1>1. CASE Cancel
  <2>1. Byte' = Byte
    BY <1>1 DEF Cancel, Byte, fileVars
  <2> QED BY <1>1, <2>1 DEF Cancel, Types, modeVars, fileVars, readVars
<1>2. CASE Finished \/ UNCHANGED vars
  <2>1. UNCHANGED vars /\ Byte' = Byte
    BY <1>2 DEF Finished, vars, fileVars, Byte
  <2> QED BY <2>1 DEF vars, Types, modeVars, fileVars, readVars
<1> QED BY <1>1, <1>2, WritersKeepTypes, ReaderKeepsTypes DEF Next

\* Types are right for ever.
LEMMA TypesHold == Spec => []Types
BY TypesStart, TypesStay, PTL DEF Spec

\* Every variable has its type, and the tailer holds only files the path has named.
THEOREM TypeCorrect == Spec => []TypeOK
<1>1. Types => TypeOK
  <2> SUFFICES ASSUME Types PROVE TypeOK
    OBVIOUS
  <2>1. Byte \subseteq Lines \cup {NL}
    BY BoundsAre DEF Types, Byte, Lines, NL
  <2>2. Seq(Byte) \subseteq Seq(Lines \cup {NL})
    BY <2>1, Wider
  <2> QED BY <2>2 DEF Types, TypeOK
<1> QED BY <1>1, TypesHold, PTL

-----------------------------------------------------------------------------
(* What a pass has sent. *)

\* A pass that starts has sent nothing.
LEMMA InOrderEmpty == ASSUME NEW S, NEW c \in Seq(S), NEW o \in 0..Len(c) PROVE InOrder(<<>>, c, o, o)
<1>1. DOMAIN <<>> = {}
  OBVIOUS
<1>2. [i \in DOMAIN <<>> |-> Append(<<>>[i], NL)] = <<>>
  BY <1>1
<1>3. FlattenSeq(<<>>) = <<>>
  BY DEF FlattenSeq
<1>4. SubSeq(c, o + 1, o) = <<>>
  <2>1. SubSeq(c, o + 1, o) \in Seq(S) /\ Len(SubSeq(c, o + 1, o)) = IF o <= o THEN o - o ELSE 0
    BY CutIs
  <2>2. IF o <= o THEN o - o = 0 ELSE TRUE
    OBVIOUS
  <2> QED BY <2>1, <2>2
<1> QED BY <1>2, <1>3, <1>4 DEF InOrder

\* One more token that is the next line.
LEMMA InOrderMore ==
  ASSUME NEW S, NL \in S, NEW c \in Seq(S), NEW o \in 0..Len(c), NEW b \in 0..o,
         NEW toks \in Seq(Seq(S)), NEW t \in Seq(S), NEW e \in 0..Len(c), e = o + Len(t) + 1,
         \A i \in 1..Len(t) : t[i] = c[o + i], c[e] = NL
  PROVE  InOrder(toks, c, b, o) => InOrder(Append(toks, t), c, b, e)
<1> SUFFICES ASSUME InOrder(toks, c, b, o) PROVE InOrder(Append(toks, t), c, b, e)
  OBVIOUS
<1> DEFINE Q == Seq(S)
           n == Len(toks)
           l == Len(t)
           x == Append(t, NL)
           J == [i \in DOMAIN toks |-> Append(toks[i], NL)]
           more == Append(toks, t)
           K == [i \in DOMAIN more |-> Append(more[i], NL)]
<1>1. x \in Q /\ l \in Nat /\ Len(x) = l + 1 /\ (\A i \in 1..l : x[i] = t[i]) /\ x[l + 1] = NL
  OBVIOUS
<1>2. n \in Nat /\ DOMAIN toks = 1..n /\ (\A i \in 1..n : toks[i] \in Q)
  <2> HIDE DEF Q
  <2>1. toks \in Seq(Q)
    BY DEF Q
  <2> QED BY <2>1
<1>3. more \in Seq(Q) /\ DOMAIN more = 1..(n + 1) /\ (\A i \in 1..n : more[i] = toks[i]) /\ more[n + 1] = t
  <2> HIDE DEF Q
  <2>1. toks \in Seq(Q) /\ t \in Q
    BY DEF Q
  <2> QED BY <2>1
<1> HIDE DEF x, more, l, n
<1>4. \A i \in 1..n : Append(toks[i], NL) \in Q
  <2> SUFFICES ASSUME NEW i \in 1..n PROVE Append(toks[i], NL) \in Q
    OBVIOUS
  <2>1. PICK u \in Q : u = toks[i]
    BY <1>2
  <2>2. Append(u, NL) \in Q
    OBVIOUS
  <2> QED BY <2>1, <2>2
<1>5. J \in Seq(Q) /\ Len(J) = n /\ \A i \in 1..n : J[i] = Append(toks[i], NL)
  <2> HIDE DEF Q
  <2>1. DOMAIN toks = 1..n /\ n \in Nat
    BY <1>2
  <2>2. \A i \in 1..n : J[i] = Append(toks[i], NL)
    BY <2>1, Zenon
  <2>3. J \in [1..n -> Q]
    BY <1>4, <2>1
  <2>4. n \in Nat
    BY <2>1
  <2> HIDE DEF J
  <2>5. J \in Seq(Q)
    BY <2>3, <2>4
  <2>6. Len(J) = n
    BY <2>3, <2>4
  <2> QED BY <2>2, <2>5, <2>6
<1>6. K = Append(J, x)
  <2> DEFINE R == Append(J, x)
  <2>1. R \in Seq(Q) /\ Len(R) = n + 1 /\ (\A i \in 1..n : R[i] = J[i]) /\ R[n + 1] = x
    <3> HIDE DEF J, Q
    <3> QED BY <1>1, <1>2, <1>5
  <2>2. DOMAIN K = 1..(n + 1) /\ \A i \in 1..(n + 1) : K[i] = Append(more[i], NL)
    BY <1>3
  <2> HIDE DEF K, R, J
  <2>3. ASSUME NEW i \in 1..(n + 1) PROVE K[i] = R[i]
    <3>1. CASE i = n + 1
      BY <1>3, <2>1, <2>2, <3>1 DEF x
    <3>2. CASE i # n + 1
      <4>1. i \in 1..n
        BY <1>2, <3>2
      <4>2. K[i] = Append(more[i], NL)
        BY <2>2
      <4>3. more[i] = toks[i] /\ J[i] = Append(toks[i], NL)
        BY <1>3, <1>5, <4>1
      <4>4. R[i] = J[i]
        BY <2>1, <4>1
      <4> QED BY <4>2, <4>3, <4>4
    <3> QED BY <3>1, <3>2
  <2>4. K = [i \in 1..(n + 1) |-> R[i]]
    <3>1. K = [i \in DOMAIN K |-> K[i]]
      BY DEF K
    <3> QED BY <2>2, <2>3, <3>1
  <2>5. R = [i \in 1..(n + 1) |-> R[i]]
    BY <1>2, <2>1
  <2> QED BY <2>4, <2>5 DEF R
<1>7. x = SubSeq(c, o + 1, e)
  <2> DEFINE y == SubSeq(c, o + 1, e)
  <2>1. y \in Q /\ Len(y) = (IF o <= e THEN e - o ELSE 0) /\ \A i \in 1..(e - o) : y[i] = c[o + i]
    BY CutIs
  <2>2. e - o = l + 1 /\ o <= e
    BY <1>1 DEF l
  <2> HIDE DEF y
  <2>3. \A i \in 1..(l + 1) : x[i] = y[i]
    <3> SUFFICES ASSUME NEW i \in 1..(l + 1) PROVE x[i] = y[i]
      OBVIOUS
    <3>1. CASE i = l + 1
      <4>1. o + i = e
        BY <1>1, <2>2, <3>1
      <4> QED BY <1>1, <2>1, <2>2, <3>1, <4>1
    <3>2. CASE i # l + 1
      <4>1. i \in 1..l
        BY <1>1, <3>2
      <4> QED BY <1>1, <2>1, <2>2, <4>1 DEF l
    <3> QED BY <3>1, <3>2
  <2>4. Len(x) = Len(y)
    BY <1>1, <2>1, <2>2
  <2> QED BY <1>1, <2>1, <2>3, <2>4, SameList DEF y
<1>8. FlattenSeq(J) = SubSeq(c, b + 1, o)
  BY DEF InOrder
<1> HIDE DEF J, K
<1>9. FlattenSeq(K) = IF J = <<>> THEN x ELSE FlattenSeq(J) \o x
  BY <1>1, <1>5, <1>6, FlattenAppend
<1>10. FlattenSeq(K) = SubSeq(c, b + 1, e)
  <2>1. CASE J = <<>>
    <3>1. FlattenSeq(J) = <<>>
      BY <2>1 DEF FlattenSeq
    <3>2. Len(SubSeq(c, b + 1, o)) = IF b <= o THEN o - b ELSE 0
      BY CutIs
    <3>3. Len(SubSeq(c, b + 1, o)) = 0
      <4>1. SubSeq(c, b + 1, o) = <<>>
        BY <1>8, <3>1, Zenon
      <4>2. Len(<<>>) = 0
        OBVIOUS
      <4> QED BY <4>1, <4>2, Zenon
    <3>4. b = o
      BY <3>2, <3>3
    <3> QED BY <1>7, <1>9, <2>1, <3>4
  <2>2. CASE J # <<>>
    <3>1. PICK m \in 1..(Len(c) + 1) : m = b + 1 /\ o \in (m - 1)..Len(c)
      <4>1. b + 1 \in 1..(Len(c) + 1) /\ o \in (b + 1 - 1)..Len(c)
        OBVIOUS
      <4> QED BY <4>1
    <3>2. e \in o..Len(c)
      BY <1>1 DEF l
    <3>3. SubSeq(c, m, o) \o SubSeq(c, o + 1, e) = SubSeq(c, m, e)
      BY <3>1, <3>2, ConcatAdjacentSubSeq
    <3> QED BY <1>7, <1>8, <1>9, <2>2, <3>1, <3>3
  <2> QED BY <2>1, <2>2
<1> QED BY <1>10 DEF InOrder, K, more

-----------------------------------------------------------------------------
(* Files that grow. *)

\* What was in the file c is in d, at the same place.
Grown(c, d) ==
  /\ Len(c) <= Len(d)
  /\ \A i \in 1..Len(c) : d[i] = c[i]
  /\ \A m \in Nat, n \in 0..Len(c) : SubSeq(d, m + 1, n) = SubSeq(c, m + 1, n)

\* A file that is appended to grows.
LEMMA AppendGrows == ASSUME NEW S, NEW c \in Seq(S), NEW t \in Seq(S) PROVE Grown(c, c \o t)
<1>1. Len(c) <= Len(c \o t) /\ \A i \in 1..Len(c) : (c \o t)[i] = c[i]
  OBVIOUS
<1>2. \A m \in Nat, n \in 0..Len(c) : SubSeq(c \o t, m + 1, n) = SubSeq(c, m + 1, n)
  BY CutStays
<1> QED BY <1>1, <1>2 DEF Grown

\* What it means to a reader.
LEMMA GrownKeeps ==
  ASSUME NEW S, NEW c \in Seq(S), NEW d \in Seq(S), Grown(c, d),
         NEW o \in 0..Len(c), NEW b \in 0..o
  PROVE  /\ Boundary(c, o) => Boundary(d, o)
         /\ \A toks : InOrder(toks, c, b, o) => InOrder(toks, d, b, o)
<1>1. (\A i \in 1..Len(c) : d[i] = c[i]) /\ b \in Nat
  BY DEF Grown
<1>2. Boundary(c, o) => Boundary(d, o)
  <2>1. o # 0 => o \in 1..Len(c)
    OBVIOUS
  <2> QED BY <1>1, <2>1 DEF Boundary
<1>3. SubSeq(d, b + 1, o) = SubSeq(c, b + 1, o)
  BY <1>1 DEF Grown
<1> QED BY <1>2, <1>3 DEF InOrder

-----------------------------------------------------------------------------
(* The reader keeps to the lines. *)

\* Where the reader is while it has a file.
LEMMA Reading ==
  ASSUME Types, fd # None
  PROVE  /\ content[fd] \in Seq(Byte) /\ Len(content[fd]) \in Nat /\ fd \in Files
         /\ offset \in Nat /\ base \in 0..offset /\ NL \in Byte /\ written \in Nat
         /\ pass \in Seq(Seq(Byte)) /\ token \in Seq(Byte) /\ PassTokens \in Seq(Seq(Byte))
<1>1. fd \in Files /\ written \in Nat
  BY BoundsAre DEF Types, Files
<1>2. content[fd] \in Seq(Byte) /\ NL \in Byte
  BY <1>1 DEF Types, Byte, NL
<1>3. PassTokens \in Seq(Seq(Byte))
  <2> DEFINE Q == Seq(Byte)
  <2>1. pass \in Seq(Q) /\ token \in Q
    BY DEF Types
  <2> HIDE DEF Q
  <2>2. PassTokens \in Seq(Q)
    BY <2>1 DEF PassTokens
  <2> QED BY <2>2 DEF Q
<1> QED BY <1>1, <1>2, <1>3 DEF Types

\* An empty file is tidy.
LEMMA EmptyTidy == Tidy(huge, <<>>)
<1>1. Len(<<>>) = 0 /\ \A i \in 1..0 : FALSE
  OBVIOUS
<1>2. ASSUME NEW p \in Nat, NEW k \in Lines, At(huge, <<>>, p, k) PROVE FALSE
  <2>1. Size(huge, k) \in 1..3 /\ p + Size(huge, k) < 0
    BY <1>1, <1>2, SizeIs DEF At
  <2> QED BY <2>1
<1>3. 0..0 \subseteq Nat
  OBVIOUS
<1> QED BY <1>1, <1>2, <1>3 DEF Tidy, Boundary

\* At the start.
LEMMA InStepStarts == Init => InStep
<1> SUFFICES ASSUME Init, tidy PROVE InStep
  BY DEF InStep
<1>1. /\ part = None /\ fd = None /\ pc = "open" /\ written \in 0..1
      /\ content = [i \in Files |-> IF i = 1 /\ written = 1 THEN Whole(1) ELSE <<>>]
  BY DEF Init
<1>2. Tidy(huge, Whole(1))
  <2>1. PICK w \in Nat : w = 0 /\ w + 1 = 1
    <3>1. 0 + 1 = 1
      OBVIOUS
    <3> QED BY <3>1
  <2>2. w + 1 \in Lines /\ <<>> \in Seq(0..w)
    BY <2>1, BoundsAre DEF Lines
  <2>3. Tidy(huge, <<>> \o Whole(w + 1))
    BY <2>2, EmptyTidy, TidyStays
  <2>4. Whole(1) \in Seq({1, NL})
    BY WholeIs
  <2>5. <<>> \o Whole(1) = Whole(1)
    BY <2>4
  <2> QED BY <2>1, <2>3, <2>5
<1>3. \A i \in Files : Tidy(huge, content[i])
  BY <1>1, <1>2, EmptyTidy
<1> QED BY <1>1, <1>3 DEF InStep

\* In step, whatever happens to a file that only grows.
LEMMA GrowthKeepsStep ==
  ASSUME Types, InStep, tidy, content' \in [Files -> Seq(Byte')], Byte \subseteq Byte',
         \A i \in Files : Tidy(huge, content'[i]) /\ Grown(content[i], content'[i]),
         UNCHANGED <<modeVars, part, pc, readVars>>
  PROVE  InStep'
<1>1. /\ part' = None /\ fd' = fd /\ offset' = offset /\ base' = base /\ buf' = buf /\ eof' = eof
      /\ pc' = pc /\ PassTokens' = PassTokens /\ huge' = huge /\ tidy' = tidy
  BY DEF InStep, readVars, PassTokens, modeVars
<1>2. ASSUME fd # None
      PROVE  /\ offset <= Len(content'[fd]) /\ Boundary(content'[fd], offset)
             /\ InOrder(PassTokens, content'[fd], base, offset)
             /\ pc \in {"scan", "send"} => Ahead'
  <2> DEFINE c == content[fd]
             d == content'[fd]
  <2>1. /\ c \in Seq(Byte) /\ fd \in Files /\ offset \in Nat /\ base \in 0..offset /\ Len(c) \in Nat
        /\ buf \in Seq(Byte)
    BY <1>2, Reading DEF Types
  <2>2. c \in Seq(Byte') /\ d \in Seq(Byte') /\ Grown(c, d) /\ Len(d) \in Nat
    <3>1. c \in Seq(Byte')
      BY <2>1, Wider
    <3> QED BY <2>1, <3>1
  <2>3. offset \in 0..Len(c) /\ Boundary(c, offset) /\ InOrder(PassTokens, c, base, offset)
        /\ (pc \in {"scan", "send"} => Ahead)
    BY <1>2, <2>1 DEF InStep
  <2>4. Boundary(d, offset) /\ InOrder(PassTokens, d, base, offset)
    <3> HIDE DEF c, d
    <3> QED BY <2>1, <2>2, <2>3, GrownKeeps
  <2>5. Len(c) <= Len(d) /\ \A i \in 1..Len(c) : d[i] = c[i]
    BY <2>2 DEF Grown
  <2>6. ASSUME Ahead PROVE Ahead'
    <3>0. Len(buf) \in Nat
      BY <2>1
    <3>1. /\ offset + Len(buf) <= Len(c) /\ (\A i \in 1..Len(buf) : buf[i] = c[offset + i])
          /\ (eof => Boundary(buf, Len(buf)))
      BY <2>6, Zenon DEF Ahead
    <3> HIDE DEF c, d
    <3>2. \A i \in 1..Len(buf) : offset + i \in 1..Len(c)
      <4>1. offset + Len(buf) <= Len(c) /\ offset \in Nat /\ Len(c) \in Nat
        BY <2>1, <3>1
      <4> QED BY <3>0, <4>1
    <3>3. \A i \in 1..Len(buf) : buf[i] = d[offset + i]
      BY <2>5, <3>1, <3>2
    <3>4. offset + Len(buf) <= Len(d)
      BY <2>1, <2>2, <2>5, <3>1
    <3> QED BY <1>1, <3>1, <3>3, <3>4 DEF Ahead, d
  <2>7. offset <= Len(d)
    BY <2>1, <2>2, <2>3, <2>5
  <2> QED BY <2>3, <2>4, <2>6, <2>7
<1>3. pc \in {"scan", "send"} => fd # None
  BY DEF Types
<1>4. \A i \in Files : Tidy(huge, content'[i])
  OBVIOUS
<1> QED BY <1>1, <1>2, <1>3, <1>4 DEF InStep

\* What the writers of a tidy behaviour do to the files.
LEMMA WritersGrow ==
  ASSUME Types, InStep, tidy, Types',
         WriteLine \/ WritePart \/ FinishPart \/ RenameAway \/ CreateNew \/ Truncate
  PROVE  /\ \A i \in Files : Tidy(huge, content'[i]) /\ Grown(content[i], content'[i])
         /\ content' \in [Files -> Seq(Byte')] /\ Byte \subseteq Byte'
         /\ UNCHANGED <<modeVars, part, pc, readVars, ctx>>
         /\ \/ UNCHANGED <<content, written>>
            \/ /\ written' = written + 1 /\ written' \in Lines
               /\ content' = [content EXCEPT ![created] = content[created] \o Whole(written + 1)]
<1>1. part = None /\ written \in Nat /\ written' \in Nat /\ \A i \in Files : content[i] \in Seq(Byte) /\ Tidy(huge, content[i])
  BY BoundsAre DEF InStep, Types
<1>2. content' \in [Files -> Seq(Byte')]
  BY DEF Types
<1>3. \A i \in Files : Grown(content[i], content[i])
  BY DEF Grown
<1>4. CASE WriteLine
  <2>1. /\ written' = written + 1 /\ written' \in Lines
        /\ content' = [content EXCEPT ![created] = content[created] \o Whole(written + 1)]
        /\ UNCHANGED <<modeVars, part, pc, readVars, ctx>>
    BY <1>1, <1>4, BoundsAre DEF WriteLine, Write, Lines, Types
  <2>2. Byte \subseteq Byte'
    BY <1>1, <2>1 DEF Byte
  <2>3. Whole(written + 1) \in Seq(Byte')
    <3>1. Whole(written + 1) \in Seq({written + 1, NL})
      BY <1>1, WholeIs
    <3>2. {written + 1, NL} \subseteq Byte'
      BY <1>1, <2>1 DEF Byte, NL
    <3> QED BY <3>1, <3>2, Wider
  <2>4. created \in Files
    BY DEF Types
  <2>5. ASSUME NEW i \in Files PROVE Tidy(huge, content'[i]) /\ Grown(content[i], content'[i])
    <3>1. CASE i = created
      <4> DEFINE c == content[i]
                 t == Whole(written + 1)
      <4>1. content'[i] = c \o t
        BY <2>1, <2>4, <3>1 DEF Types
      <4>2. c \in Seq(0..written) /\ Tidy(huge, c) /\ written + 1 \in Lines
        BY <1>1, <2>1 DEF Byte
      <4>3. c \in Seq(Byte') /\ t \in Seq(Byte')
        BY <1>1, <2>2, <2>3, Wider
      <4> HIDE DEF c
      <4>4. Tidy(huge, c \o t)
        BY <1>1, <4>2, TidyStays
      <4> HIDE DEF t
      <4>5. Grown(c, c \o t)
        BY <4>3, AppendGrows
      <4> QED BY <4>1, <4>4, <4>5 DEF c
    <3>2. CASE i # created
      <4>1. content'[i] = content[i]
        BY <2>1, <3>2 DEF Types
      <4> QED BY <1>1, <1>3, <4>1
    <3> QED BY <3>1, <3>2
  <2> QED BY <1>2, <2>1, <2>2, <2>5
<1>5. ~WritePart /\ ~FinishPart /\ ~Truncate
  BY <1>1 DEF WritePart, FinishPart, Truncate
<1>6. CASE RenameAway \/ CreateNew
  <2>1. UNCHANGED <<content, written, modeVars, part, pc, readVars, ctx>>
    BY <1>6 DEF RenameAway, CreateNew
  <2>2. Byte' = Byte
    BY <2>1 DEF Byte
  <2> QED BY <1>1, <1>2, <1>3, <2>1, <2>2
<1> QED BY <1>4, <1>5, <1>6

\* The step of the reader that leaves its place, and what it has sent, alone.
LEMMA PlaceKeepsStep ==
  ASSUME Types, InStep, tidy,
         UNCHANGED <<modeVars, content, part, fd, offset, base, PassTokens>>,
         pc' \in {"scan", "send"} => Ahead'
  PROVE  InStep'
BY DEF InStep, modeVars

\* The reader starts a pass at a boundary of a file.
LEMMA StartKeepsStep ==
  ASSUME Types, InStep, tidy, UNCHANGED <<modeVars, content, part>>,
         fd' \in Files, offset' \in 0..Len(content[fd']), Boundary(content[fd'], offset'),
         base' = offset', pass' = <<>>, pc' \notin {"scan", "send"}
  PROVE  InStep'
<1>1. content[fd'] \in Seq(Byte)
  BY DEF Types
<1>2. PassTokens' = <<>>
  BY DEF PassTokens
<1>3. InOrder(<<>>, content[fd'], offset', offset')
  BY <1>1, InOrderEmpty
<1>4. content' = content /\ huge' = huge /\ tidy' = tidy /\ part' = part
  BY DEF modeVars
<1>5. offset' <= Len(content[fd'])
  BY <1>1
<1> QED BY <1>2, <1>3, <1>4, <1>5 DEF InStep

\* Reading on: what was read ahead follows offset still.
LEMMA FillAhead == ASSUME Types, InStep, tidy, Fill, UNCHANGED content PROVE Ahead'
<1> DEFINE c == content[fd]
           l == Len(buf)
           pos == offset + l
           e == Len(c)
           more == SubSeq(c, pos + 1, e)
<1>1. /\ pc = "scan" /\ buf' = buf \o more /\ eof' = (e <= pos) /\ UNCHANGED <<fd, offset>>
  BY DEF Fill
<1>2. fd # None /\ fd \in Files /\ c \in Seq(Byte) /\ buf \in Seq(Byte) /\ offset \in Nat
  <2>1. fd # None
    BY <1>1 DEF Types
  <2> QED BY <2>1, Reading DEF Types
<1>3. Ahead /\ Boundary(c, e)
  BY <1>1, <1>2 DEF InStep, Tidy
<1>4. pos <= e /\ (\A i \in 1..l : buf[i] = c[offset + i]) /\ l \in Nat /\ e \in Nat /\ pos \in Nat
  BY <1>2, <1>3 DEF Ahead
<1>5. more \in Seq(Byte) /\ Len(more) = e - pos /\ \A i \in 1..(e - pos) : more[i] = c[pos + i]
  <2> HIDE DEF c, pos, e
  <2>1. e \in 0..Len(c)
    BY <1>4 DEF e
  <2>2. /\ more \in Seq(Byte) /\ Len(more) = (IF pos <= e THEN e - pos ELSE 0)
        /\ \A i \in 1..(e - pos) : more[i] = c[pos + i]
    BY <1>2, <1>4, <2>1, CutIs
  <2> QED BY <1>4, <2>2
<1> HIDE DEF more
<1>6. /\ Len(buf') = l + (e - pos)
      /\ \A i \in 1..l : buf'[i] = buf[i]
      /\ \A i \in 1..(e - pos) : buf'[l + i] = more[i]
  <2> HIDE DEF c, e, pos
  <2>1. buf \in Seq(Byte) /\ more \in Seq(Byte) /\ buf' = buf \o more
    BY <1>1, <1>2, <1>5
  <2>2. Len(buf') = Len(buf) + Len(more)
    BY <2>1
  <2>3. \A i \in 1..Len(buf) : buf'[i] = buf[i]
    BY <2>1
  <2>4. \A i \in 1..Len(more) : buf'[Len(buf) + i] = more[i]
    BY <2>1
  <2>5. Len(more) = e - pos
    BY <1>5
  <2> QED BY <2>2, <2>3, <2>4, <2>5 DEF l
<1>7. l + (e - pos) = e - offset /\ offset + (e - offset) = e
  <2> HIDE DEF l, e
  <2> QED BY <1>2, <1>4
<1>8. ASSUME NEW i \in 1..(e - offset) PROVE buf'[i] = c[offset + i]
  <2> HIDE DEF l, e, c
  <2>1. CASE i \in 1..l
    BY <1>4, <1>6, <2>1
  <2>2. CASE i \notin 1..l
    <3>1. PICK j \in 1..(e - pos) : i = l + j /\ offset + i = pos + j
      <4>1. i - l \in 1..(e - pos) /\ i = l + (i - l) /\ offset + i = pos + (i - l)
        BY <1>2, <1>4, <2>2
      <4> QED BY <4>1
    <3> HIDE DEF pos
    <3> QED BY <1>5, <1>6, <3>1
  <2> QED BY <2>1, <2>2
<1> HIDE DEF c, l, pos, e
<1>9. eof' => Boundary(buf', e - offset)
  <2> SUFFICES ASSUME eof', e - offset # 0 PROVE buf'[e - offset] = NL
    BY DEF Boundary
  <2>1. e - offset \in 1..(e - offset) /\ e # 0
    BY <1>2, <1>4 DEF pos
  <2>2. c[e] = NL
    BY <1>3, <2>1 DEF Boundary
  <2> QED BY <1>7, <1>8, <2>1, <2>2
<1>10. Len(buf') = e - offset
  BY <1>6, <1>7
<1>11. content' = content /\ fd' = fd /\ offset' = offset
  BY <1>1
<1>12. offset' + Len(buf') <= Len(content'[fd'])
  BY <1>4, <1>7, <1>10, <1>11 DEF c, e
<1>13. \A i \in 1..Len(buf') : buf'[i] = content'[fd'][offset' + i]
  BY <1>8, <1>10, <1>11 DEF c
<1>14. eof' => Boundary(buf', Len(buf'))
  BY <1>9, <1>10
<1> QED BY <1>12, <1>13, <1>14 DEF Ahead

\* Before the end of a tidy file there is always a NL: a token is a line.
LEMMA TokenIsLine ==
  ASSUME Types, InStep, tidy, Scan
  PROVE  /\ HasLine /\ TokenLen \in Nat /\ TokenLen + 1 \in 1..Len(buf) /\ TokenLen < BufMax
         /\ buf[TokenLen + 1] = NL /\ \A i \in 1..TokenLen : buf[i] # NL
<1>1. buf \in Seq(Byte) /\ Ahead
  BY DEF Types, InStep, Scan
<1>2. HasLine
  <2> SUFFICES ASSUME ~HasLine PROVE FALSE
    OBVIOUS
  <2>1. eof /\ buf # <<>> /\ ~TooLong
    BY DEF Scan
  <2>2. Len(buf) \in Nat /\ Len(buf) # 0 /\ Len(buf) < BufMax
    BY <1>1, <2>1 DEF TooLong, BufMax
  <2>3. buf[Len(buf)] = NL
    BY <1>1, <2>1, <2>2 DEF Ahead, Boundary
  <2>4. \A i \in 1..Len(buf) : i <= BufMax => buf[i] # NL
    BY <1>1, TokenIs
  <2> QED BY <2>2, <2>3, <2>4 DEF BufMax
<1> QED BY <1>1, <1>2, TokenIs

\* A line is cut off and offset goes on behind it.
LEMMA ScanKeepsStep ==
  ASSUME Types, InStep, tidy, Scan, UNCHANGED <<modeVars, content, part>>
  PROVE  InStep'
<1> DEFINE c == content[fd]
           n == TokenLen
           l == Len(buf)
           e == offset + n + 1
<1>1. /\ pc = "scan" /\ pc' = "send" /\ token' = SubSeq(buf, 1, n) /\ offset' = e
      /\ buf' = SubSeq(buf, n + 2, l)
      /\ UNCHANGED <<fd, eof, pass, base>>
  <2>1. n \in Nat /\ offset \in Nat
    BY TokenIsLine DEF Types
  <2> QED BY <2>1 DEF Scan, Consumed
<1>2. fd # None
  BY <1>1 DEF Types
<1>3. /\ fd \in Files /\ c \in Seq(Byte) /\ buf \in Seq(Byte) /\ offset \in Nat /\ base \in 0..offset
      /\ NL \in Byte /\ pass \in Seq(Seq(Byte)) /\ l \in Nat /\ Len(c) \in Nat
  BY <1>2, Reading DEF Types
<1>4. Ahead /\ offset <= Len(c) /\ InOrder(PassTokens, c, base, offset)
  BY <1>1, <1>2 DEF InStep
<1>5. HasLine /\ n \in Nat /\ n + 1 \in 1..l /\ buf[n + 1] = NL
  BY TokenIsLine
<1>6. /\ offset + l <= Len(c) /\ (\A i \in 1..l : buf[i] = c[offset + i])
      /\ (eof => Boundary(buf, l))
  BY <1>4 DEF Ahead
<1>7. /\ token' \in Seq(Byte) /\ Len(token') = n /\ (\A i \in 1..n : token'[i] = buf[i])
      /\ Len(buf') = l - n - 1 /\ (\A i \in 1..(l - n - 1) : buf'[i] = buf[n + 1 + i])
  <2>1. /\ SubSeq(buf, 1, n) \in Seq(Byte) /\ Len(SubSeq(buf, 1, n)) = n
        /\ \A i \in 1..n : SubSeq(buf, 1, n)[i] = buf[i]
        /\ Len(SubSeq(buf, n + 2, l)) = (IF n < l THEN l - n - 1 ELSE 0)
        /\ \A i \in 1..(l - n - 1) : SubSeq(buf, n + 2, l)[i] = buf[n + 1 + i]
    BY <1>3, <1>5, ScanTypes
  <2>2. n < l
    BY <1>3, <1>5
  <2> QED BY <1>1, <2>1, <2>2
<1> HIDE DEF c, n, l
<1>8. c[e] = NL /\ e \in 0..Len(c) /\ e # 0
  <2>1. offset + (n + 1) = e
    BY <1>3, <1>5
  <2> QED BY <1>3, <1>5, <1>6, <2>1
<1>9. \A i \in 1..n : token'[i] = c[offset + i]
  <2>1. \A i \in 1..n : i \in 1..l
    BY <1>3, <1>5
  <2> QED BY <1>6, <1>7, <2>1
<1> HIDE DEF e
<1>10. InOrder(Append(pass, token'), c, base, e)
  <2>1. PassTokens = pass
    BY <1>1 DEF PassTokens
  <2>2. InOrder(pass, c, base, offset)
    BY <1>4, <2>1
  <2>3. e = offset + Len(token') + 1 /\ offset \in 0..Len(c) /\ \A i \in 1..Len(token') : token'[i] = c[offset + i]
    BY <1>3, <1>4, <1>7, <1>9 DEF e
  <2>4. InOrder(pass, c, base, offset) => InOrder(Append(pass, token'), c, base, e)
    BY <1>3, <1>7, <1>8, <2>3, InOrderMore
  <2> QED BY <2>2, <2>4
<1>11. PassTokens' = Append(pass, token')
  BY <1>1 DEF PassTokens
<1>12. Ahead'
  <2>1. offset' + Len(buf') <= Len(c)
    <3>1. offset' = e /\ Len(buf') = l - n - 1
      BY <1>1, <1>7
    <3>2. offset \in Nat /\ n \in Nat /\ l \in Nat /\ Len(c) \in Nat /\ offset + l <= Len(c)
      BY <1>3, <1>5, <1>6
    <3>3. e + (l - n - 1) = offset + l
      BY <3>2 DEF e
    <3> QED BY <3>1, <3>2, <3>3
  <2>2. ASSUME NEW i \in 1..Len(buf') PROVE buf'[i] = c[offset' + i]
    <3>1. Len(buf') = l - n - 1
      BY <1>7
    <3>2. offset \in Nat /\ n \in Nat /\ l \in Nat /\ n + 1 <= l
      BY <1>3, <1>5
    <3>3. i \in 1..(l - n - 1)
      BY <3>1
    <3>4. n + 1 + i \in 1..l
      BY <3>2, <3>3
    <3>5. offset + (n + 1 + i) = e + i
      BY <3>2, <3>3 DEF e
    <3>6. buf'[i] = buf[n + 1 + i]
      BY <1>7, <3>3
    <3>7. buf[n + 1 + i] = c[offset + (n + 1 + i)]
      BY <1>6, <3>4
    <3>8. offset' = e
      BY <1>1
    <3> QED BY <3>5, <3>6, <3>7, <3>8
  <2>3. eof' => Boundary(buf', Len(buf'))
    <3> SUFFICES ASSUME eof', Len(buf') # 0 PROVE buf'[Len(buf')] = NL
      BY DEF Boundary
    <3>1. l - n - 1 \in 1..(l - n - 1) /\ n + 1 + (l - n - 1) = l /\ l # 0
      BY <1>3, <1>5, <1>7
    <3>2. buf[l] = NL
      BY <1>1, <1>6, <3>1 DEF Boundary
    <3> QED BY <1>7, <3>1, <3>2
  <2>4. content'[fd'] = c
    BY <1>1 DEF c
  <2> QED BY <2>1, <2>2, <2>3, <2>4 DEF Ahead
<1>13. offset' <= Len(c) /\ Boundary(c, offset')
  BY <1>1, <1>3, <1>8 DEF Boundary
<1>14. content' = content /\ huge' = huge /\ part' = part /\ fd' = fd /\ base' = base /\ content'[fd'] = c
  BY <1>1 DEF modeVars, c
<1> QED BY <1>1, <1>10, <1>11, <1>12, <1>13, <1>14 DEF InStep

\* The reader keeps in step.
LEMMA ReaderKeepsStep == ASSUME Types, InStep, RunFile PROVE InStep'
<1>0. /\ UNCHANGED <<modeVars, content, part, path, created, written>>
      /\ Open \/ Baseline \/ Poll \/ Fill \/ Scan \/ Send \/ Drained \/ Stat \/ Reopen \/ Sleep
  BY DEF RunFile, fileVars
<1> SUFFICES ASSUME tidy PROVE InStep'
  BY <1>0 DEF InStep, modeVars
<1>1. \A i \in Files : content[i] \in Seq(Byte) /\ Len(content[i]) \in Nat /\ Boundary(content[i], Len(content[i]))
                       /\ Boundary(content[i], 0)
  BY DEF Types, InStep, Tidy, Boundary
<1>2. path # None => path \in Files
  BY BoundsAre DEF Types, Files
<1>3. CASE Open
  <2>1. CASE path = None
    BY <1>0, <1>3, <2>1, PlaceKeepsStep DEF Open, readVars, PassTokens
  <2>2. CASE path # None
    <3>1. /\ fd' = path /\ Rewind(StartPos(content[path])) /\ pc' = "baseline"
      BY <1>3, <2>2 DEF Open
    <3>2. offset' \in 0..Len(content[path]) /\ Boundary(content[path], offset') /\ base' = offset' /\ pass' = <<>>
      BY <1>1, <1>2, <2>2, <3>1 DEF Rewind, StartPos
    <3> QED BY <1>0, <1>2, <2>2, <3>1, <3>2, StartKeepsStep
  <2> QED BY <2>1, <2>2
<1>4. CASE Baseline \/ Drained \/ Sleep
  BY <1>0, <1>4, PlaceKeepsStep DEF Baseline, Drained, Sleep, readVars, PassTokens
<1>5. CASE Poll
  <2>1. UNCHANGED <<fd, offset, base, PassTokens>> /\ buf' = <<>> /\ eof' = FALSE /\ pc' \in {"scan", "done"}
        /\ (pc' = "scan" => fd # None)
    BY <1>5 DEF Poll, PassTokens
  <2>2. ASSUME fd # None PROVE Ahead'
    <3>1. fd \in Files /\ offset <= Len(content[fd]) /\ offset \in Nat
      BY <2>2, Reading DEF InStep
    <3>2. Len(buf') = 0
      BY <2>1
    <3> QED BY <1>0, <1>1, <2>1, <3>1, <3>2 DEF Ahead
  <2> QED BY <1>0, <2>1, <2>2, PlaceKeepsStep
<1>6. CASE Fill
  <2>1. Ahead'
    BY <1>0, <1>6, FillAhead
  <2> QED BY <1>0, <1>6, <2>1, PlaceKeepsStep DEF Fill, PassTokens
<1>7. CASE Scan
  BY <1>0, <1>7, ScanKeepsStep
<1>8. CASE Send
  <2>1. PassTokens' = PassTokens /\ UNCHANGED <<fd, offset, base, buf, eof>> /\ pc = "send"
    BY <1>8 DEF Send, PassTokens
  <2>2. Ahead'
    BY <1>0, <2>1 DEF InStep, Ahead
  <2> QED BY <1>0, <2>1, <2>2, PlaceKeepsStep
<1>9. CASE Stat
  <2>1. CASE UNCHANGED readVars /\ pc' \in {"sleep", "reopen"}
    BY <1>0, <1>9, <2>1, PlaceKeepsStep DEF Stat, readVars, PassTokens
  <2>2. CASE Rewind(0) /\ pc' = "poll" /\ fd' = fd
    <3>1. fd \in Files
      BY <1>9, Reading DEF Types, Stat
    <3>2. offset' = 0 /\ base' = 0 /\ pass' = <<>> /\ 0 \in 0..Len(content[fd])
      BY <1>1, <2>2, <3>1 DEF Rewind
    <3> QED BY <1>0, <1>1, <2>2, <3>1, <3>2, StartKeepsStep
  <2> QED BY <1>9, <2>1, <2>2 DEF Stat
<1>10. CASE Reopen
  <2>1. CASE path = None
    BY <1>0, <1>10, <2>1 DEF Reopen, InStep, modeVars
  <2>2. CASE path # None
    <3>1. fd' = path /\ Rewind(0) /\ pc' = "poll"
      BY <1>10, <2>2 DEF Reopen
    <3>2. offset' = 0 /\ base' = 0 /\ pass' = <<>> /\ 0 \in 0..Len(content[path])
      BY <1>1, <1>2, <2>2, <3>1 DEF Rewind
    <3> QED BY <1>0, <1>1, <1>2, <2>2, <3>1, <3>2, StartKeepsStep
  <2> QED BY <2>1, <2>2
<1> QED BY <1>0, <1>3, <1>4, <1>5, <1>6, <1>7, <1>8, <1>9, <1>10

\* Every step keeps the reader in step.
LEMMA StepStays == ASSUME Types, InStep, [Next]_vars, Types' PROVE InStep'
<1>1. CASE WriteLine \/ WritePart \/ FinishPart \/ RenameAway \/ CreateNew \/ Truncate
  <2>1. tidy' = tidy
    BY <1>1 DEF WriteLine, WritePart, FinishPart, RenameAway, CreateNew, Truncate, modeVars
  <2>2. CASE tidy
    <3>1. /\ \A i \in Files : Tidy(huge, content'[i]) /\ Grown(content[i], content'[i])
          /\ content' \in [Files -> Seq(Byte')] /\ Byte \subseteq Byte'
          /\ UNCHANGED <<modeVars, part, pc, readVars, ctx>>
      BY <1>1, <2>2, WritersGrow
    <3> QED BY <2>2, <3>1, GrowthKeepsStep
  <2> QED BY <2>1, <2>2 DEF InStep
<1>2. CASE Cancel \/ Finished \/ UNCHANGED vars
  <2>1. UNCHANGED <<modeVars, fileVars, pc, readVars>>
    BY <1>2 DEF Cancel, Finished, vars
  <2> QED BY <2>1 DEF InStep, Ahead, PassTokens, modeVars, fileVars, readVars
<1> QED BY <1>1, <1>2, ReaderKeepsStep DEF Next

\* A reader of a log that is written in whole lines keeps to the lines.
THEOREM StepInvariance == Spec => [](Types /\ InStep)
<1>1. Init => Types /\ InStep
  BY TypesStart, InStepStarts
<1>2. (Types /\ InStep) /\ [Next]_vars => (Types /\ InStep)'
  <2> SUFFICES ASSUME Types, InStep, [Next]_vars PROVE Types' /\ InStep'
    OBVIOUS
  <2>1. Types'
    BY TypesStay
  <2> QED BY <2>1, StepStays
<1> QED BY <1>1, <1>2, PTL DEF Spec

\* What a pass has sent is the lines between its start and offset, in order.
THEOREM LinesInOrder == Spec => []PassInOrder
<1>1. InStep => PassInOrder
  BY DEF InStep, PassInOrder, InOrder
<1> QED BY <1>1, StepInvariance, PTL

-----------------------------------------------------------------------------
(* Reading a file once. *)

\* What d is, the file c or c with a line appended that comes after line w.
Later(h, c, d, w) ==
  /\ Len(c) <= Len(d)
  /\ \A p \in Nat, k \in Lines : At(h, c, p, k) => At(h, d, p, k)
  /\ \A p \in Nat, k \in Lines : At(h, d, p, k) => At(h, c, p, k) \/ (p = Len(c) /\ k > w)

\* The writers of a tidy behaviour add only later lines.
LEMMA WritersAdd ==
  ASSUME Types, InStep, tidy, Types',
         WriteLine \/ WritePart \/ FinishPart \/ RenameAway \/ CreateNew \/ Truncate,
         NEW i \in Files
  PROVE  Later(huge, content[i], content'[i], written)
<1>1. /\ \/ UNCHANGED <<content, written>>
         \/ /\ written' = written + 1 /\ written' \in Lines
            /\ content' = [content EXCEPT ![created] = content[created] \o Whole(written + 1)]
  BY WritersGrow
<1>2. /\ written \in Nat /\ content \in [Files -> Seq(Byte)] /\ created \in Files
      /\ content[i] \in Seq(Byte) /\ Boundary(content[i], Len(content[i]))
  BY BoundsAre DEF InStep, Types, Tidy
<1>3. Len(content[i]) \in Nat
  BY <1>2
<1>4. CASE content'[i] = content[i]
  BY <1>3, <1>4 DEF Later
<1>5. CASE content'[i] # content[i]
  <2> DEFINE c == content[i]
             d == content'[i]
             k == written + 1
  <2>1. d = c \o Whole(k) /\ k \in Lines
    BY <1>1, <1>2, <1>5
  <2>2. c \in Seq(Nat) /\ Boundary(c, Len(c))
    <3>1. Byte \subseteq Nat
      BY DEF Byte
    <3> QED BY <1>2, <3>1, Wider
  <2> HIDE DEF c, d
  <2>3. Appended(huge, c, k, d)
    <3> HIDE DEF k
    <3> QED BY <2>1, <2>2, AppendWhole
  <2>4. /\ Len(d) = Len(c) + Size(huge, k) + 1 /\ Len(c) \in Nat /\ Size(huge, k) \in 1..3
        /\ \A p \in Nat, j \in Lines : At(huge, c, p, j) => At(huge, d, p, j)
        /\ \A p \in Nat, j \in Lines : At(huge, d, p, j) => At(huge, c, p, j) \/ (p = Len(c) /\ j = k)
    BY <2>3, Zenon DEF Appended
  <2>5. Len(c) <= Len(d) /\ \A j : j = k => j > written
    <3> HIDE DEF k
    <3>1. k > written
      BY <1>2 DEF k
    <3> QED BY <2>4, <3>1
  <2> HIDE DEF k
  <2>6. Later(huge, c, d, written)
    BY <2>4, <2>5 DEF Later
  <2> QED BY <2>6 DEF c, d
<1> QED BY <1>4, <1>5

\* In a file of whole lines every line it holds is somewhere.
LEMMA LineSomewhere ==
  ASSUME NEW S, NEW c \in Seq(S), Tidy(huge, c), NEW k \in LinesOf(c)
  PROVE  \E p \in 0..Len(c) : At(huge, c, p, k)
<1> DEFINE R == {c[i] : i \in 1..Len(c)}
<1>1. Len(c) \in Nat /\ c \in Seq(R)
  OBVIOUS
<1>2. k \in Lines /\ k \in R
  BY <1>1, LinesAre
<1>3. PICK i \in 1..Len(c) : c[i] = k
  BY <1>2
<1>4. \E p \in 0..(i - 1) : At(huge, c, p, k)
  BY <1>2, <1>3, LineIs DEF Tidy
<1>5. 0..(i - 1) \subseteq 0..Len(c)
  BY <1>1
<1> QED BY <1>4, <1>5

\* A token that repeats a line's number as often as the line does is the line.
LEMMA RepeatsIs ==
  ASSUME NEW S, NEW t \in Seq(S), NEW k \in Lines, Repeats(t, huge, k)
  PROVE  t = Body(k)
<1> DEFINE b == Body(k)
           T == S \cup {k}
<1>1. Len(b) = Size(huge, k) /\ b \in Seq({k}) /\ \A i \in 1..Size(huge, k) : b[i] = k
  BY LineIs, BodyIs
<1>2. b \in Seq(T) /\ t \in Seq(T)
  BY <1>1, Wider
<1>3. Len(t) = Size(huge, k) /\ \A i \in 1..Len(t) : t[i] = k
  BY DEF Repeats
<1> HIDE DEF b, T
<1>4. Len(t) = Len(b) /\ \A i \in 1..Len(t) : t[i] = b[i]
  BY <1>1, <1>3
<1>5. t = b
  BY <1>2, <1>4, SameList
<1> QED BY <1>5 DEF b

\* Lines appended later do not disturb what was read.
LEMMA WritersKeepReading ==
  ASSUME Types, InStep, ReadingOnce, tidy, ~follow,
         fd # None => Later(huge, content[fd], content'[fd], written),
         UNCHANGED <<modeVars, pc, readVars, ctx>>
  PROVE  ReadingOnce'
<1>1. /\ fd' = fd /\ offset' = offset /\ buf' = buf /\ eof' = eof /\ token' = token /\ old' = old
      /\ got' = got /\ pc' = pc /\ huge' = huge /\ follow' = follow /\ tidy' = tidy /\ ctx' = ctx
  BY DEF modeVars, readVars
<1>2. pc \notin {"stat", "reopen", "sleep"} /\ EofReadsAll
  BY DEF ReadingOnce
<1>3. EofReadsAll'
  BY <1>1, <1>2 DEF EofReadsAll, Readable
<1>4. ASSUME fd # None PROVE SentSoFar' /\ OldFirst' /\ (OldWithin => OldWithin')
  <2> DEFINE c == content[fd]
             d == content'[fd]
             n == Len(c)
  <2>1. /\ n \in Nat /\ Len(d) \in Nat /\ offset \in Nat /\ offset <= n /\ written \in Nat
        /\ old \subseteq 1..written
    <3>1. content'[fd] = content'[fd] /\ n \in Nat /\ offset \in Nat /\ offset <= n /\ written \in Nat
      BY <1>4, Reading DEF InStep
    <3> QED BY <1>4, <3>1 DEF Types
  <2>2. /\ n <= Len(d)
        /\ \A p \in Nat, k \in Lines : At(huge, c, p, k) => At(huge, d, p, k)
        /\ \A p \in Nat, k \in Lines : At(huge, d, p, k) => At(huge, c, p, k) \/ (p = n /\ k > written)
    BY <1>4 DEF Later
  <2>3. SentSoFar /\ OldFirst
    BY <1>4 DEF ReadingOnce
  <2>4. content'[fd'] = d
    BY <1>1
  <2>5. \A p \in 0..n : p \in 0..Len(d) /\ p \in Nat
    BY <2>1, <2>2
  <2> HIDE DEF c, d, n
  <2>6. SentSoFar'
    <3> SUFFICES ASSUME NEW p \in 0..(offset - 1), NEW k \in Lines, At(huge, d, p, k) PROVE Delivered(k)'
      BY <1>1, <2>4 DEF SentSoFar
    <3>1. p \in Nat /\ p # n
      BY <2>1
    <3>2. At(huge, c, p, k)
      BY <2>2, <3>1
    <3>3. Delivered(k)
      BY <2>3, <3>2 DEF SentSoFar, c
    <3> QED BY <1>1, <3>3 DEF Delivered
  <2>7. ASSUME NEW k \in old PROVE \E p \in 0..Len(d) : At(huge, d, p, k)
    <3>1. PICK p \in 0..n : At(huge, c, p, k)
      BY <2>3 DEF OldFirst, c, n
    <3>2. k \in Lines
      BY <2>1, BoundsAre DEF Types, Lines
    <3> QED BY <2>2, <2>5, <3>1, <3>2
  <2>8. ASSUME NEW p \in 0..Len(d), NEW k \in Lines \ old, At(huge, d, p, k), NEW j \in old PROVE j < k
    <3>1. CASE At(huge, c, p, k)
      <4>1. p \in 0..n
        <5>1. p + Size(huge, k) < n /\ Size(huge, k) \in 1..3
          BY <3>1, SizeIs DEF At, n
        <5> QED BY <2>1, <5>1
      <4> QED BY <2>3, <3>1, <4>1 DEF OldFirst, c, n
    <3>2. CASE k > written
      <4>1. j \in 1..written /\ k \in Nat
        BY <2>1, LineIs
      <4> QED BY <2>1, <3>2, <4>1
    <3> QED BY <2>2, <2>5, <2>8, <3>1, <3>2
  <2>9. OldFirst'
    BY <1>1, <2>4, <2>7, <2>8 DEF OldFirst
  <2>10. ASSUME OldWithin PROVE OldWithin'
    <3> SUFFICES ASSUME NEW k \in old
                 PROVE  \E p \in 0..Len(d) : At(huge, d, p, k) /\ p + Size(huge, k) < offset + Len(buf)
      BY <1>1, <2>4 DEF OldWithin
    <3>1. PICK p \in 0..n : At(huge, c, p, k) /\ p + Size(huge, k) < offset + Len(buf)
      BY <2>10 DEF OldWithin, c, n
    <3>2. k \in Lines
      BY <2>1, BoundsAre DEF Types, Lines
    <3> QED BY <2>2, <2>5, <3>1, <3>2
  <2> QED BY <2>6, <2>9, <2>10
<1>5. pc \in {"scan", "send"} => fd # None
  BY DEF Types
<1> QED BY <1>1, <1>2, <1>3, <1>4, <1>5 DEF ReadingOnce

\* The reader starts at the beginning, and what there is now is the old lines.
LEMMA OpenReads ==
  ASSUME Types, InStep, tidy, ~follow, Open, path # None, UNCHANGED <<modeVars, content>>
  PROVE  SentSoFar' /\ OldFirst'
<1> DEFINE c == content[path]
<1>1. path \in Files /\ c \in Seq(Byte) /\ Tidy(huge, c) /\ part = None
  <2>1. path \in Files
    BY BoundsAre DEF Types, Files
  <2>2. c \in Seq(Byte)
    BY <2>1 DEF Types
  <2>3. Tidy(huge, c) /\ part = None
    BY <2>1 DEF InStep
  <2> QED BY <2>1, <2>2, <2>3
<1>2. fd' = path /\ offset' = 0 /\ old' = LinesOf(c) /\ huge' = huge /\ content'[fd'] = c
  BY <1>1 DEF Open, Rewind, StartPos, modeVars
<1> HIDE DEF c
<1>3. SentSoFar'
  BY <1>2 DEF SentSoFar
<1>4. \A k \in LinesOf(c) : \E p \in 0..Len(c) : At(huge, c, p, k)
  BY <1>1, LineSomewhere
<1>5. \A p \in 0..Len(c), k \in Lines : At(huge, c, p, k) => k \in LinesOf(c)
  <2>1. \A p \in 0..Len(c) : p \in Nat
    BY <1>1
  <2> QED BY <1>1, <2>1, LinesAre
<1>6. OldFirst'
  BY <1>2, <1>4, <1>5 DEF OldFirst
<1> QED BY <1>3, <1>6

\* What Scan does to the reader's place.
LEMMA Scanned ==
  ASSUME Types, InStep, tidy, Scan
  PROVE  /\ fd # None /\ TokenLen \in Nat /\ offset \in Nat
         /\ offset' = offset + TokenLen + 1 /\ Len(token') = TokenLen
         /\ \A i \in 1..TokenLen : token'[i] = content[fd][offset + i] /\ content[fd][offset + i] # NL
         /\ content[fd][offset + TokenLen + 1] = NL
         /\ offset' + Len(buf') = offset + Len(buf)
<1> DEFINE c == content[fd]
           n == TokenLen
           l == Len(buf)
<1>1. /\ pc = "scan" /\ token' = SubSeq(buf, 1, n) /\ offset' = offset + (n + 1)
      /\ buf' = SubSeq(buf, n + 2, l)
  BY DEF Scan, Consumed
<1>2. fd # None /\ buf \in Seq(Byte) /\ offset \in Nat /\ l \in Nat
  BY <1>1 DEF Types
<1>3. \A i \in 1..l : buf[i] = c[offset + i]
  BY <1>1 DEF InStep, Ahead
<1>4. HasLine /\ n \in Nat /\ n + 1 \in 1..l /\ buf[n + 1] = NL /\ \A i \in 1..n : buf[i] # NL
  BY TokenIsLine
<1>5. /\ Len(SubSeq(buf, 1, n)) = n /\ \A i \in 1..n : SubSeq(buf, 1, n)[i] = buf[i]
      /\ Len(SubSeq(buf, n + 2, l)) = (IF n < l THEN l - n - 1 ELSE 0)
  BY <1>2, <1>4, ScanTypes
<1> HIDE DEF c, n, l
<1>6. n < l /\ (\A i \in 1..n : i \in 1..l) /\ offset + n + 1 = offset + (n + 1)
  BY <1>2, <1>4
<1>7. Len(buf') = l - n - 1 /\ offset' + (l - n - 1) = offset + l
  <2>1. Len(buf') = l - n - 1
    BY <1>1, <1>5, <1>6
  <2> QED BY <1>1, <1>2, <1>4, <2>1
<1>8. \A i \in 1..n : token'[i] = c[offset + i] /\ c[offset + i] # NL
  BY <1>1, <1>3, <1>4, <1>5, <1>6
<1>9. c[offset + n + 1] = NL
  BY <1>3, <1>4, <1>6
<1> QED BY <1>1, <1>2, <1>4, <1>5, <1>6, <1>7, <1>8, <1>9 DEF c, n, l

\* A token that was cut off is the one line between offset and the next.
LEMMA ScanReads ==
  ASSUME Types, InStep, ReadingOnce, tidy, ~follow, Scan, UNCHANGED <<modeVars, content>>
  PROVE  SentSoFar' /\ OldFirst' /\ (OldWithin => OldWithin')
<1> DEFINE c == content[fd]
           n == TokenLen
           o == offset
<1>1. /\ pc = "scan" /\ pc' = "send" /\ UNCHANGED <<fd, got, old>> /\ huge' = huge /\ content'[fd'] = c
  BY DEF Scan, modeVars
<1>2. /\ fd # None /\ n \in Nat /\ o \in Nat
      /\ offset' = o + n + 1 /\ Len(token') = n
      /\ \A i \in 1..n : token'[i] = c[o + i] /\ c[o + i] # NL
      /\ c[o + n + 1] = NL
      /\ offset' + Len(buf') = offset + Len(buf)
  BY Scanned
<1>3. SentSoFar /\ OldFirst
  BY <1>2 DEF ReadingOnce
<1> HIDE DEF c, n, o
<1>4. SentSoFar'
  <2> SUFFICES ASSUME NEW p \in 0..(offset' - 1), NEW k \in Lines, At(huge, c, p, k) PROVE Delivered(k)'
    BY <1>1 DEF SentSoFar
  <2>1. CASE p < o
    <3>1. p \in 0..(offset - 1)
      BY <1>2, <2>1 DEF o
    <3>2. Delivered(k)
      BY <1>3, <3>1 DEF SentSoFar, c
    <3> QED BY <1>1, <3>2 DEF Delivered
  <2>2. CASE ~(p < o)
    <3>1. p \in o..(o + n)
      BY <1>2, <2>2
    <3>2. p = o /\ n = Size(huge, k)
      <4>1. \A i \in 1..n : c[o + i] # NL
        BY <1>2
      <4>2. n \in Nat /\ o \in Nat /\ c[o + n + 1] = NL
        BY <1>2
      <4> QED BY <3>1, <4>1, <4>2, OneLine
    <3>3. \A i \in 1..n : c[o + i] = k
      BY <3>2 DEF At
    <3>4. Repeats(token', huge, k)
      BY <1>2, <3>2, <3>3 DEF Repeats
    <3> QED BY <1>1, <3>4 DEF Delivered
  <2> QED BY <2>1, <2>2
<1>5. OldFirst'
  BY <1>1, <1>3 DEF OldFirst, c
<1>6. OldWithin => OldWithin'
  BY <1>1, <1>2 DEF OldWithin, c
<1> QED BY <1>4, <1>5, <1>6

\* At the end of the file everything old has been read from it.
LEMMA FillReads ==
  ASSUME Types, InStep, ReadingOnce, tidy, ~follow, Fill, UNCHANGED <<modeVars, content>>, eof'
  PROVE  OldWithin'
<1> DEFINE c == content[fd]
           more == SubSeq(c, offset + Len(buf) + 1, Len(c))
           l == Len(buf)
<1>1. /\ pc = "scan" /\ buf' = buf \o more /\ Len(c) <= offset + l
      /\ UNCHANGED <<fd, offset, old>> /\ huge' = huge /\ content'[fd'] = c
  BY DEF Fill, modeVars
<1>2. fd # None
  BY <1>1 DEF Types
<1>3. OldFirst /\ c \in Seq(Byte) /\ Len(c) \in Nat /\ offset \in Nat /\ buf \in Seq(Byte) /\ l \in Nat
  BY <1>2, Reading DEF ReadingOnce, Types
<1>4. more \in Seq(Byte)
  <2>1. offset + Len(buf) \in Nat /\ Len(c) \in 0..Len(c)
    BY <1>3
  <2> HIDE DEF c
  <2> QED BY <1>3, <2>1, CutIs
<1> HIDE DEF more
<1>5. Len(buf') = l + Len(more) /\ Len(more) \in Nat
  BY <1>1, <1>3, <1>4
<1> HIDE DEF l, c
<1>6. Len(c) <= offset + Len(buf') /\ Len(buf') \in Nat
  <2>1. \A m \in Nat : Len(c) <= offset + (l + m) /\ l + m \in Nat
    BY <1>1, <1>3
  <2> QED BY <1>5, <2>1
<1>7. ASSUME NEW k \in old
      PROVE  \E p \in 0..Len(c) : At(huge, c, p, k) /\ p + Size(huge, k) < offset + Len(buf')
  <2>1. PICK p \in 0..Len(c) : At(huge, c, p, k)
    BY <1>3 DEF OldFirst, c
  <2>2. p + Size(huge, k) < Len(c) /\ Size(huge, k) \in Nat
    <3>1. k \in Nat
      BY BoundsAre DEF Types
    <3> QED BY <2>1, <3>1, SizeIs DEF At
  <2>3. p + Size(huge, k) < offset + Len(buf')
    BY <1>3, <1>6, <2>2
  <2> QED BY <2>1, <2>3
<1> QED BY <1>1, <1>7 DEF OldWithin

\* The reader stops at the end of the file, or before a line that is too long.
LEMMA DrainedReadAll ==
  ASSUME Types, InStep, ReadingOnce, tidy, ~follow, Drained
  PROVE  Readable(old) \subseteq got
<1> DEFINE c == content[fd]
           o == offset
<1>1. pc = "scan" /\ ((buf = <<>> /\ eof) \/ TooLong)
  BY DEF Drained
<1>2. fd # None
  BY <1>1 DEF Types
<1>3. /\ c \in Seq(Byte) /\ Len(c) \in Nat /\ o \in Nat /\ buf \in Seq(Byte)
      /\ old \subseteq Lines
  BY <1>2, Reading, BoundsAre DEF Types, Lines
<1>4. Ahead /\ Tidy(huge, c) /\ Boundary(c, o)
  <2>1. fd \in Files
    BY <1>2, Reading
  <2> QED BY <1>1, <1>2, <2>1 DEF InStep
<1>5. SentSoFar /\ OldFirst /\ (eof => OldWithin)
  BY <1>1, <1>2 DEF ReadingOnce
<1>6. ASSUME NEW k \in Lines, NEW p \in 0..(o - 1), At(huge, c, p, k) PROVE k \in got
  BY <1>1, <1>5, <1>6 DEF SentSoFar, Delivered
<1> SUFFICES ASSUME NEW k \in old, huge \in old => k < huge PROVE k \in got
  BY DEF Readable
<1>7. k \in Lines /\ Size(huge, k) \in 1..3
  BY <1>3, SizeIs
<1>8. CASE buf = <<>> /\ eof
  <2>1. PICK p \in 0..Len(c) : At(huge, c, p, k) /\ p + Size(huge, k) < o + Len(buf)
    BY <1>5, <1>8 DEF OldWithin
  <2>2. Len(buf) = 0
    BY <1>8
  <2> HIDE DEF o
  <2>3. p \in 0..(o - 1)
    <3>1. p + Size(huge, k) < o + Len(buf)
      BY <2>1
    <3> QED BY <1>3, <1>7, <2>2, <3>1
  <2> QED BY <1>6, <1>7, <2>1, <2>3
<1>9. CASE TooLong
  <2> HIDE DEF c, o
  <2>1. ~HasLine /\ Len(buf) >= 3 /\ Len(buf) \in Nat
    BY <1>3, <1>9 DEF TooLong, BufMax
  <2>2. \A i \in 1..Len(buf) : i <= BufMax => buf[i] # NL
    BY <1>3, <2>1, TokenIs
  <2>3. o + Len(buf) <= Len(c) /\ \A i \in 1..Len(buf) : buf[i] = c[o + i]
    BY <1>4 DEF Ahead, c, o
  <2>4. \A i \in 1..3 : c[o + i] # NL
    <3>1. \A i \in 1..3 : i \in 1..Len(buf)
      BY <2>1
    <3> QED BY <2>2, <2>3, <3>1 DEF BufMax
  <2>5. o < Len(c) /\ c[o + 1] # NL
    <3>1. o + Len(buf) <= Len(c) /\ 1 \in 1..3
      BY <2>3
    <3> QED BY <1>3, <2>1, <2>4, <3>1
  <2> DEFINE j == c[o + 1]
  <2>6. j \in Lines /\ At(huge, c, o, j)
    BY <1>3, <1>4, <2>5, LineAt
  <2> HIDE DEF j
  <2>7. j = huge
    <3>1. Size(huge, j) \in 1..3 /\ (Size(huge, j) = 3 => j = huge) /\ c[o + Size(huge, j) + 1] = NL
      <4>1. j \in Nat
        BY <2>6, LineIs
      <4>2. Size(huge, j) \in 1..3 /\ (Size(huge, j) = 3 => j = huge)
        BY <4>1, BodyIs
      <4> QED BY <2>6, <4>2 DEF At
    <3>2. Size(huge, j) # 3 => Size(huge, j) + 1 \in 1..3 /\ o + (Size(huge, j) + 1) = o + Size(huge, j) + 1
      BY <1>3, <3>1
    <3> QED BY <2>4, <3>1, <3>2
  <2>8. o \in 0..Len(c)
    BY <1>3, <2>5
  <2>9. k < huge
    <3>1. CASE huge \notin old
      BY <1>5, <2>6, <2>7, <2>8, <3>1 DEF OldFirst, c
    <3> QED BY <3>1
  <2>10. PICK p \in 0..Len(c) : At(huge, c, p, k)
    BY <1>5 DEF OldFirst, c
  <2>11. p < o
    BY <1>4, <1>7, <2>6, <2>7, <2>8, <2>9, <2>10 DEF Tidy
  <2>12. p \in 0..(o - 1)
    BY <1>3, <2>11
  <2> QED BY <1>6, <1>7, <2>10, <2>12 DEF c, o
<1> QED BY <1>1, <1>8, <1>9

\* Without follow the reader keeps count of what it has read.
LEMMA ReaderKeepsReading == ASSUME Types, InStep, ReadingOnce, RunFile PROVE ReadingOnce'
<1>0. /\ UNCHANGED <<modeVars, content, path, created, written, ctx>>
      /\ Open \/ Baseline \/ Poll \/ Fill \/ Scan \/ Send \/ Drained \/ Stat \/ Reopen \/ Sleep
  BY DEF RunFile, fileVars
<1>1. huge' = huge /\ follow' = follow /\ tidy' = tidy /\ content' = content /\ ctx' = ctx
  BY <1>0 DEF modeVars
<1> SUFFICES ASSUME tidy, ~follow PROVE ReadingOnce'
  BY <1>1 DEF ReadingOnce
<1>2. pc \notin {"stat", "reopen", "sleep"} /\ (fd # None => SentSoFar /\ OldFirst)
      /\ (pc \in {"scan", "send"} /\ eof => OldWithin) /\ (pc \in {"baseline", "scan", "send"} => fd # None)
  BY DEF ReadingOnce, Types
<1>3. CASE Open
  <2>1. CASE path = None
    <3>1. fd' = None /\ pc' = "done"
      BY <1>3, <2>1 DEF Open, readVars, Types
    <3> QED BY <3>1 DEF ReadingOnce, EofReadsAll
  <2>2. CASE path # None
    <3>1. SentSoFar' /\ OldFirst'
      BY <1>0, <1>3, <2>2, OpenReads
    <3>2. pc' = "baseline"
      BY <1>3, <2>2 DEF Open
    <3> QED BY <3>1, <3>2 DEF ReadingOnce, EofReadsAll
  <2> QED BY <2>1, <2>2
<1>4. CASE Baseline
  <2>1. pc = "baseline" /\ pc' = "poll" /\ UNCHANGED <<fd, offset, got, old, token>>
    BY <1>4 DEF Baseline
  <2>2. SentSoFar' /\ OldFirst'
    BY <1>1, <1>2, <2>1 DEF SentSoFar, OldFirst, Delivered
  <2> QED BY <2>1, <2>2 DEF ReadingOnce, EofReadsAll
<1>5. CASE Poll
  <2>1. /\ pc = "poll" /\ eof' = FALSE /\ pc' \in {"scan", "done"} /\ UNCHANGED <<fd, offset, got, old, token>>
        /\ (pc' = "done" => ctx \/ fd = None)
    BY <1>5 DEF Poll
  <2>2. fd # None => SentSoFar' /\ OldFirst'
    BY <1>1, <1>2, <2>1 DEF SentSoFar, OldFirst, Delivered
  <2> QED BY <1>1, <2>1, <2>2 DEF ReadingOnce, EofReadsAll
<1>6. CASE Fill
  <2>1. pc = "scan" /\ pc' = "scan" /\ UNCHANGED <<fd, offset, got, old, token>>
    BY <1>6 DEF Fill
  <2>2. SentSoFar' /\ OldFirst'
    BY <1>1, <1>2, <2>1 DEF SentSoFar, OldFirst, Delivered
  <2>3. eof' => OldWithin'
    BY <1>0, <1>6, FillReads
  <2> QED BY <2>1, <2>2, <2>3 DEF ReadingOnce, EofReadsAll
<1>7. CASE Scan
  <2>1. pc = "scan" /\ pc' = "send" /\ eof' = eof
    BY <1>7 DEF Scan
  <2>2. SentSoFar' /\ OldFirst' /\ (OldWithin => OldWithin')
    BY <1>0, <1>7, ScanReads
  <2> QED BY <1>2, <2>1, <2>2 DEF ReadingOnce, EofReadsAll
<1>8. CASE Send
  <2>1. /\ pc = "send" /\ pc' = "scan" /\ UNCHANGED <<fd, offset, buf, eof, token, old>>
        /\ got' = got \cup {k \in Lines : token = Body(k)}
    BY <1>8 DEF Send
  <2>2. token \in Seq(Byte)
    BY DEF Types
  <2>3. ASSUME NEW k \in Lines, Delivered(k) PROVE Delivered(k)'
    <3>1. CASE k \in got
      BY <2>1, <3>1 DEF Delivered
    <3>2. CASE Repeats(token, huge, k)
      <4>1. token = Body(k)
        BY <2>2, <3>2, RepeatsIs
      <4> QED BY <2>1, <4>1 DEF Delivered
    <3> QED BY <2>3, <3>1, <3>2 DEF Delivered
  <2>4. SentSoFar'
    BY <1>1, <1>2, <2>1, <2>3 DEF SentSoFar
  <2>5. OldFirst' /\ (OldWithin => OldWithin')
    BY <1>1, <1>2, <2>1 DEF OldFirst, OldWithin
  <2> QED BY <1>2, <2>1, <2>4, <2>5 DEF ReadingOnce, EofReadsAll
<1>9. CASE Drained
  <2>1. pc = "scan" /\ pc' = "done" /\ UNCHANGED <<fd, offset, got, old, token>>
    BY <1>9 DEF Drained, readVars
  <2>2. SentSoFar' /\ OldFirst'
    BY <1>1, <1>2, <2>1 DEF SentSoFar, OldFirst, Delivered
  <2>3. Readable(old) \subseteq got
    BY <1>9, DrainedReadAll
  <2>4. EofReadsAll'
    BY <1>1, <2>1, <2>3 DEF EofReadsAll, Readable
  <2> QED BY <2>1, <2>2, <2>4 DEF ReadingOnce
<1>10. ~Stat /\ ~Reopen /\ ~Sleep
  BY <1>2 DEF Stat, Reopen, Sleep
<1> QED BY <1>0, <1>3, <1>4, <1>5, <1>6, <1>7, <1>8, <1>9, <1>10

\* Every step keeps the reader's count.
LEMMA ReadingStays == ASSUME Types, InStep, ReadingOnce, [Next]_vars, Types' PROVE ReadingOnce'
<1>1. CASE WriteLine \/ WritePart \/ FinishPart \/ RenameAway \/ CreateNew \/ Truncate
  <2>1. follow' = follow /\ tidy' = tidy
    BY <1>1 DEF WriteLine, WritePart, FinishPart, RenameAway, CreateNew, Truncate, modeVars
  <2>2. CASE tidy /\ ~follow
    <3>1. UNCHANGED <<modeVars, pc, readVars, ctx>>
      BY <1>1, <2>2, WritersGrow
    <3>2. fd # None => Later(huge, content[fd], content'[fd], written)
      <4>1. fd # None => fd \in Files
        BY Reading
      <4> QED BY <1>1, <2>2, <4>1, WritersAdd
    <3> QED BY <2>2, <3>1, <3>2, WritersKeepReading
  <2> QED BY <2>1, <2>2 DEF ReadingOnce
<1>2. CASE Cancel \/ Finished \/ UNCHANGED vars
  <2>1. UNCHANGED <<modeVars, fileVars, pc, readVars>> /\ (ctx => ctx')
    BY <1>2 DEF Cancel, Finished, vars
  <2>2. /\ fd' = fd /\ offset' = offset /\ buf' = buf /\ eof' = eof /\ token' = token /\ old' = old
        /\ got' = got /\ pc' = pc /\ huge' = huge /\ follow' = follow /\ tidy' = tidy /\ content' = content
    BY <2>1 DEF modeVars, fileVars, readVars
  <2>3. /\ (SentSoFar => SentSoFar') /\ (OldFirst => OldFirst') /\ (OldWithin => OldWithin')
        /\ (EofReadsAll => EofReadsAll')
    BY <2>1, <2>2 DEF SentSoFar, OldFirst, OldWithin, Delivered, EofReadsAll, Readable
  <2> QED BY <2>2, <2>3 DEF ReadingOnce
<1> QED BY <1>1, <1>2, ReaderKeepsReading DEF Next

\* Without follow the tailer sends everything there was when it opened the file, up
\* to a line that is too long, unless it is cancelled, whatever is appended meanwhile.
THEOREM ReadsAll == Spec => []EofReadsAll
<1>1. Init => Types /\ InStep /\ ReadingOnce
  <2>1. Init => ReadingOnce
    BY DEF Init, ReadingOnce, EofReadsAll
  <2> QED BY <2>1, TypesStart, InStepStarts
<1>2. (Types /\ InStep /\ ReadingOnce) /\ [Next]_vars => (Types /\ InStep /\ ReadingOnce)'
  <2> SUFFICES ASSUME Types, InStep, ReadingOnce, [Next]_vars PROVE Types' /\ InStep' /\ ReadingOnce'
    OBVIOUS
  <2>1. Types'
    BY TypesStay
  <2> QED BY <2>1, StepStays, ReadingStays
<1>3. ReadingOnce => EofReadsAll
  BY DEF ReadingOnce, EofReadsAll
<1> QED BY <1>1, <1>2, <1>3, PTL DEF Spec

-----------------------------------------------------------------------------
(* How long a pass can take. *)

\* How far a file of n bytes goes beyond position p.
Over(n, p) == IF n > p THEN n - p ELSE 0

\* The bytes of the open file that the scanner has not asked for yet.
Unasked == Over(Len(content[fd]), offset + Len(buf))

\* What a byte in the buffer can cost is a scan and a send; a byte that is still in
\* the file costs a read besides.
ScanLeft ==
  3 * Unasked + 2 * Len(buf) + (IF pc = "send" THEN 1 ELSE 0) + (IF eof THEN 0 ELSE 1)

\* The other places of runFile, by their distance from the look at ctx.
Distance ==
  [done |-> 0, poll |-> 1, baseline |-> 2, sleep |-> 2, open |-> 3, reopen |-> 3, stat |-> 4]

\* The steps until the tailer has returned or has looked at ctx, if nobody writes.
PassLeft == IF pc \in {"scan", "send"} THEN 5 + ScanLeft ELSE Distance[pc]

\* Every step of the tailer but the beginning of a new pass brings it closer to one of them.
PassShrinks == [][RunFile => (pc = "poll" /\ ~ctx) \/ PassLeft' < PassLeft]_vars

\* The measure is a number; within the scanner it is more than anywhere else.
LEMMA PassLeftIsNat ==
  Types => /\ PassLeft \in Nat
           /\ pc \in {"scan", "send"} => ScanLeft \in Nat /\ PassLeft = 5 + ScanLeft
<1> SUFFICES ASSUME Types
             PROVE  /\ PassLeft \in Nat
                    /\ pc \in {"scan", "send"} => ScanLeft \in Nat /\ PassLeft = 5 + ScanLeft
  OBVIOUS
<1>1. ASSUME pc \in {"scan", "send"} PROVE ScanLeft \in Nat
  <2>1. Len(content[fd]) \in Nat /\ Len(buf) \in Nat /\ offset \in Nat
    <3>1. fd \in Files
      BY <1>1, BoundsAre DEF Types, Files
    <3>2. content[fd] \in Seq(Byte) /\ buf \in Seq(Byte)
      BY <3>1 DEF Types
    <3> QED BY <3>2 DEF Types
  <2>2. Unasked \in Nat
    BY <2>1 DEF Unasked, Over
  <2> QED BY <2>1, <2>2 DEF ScanLeft
<1>2. ASSUME pc \notin {"scan", "send"} PROVE Distance[pc] \in Nat
  BY <1>2 DEF Types, Distance
<1> QED BY <1>1, <1>2 DEF PassLeft

\* A read moves bytes of the file to the buffer, or finds its end.
LEMMA FillShrinks ==
  ASSUME Types, Fill, UNCHANGED content
  PROVE  PassLeft' < PassLeft
<1> DEFINE c == content[fd]
           n == Len(c)
           l == Len(buf)
           more == SubSeq(c, offset + l + 1, n)
<1>1. /\ pc = "scan" /\ pc' = "scan" /\ buf' = buf \o more /\ eof = FALSE
      /\ eof' = (n <= offset + l) /\ offset' = offset /\ content'[fd'] = c
  BY DEF Fill, Types
<1>2. c \in Seq(Byte) /\ buf \in Seq(Byte) /\ n \in Nat /\ l \in Nat /\ offset \in Nat
  <2>1. fd \in Files
    BY <1>1, BoundsAre DEF Types, Files
  <2>2. c \in Seq(Byte) /\ buf \in Seq(Byte) /\ offset \in Nat
    BY <2>1 DEF Types
  <2> QED BY <2>2
<1>3. more \in Seq(Byte) /\ Len(more) = Over(n, offset + l)
  <2>1. offset + l \in Nat /\ n \in 0..Len(c)
    BY <1>2
  <2>2. more \in Seq(Byte) /\ Len(more) = IF offset + l <= n THEN n - (offset + l) ELSE 0
    BY <1>2, <2>1, CutIs
  <2> HIDE DEF more, n, l
  <2> QED BY <1>2, <2>2 DEF Over
<1> DEFINE o == Over(n, offset + l)
<1>4. Len(buf') = l + o
  <2>1. buf' = buf \o more /\ buf \in Seq(Byte) /\ more \in Seq(Byte)
    BY <1>1, <1>2, <1>3
  <2> HIDE DEF more
  <2>2. Len(buf') = Len(buf) + Len(more)
    BY <2>1
  <2> QED BY <1>3, <2>2
<1>5. /\ ScanLeft = 3 * o + 2 * l + 1
      /\ ScanLeft' = 3 * Over(n, offset + Len(buf')) + 2 * Len(buf') + (IF eof' THEN 0 ELSE 1)
  <2>1. ScanLeft = 3 * o + 2 * l + 0 + 1
    BY <1>1, Zenon DEF ScanLeft, Unasked
  <2>2. ScanLeft' = 3 * Over(n, offset + Len(buf')) + 2 * Len(buf') + 0 + (IF eof' THEN 0 ELSE 1)
    BY <1>1, Zenon DEF ScanLeft, Unasked
  <2>3. o \in Nat /\ Over(n, offset + Len(buf')) \in Nat
    BY <1>2, <1>4 DEF Over
  <2> HIDE DEF o, n, l
  <2> QED BY <1>2, <1>4, <2>1, <2>2, <2>3
<1> HIDE DEF c, n, l, more
<1>6. o \in Nat /\ Over(n, offset + Len(buf')) = 0
  BY <1>2, <1>4 DEF Over
<1>7. o = 0 => eof'
  <2>1. o = 0 => n <= offset + l
    BY <1>2 DEF Over
  <2> QED BY <1>1, <2>1, Zenon
<1>8. ScanLeft' < ScanLeft
  <2> HIDE DEF o
  <2> QED BY <1>2, <1>4, <1>5, <1>6, <1>7
<1>9. ScanLeft \in Nat /\ ScanLeft' \in Nat
  <2> HIDE DEF o
  <2> QED BY <1>2, <1>4, <1>5, <1>6
<1>10. PassLeft = 5 + ScanLeft /\ PassLeft' = 5 + ScanLeft'
  BY <1>1, Zenon DEF PassLeft
<1> DEFINE r == ScanLeft
           R == ScanLeft'
           w == PassLeft
           W == PassLeft'
<1>11. R < r /\ r \in Nat /\ R \in Nat /\ w = 5 + r /\ W = 5 + R
  BY <1>8, <1>9, <1>10, Zenon
<1>12. W < w
  <2> HIDE DEF r, R, w, W
  <2> QED BY <1>11
<1> QED BY <1>12

\* A scan takes at least one byte from the buffer, and one send is to come.
LEMMA ScanShrinks ==
  ASSUME Types, Scan, UNCHANGED content
  PROVE  PassLeft' < PassLeft
<1> DEFINE n == Len(content[fd])
           l == Len(buf)
           k == Len(buf')
           t == TokenLen
<1>1. /\ pc = "scan" /\ pc' = "send" /\ buf' = SubSeq(buf, TokenLen + 2, Len(buf))
      /\ offset' = offset + t + 1 /\ eof' = eof /\ content'[fd'] = content[fd]
      /\ HasLine \/ (buf # <<>> /\ ~TooLong)
  <2>1. offset' = offset + Consumed(t)
    BY DEF Scan
  <2>2. offset \in Nat /\ t \in Nat
    BY TokenIs DEF Types, Scan
  <2>3. offset + Consumed(t) = offset + t + 1
    BY <2>2 DEF Consumed
  <2> QED BY <2>1, <2>3, Zenon DEF Scan
<1>2. content[fd] \in Seq(Byte) /\ buf \in Seq(Byte) /\ n \in Nat /\ l \in Nat /\ offset \in Nat
  <2>1. fd \in Files
    BY <1>1, BoundsAre DEF Types, Files
  <2>2. content[fd] \in Seq(Byte) /\ buf \in Seq(Byte) /\ offset \in Nat
    BY <2>1 DEF Types
  <2> QED BY <2>2
<1>3. t \in 0..l /\ k = IF t < l THEN l - t - 1 ELSE 0
  BY <1>1, <1>2, ScanTypes
<1>4. t < l \/ l > 0
  <2>1. HasLine => t < l
    BY <1>2, <1>3, TokenIs
  <2>2. buf # <<>> => l > 0
    BY <1>2
  <2> QED BY <1>1, <2>1, <2>2
<1> DEFINE e == IF eof THEN 0 ELSE 1
           o == Over(n, offset + l)
           q == Over(n, offset' + k)
<1>5. ScanLeft = 3 * o + 2 * l + 0 + e /\ ScanLeft' = 3 * q + 2 * k + 1 + e
  BY <1>1, Zenon DEF ScanLeft, Unasked
<1> HIDE DEF n, l, k, t
<1>6. offset' + k >= offset + l /\ offset' + k \in Nat /\ k \in Nat /\ k < l
  BY <1>1, <1>2, <1>3, <1>4
<1>7. q <= o /\ q \in Nat /\ o \in Nat /\ e \in Nat
  BY <1>2, <1>6 DEF Over
<1> HIDE DEF e, o, q
<1>8. ScanLeft' < ScanLeft /\ ScanLeft \in Nat /\ ScanLeft' \in Nat
  BY <1>2, <1>5, <1>6, <1>7
<1>9. PassLeft = 5 + ScanLeft /\ PassLeft' = 5 + ScanLeft'
  BY <1>1, Zenon DEF PassLeft
<1> DEFINE r == ScanLeft
           R == ScanLeft'
           w == PassLeft
           W == PassLeft'
<1>10. R < r /\ r \in Nat /\ R \in Nat /\ w = 5 + r /\ W = 5 + R
  BY <1>8, <1>9, Zenon
<1>11. W < w
  <2> HIDE DEF r, R, w, W
  <2> QED BY <1>10
<1> QED BY <1>11

\* A pass that has begun ends after a bounded number of steps of the tailer if
\* nobody writes meanwhile, and with it the time in which the tailer does not look
\* at ctx; a writer that keeps ahead of the tailer can draw it out.
THEOREM PassEnds == Spec => [](PassLeft \in Nat) /\ PassShrinks
<1>1. Types => PassLeft \in Nat
  BY PassLeftIsNat
<1>2. Types /\ [Next]_vars => [RunFile => (pc = "poll" /\ ~ctx) \/ PassLeft' < PassLeft]_vars
  <2> SUFFICES ASSUME Types, RunFile, ~(pc = "poll" /\ ~ctx) PROVE PassLeft' < PassLeft
    OBVIOUS
  <2>1. CASE Fill \/ Scan
    BY <2>1, FillShrinks, ScanShrinks DEF RunFile, fileVars
  <2>2. CASE Send
    <3>1. pc = "send" /\ pc' = "scan" /\ UNCHANGED <<content, fd, offset, buf, eof>>
      BY <2>2 DEF Send, RunFile, fileVars
    <3> DEFINE r == 3 * Unasked + 2 * Len(buf)
               e == IF eof THEN 0 ELSE 1
    <3>2. ScanLeft = r + 1 + e /\ ScanLeft' = r + 0 + e
      BY <3>1, Zenon DEF ScanLeft, Unasked
    <3>3. r \in Int /\ e \in Int
      <4>1. Len(content[fd]) \in Nat /\ Len(buf) \in Nat /\ offset \in Nat
        <5>1. fd \in Files
          BY <3>1, BoundsAre DEF Types, Files
        <5>2. content[fd] \in Seq(Byte) /\ buf \in Seq(Byte) /\ offset \in Nat
          BY <5>1 DEF Types
        <5> QED BY <5>2
      <4> QED BY <4>1 DEF Unasked, Over
    <3> HIDE DEF r, e
    <3> QED BY <3>1, <3>2, <3>3 DEF PassLeft
  <2>3. CASE Drained
    <3>1. pc = "scan" /\ pc' \in {"stat", "done"}
      BY <2>3 DEF Drained
    <3>2. PassLeft = 5 + ScanLeft /\ ScanLeft \in Nat
      BY <3>1, PassLeftIsNat
    <3> QED BY <3>1, <3>2 DEF PassLeft, Distance
  <2>4. CASE Open \/ Baseline \/ Stat \/ Reopen \/ Sleep
    <3>1. \/ pc = "open" /\ pc' \in {"done", "baseline"}
          \/ pc = "baseline" /\ pc' = "poll"
          \/ pc = "stat" /\ pc' \in {"sleep", "reopen", "poll"}
          \/ pc = "reopen" /\ pc' \in {"sleep", "poll"}
          \/ pc = "sleep" /\ pc' \in {"poll", "done"}
      BY <2>4, Zenon DEF Open, Baseline, Stat, Reopen, Sleep
    <3> QED BY <3>1 DEF PassLeft, Distance
  <2>5. CASE Poll
    <3>1. pc = "poll" /\ pc' = "done"
      BY <2>5 DEF Poll
    <3> QED BY <3>1 DEF PassLeft, Distance
  <2> QED BY <2>1, <2>2, <2>3, <2>4, <2>5 DEF RunFile
<1> QED BY <1>1, <1>2, TypesHold, PTL DEF Spec, PassShrinks
=============================================================================

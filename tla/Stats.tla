------------------------------- MODULE Stats --------------------------------
(***************************************************************************)
(* The arithmetic on lists of numbers that internal/counter/counter.go and *)
(* internal/window/stats.go have in common: sums, and percentiles by the   *)
(* nearest rank.                                                           *)
(***************************************************************************)
EXTENDS Integers, Sequences, FiniteSets

SumOf(s) ==
  LET upTo[n \in 0..Len(s)] == IF n = 0 THEN 0 ELSE upTo[n - 1] + s[n]
  IN  upTo[Len(s)]

\* How many of the elements of s a test holds of.
HowMany(s, Test(_)) == Cardinality({i \in DOMAIN s : Test(s[i])})

\* How many of n sorted values are not above the percentile, rounded up.
Rank(percent, n) == (percent * n + 99) \div 100

\* The element of that rank, or 0 if there is none.
Percentile(percent, s) ==
  IF s = <<>> THEN 0
  ELSE CHOOSE v \in {s[i] : i \in DOMAIN s} :
         /\ HowMany(s, LAMBDA x : x < v) < Rank(percent, Len(s))
         /\ HowMany(s, LAMBDA x : x <= v) >= Rank(percent, Len(s))
=============================================================================

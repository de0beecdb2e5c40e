----------------------------- MODULE MCAnalyzer -----------------------------
(* A small instance of Analyzer: silent, quiet and loud buckets; the loud one *)
(* triggers every rule that looks at a single bucket, with two hosts in the   *)
(* lead.                                                                      *)
EXTENDS Analyzer

TwoHosts == {"a", "b"}

TwoAndAHalf == [num |-> 5, den |-> 2]
OneIn200 == [num |-> 1, den |-> 200]
TwoFifths == [num |-> 2, den |-> 5]

MCBuckets ==
  {[total |-> 0, errors |-> 0, p99 |-> 0, byHost |-> [a |-> 0, b |-> 0]],
   [total |-> 3, errors |-> 0, p99 |-> 1, byHost |-> [a |-> 1, b |-> 0]],
   [total |-> 12, errors |-> 6, p99 |-> 4, byHost |-> [a |-> 5, b |-> 5]]}
=============================================================================

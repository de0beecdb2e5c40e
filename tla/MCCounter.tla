----------------------------- MODULE MCCounter -----------------------------
(* A small instance of Counter: an event of each way to be, or not to be, an *)
(* error by status and by level, with and without a host and a latency.      *)
EXTENDS Counter

MCEvents ==
  {[host |-> "a", status |-> 200, level |-> "error", lat |-> 7],
   [host |-> "b", status |-> 404, level |-> "", lat |-> 3],
   [host |-> "", status |-> 0, level |-> "error", lat |-> 0],
   [host |-> "a", status |-> 0, level |-> "", lat |-> 0]}
=============================================================================

------------------------------ MODULE MCWindow ------------------------------
(* A small instance of Window for TLC: the window wraps around after three
   pushes, and the two goroutines of the pipeline use it. *)
EXTENDS Window

TwoThreads == {"analyzer", "fwdCnt"}
=============================================================================

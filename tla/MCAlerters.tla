----------------------------- MODULE MCAlerters -----------------------------
(* A small instance of Alerters: a delay that waits, one that does not, and one
   attempt more than there are delays. *)
EXTENDS Alerters

TwoDelays == <<1, 0>>
=============================================================================

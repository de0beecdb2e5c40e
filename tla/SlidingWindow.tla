--------------------------- MODULE SlidingWindow ---------------------------
(***************************************************************************)
(* What internal/window promises: the last Capacity buckets pushed, oldest *)
(* first, and snapshots that are the window as it was at one moment.       *)
(***************************************************************************)
EXTENDS Naturals, Sequences

CONSTANTS
  Capacity,  \* buckets the window holds at most
  Bucket,    \* bucket values
  Threads    \* goroutines that take snapshots

VARIABLES
  win,   \* the window, oldest first
  snap   \* the last snapshot each goroutine has obtained

swVars == <<win, snap>>

SWInit ==
  /\ win = <<>>
  /\ snap = [t \in Threads |-> <<>>]

\* s followed by b, without its oldest element if it is full.
Slide(s, b) == IF Len(s) = Capacity THEN Append(Tail(s), b) ELSE Append(s, b)

PushOne ==
  /\ \E b \in Bucket : win' = Slide(win, b)
  /\ UNCHANGED snap

TakeSnapshot(t) ==
  /\ snap' = [snap EXCEPT ![t] = win]
  /\ UNCHANGED win

SWNext == PushOne \/ \E t \in Threads : TakeSnapshot(t)

SWSpec == SWInit /\ [][SWNext]_swVars
=============================================================================

------------------------------- MODULE Window -------------------------------
(***************************************************************************)
(* internal/window/window.go: the ring buffer behind its RWMutex, as the   *)
(* pipeline uses it.  The analyzer goroutine pushes buckets and takes      *)
(* snapshots; the forwarder in front of it takes snapshots at the same     *)
(* time (pipeline.go:185, analyzer.go:84 and :94).  Push is the three      *)
(* assignments of RingBuf.Push, a snapshot one copy per entry: only the    *)
(* lock makes either of them look like one step.                           *)
(***************************************************************************)
EXTENDS RingBuf

CONSTANTS
  Bucket,    \* bucket values
  Zero,      \* the zero value a fresh slot holds
  Threads,   \* the goroutines that use the window
  Pusher     \* the one of them that pushes: the analyzer's

ASSUME PusherAssumption == Pusher \in Threads

VARIABLES
  buf, head, count,  \* the ring buffer
  readers, writer,   \* the RWMutex: read locks held, write lock held
  pc,                \* where each goroutine is in Push or Snapshot
  item,              \* the argument of the push under way
  out,               \* per goroutine, the entries copied so far
  size,              \* per goroutine, the length its snapshot was made with
  snap               \* per goroutine, the last snapshot returned

ringVars == <<buf, head, count>>
lockVars == <<readers, writer>>
copyVars == <<out, size, snap>>
vars == <<ringVars, lockVars, pc, item, copyVars>>

Goto(t, l) == pc' = [pc EXCEPT ![t] = l]

Init ==
  /\ buf = [i \in Slots |-> Zero]
  /\ head = 0
  /\ count = 0
  /\ readers = {}
  /\ writer = FALSE
  /\ pc = [t \in Threads |-> "idle"]
  /\ item = Zero
  /\ out = [t \in Threads |-> <<>>]
  /\ size = [t \in Threads |-> 0]
  /\ snap = [t \in Threads |-> <<>>]

-----------------------------------------------------------------------------
(* Push. *)

PushLock ==
  /\ pc[Pusher] = "idle"
  /\ readers = {} /\ ~writer
  /\ writer' = TRUE
  /\ item' \in Bucket
  /\ Goto(Pusher, "slot")
  /\ UNCHANGED <<ringVars, readers, copyVars>>

PushSlot ==
  /\ pc[Pusher] = "slot"
  /\ buf' = [buf EXCEPT ![head] = item]
  /\ Goto(Pusher, "head")
  /\ UNCHANGED <<head, count, lockVars, item, copyVars>>

PushHead ==
  /\ pc[Pusher] = "head"
  /\ head' = NextHead(head)
  /\ Goto(Pusher, "count")
  /\ UNCHANGED <<buf, count, lockVars, item, copyVars>>

PushCount ==
  /\ pc[Pusher] = "count"
  /\ count' = NextCount(count)
  /\ Goto(Pusher, "unlock")
  /\ UNCHANGED <<buf, head, lockVars, item, copyVars>>

PushUnlock ==
  /\ pc[Pusher] = "unlock"
  /\ writer' = FALSE
  /\ Goto(Pusher, "idle")
  /\ UNCHANGED <<ringVars, readers, item, copyVars>>

-----------------------------------------------------------------------------
(* Snapshot. *)

\* Variant: the read lock is not waited for.
SnapBegin(t) ==
  /\ pc[t] = "idle"
  /\ readers' = readers \cup {t}
  /\ out' = [out EXCEPT ![t] = <<>>]
  /\ size' = [size EXCEPT ![t] = count]
  /\ Goto(t, "copy")
  /\ UNCHANGED <<ringVars, writer, item, snap>>

\* The read lock, then the make() of RingBuf.Slice.
SnapLock(t) == ~writer /\ SnapBegin(t)

SnapCopy(t) ==
  /\ pc[t] = "copy"
  /\ Len(out[t]) < size[t]
  /\ out' = [out EXCEPT ![t] = Append(@, At(buf, head, count, Len(@)))]
  /\ UNCHANGED <<ringVars, lockVars, pc, item, size, snap>>

SnapUnlock(t) ==
  /\ pc[t] = "copy"
  /\ Len(out[t]) = size[t]
  /\ snap' = [snap EXCEPT ![t] = out[t]]
  /\ readers' = readers \ {t}
  /\ Goto(t, "idle")
  /\ UNCHANGED <<ringVars, writer, item, out, size>>

Next ==
  \/ PushLock \/ PushSlot \/ PushHead \/ PushCount \/ PushUnlock
  \/ \E t \in Threads : SnapLock(t) \/ SnapCopy(t) \/ SnapUnlock(t)

Spec == Init /\ [][Next]_vars

-----------------------------------------------------------------------------

Value == Bucket \cup {Zero}

\* Every variable has its type.
TypeOK ==
  /\ buf \in [Slots -> Value]
  /\ head \in Slots
  /\ count \in 0..Capacity
  /\ readers \subseteq Threads
  /\ writer \in BOOLEAN
  /\ pc \in [Threads -> {"idle", "slot", "head", "count", "unlock", "copy"}]
  /\ item \in Value
  /\ pc[Pusher] = "slot" => item \in Bucket
  /\ size \in [Threads -> 0..Capacity]
  /\ out \in [Threads -> Seq(Value)]

\* The write lock is held exactly through a push, a read lock through a snapshot,
\* and never both kinds at once.
LockOK ==
  /\ writer <=> pc[Pusher] \in {"slot", "head", "count", "unlock"}
  /\ \A t \in Threads : t \in readers <=> pc[t] = "copy"
  /\ \A t \in Threads \ {Pusher} : pc[t] \in {"idle", "copy"}
  /\ writer => readers = {}

\* What a goroutine has copied so far is the beginning of the buffer as it is.
CopyOK ==
  \A t \in Threads : pc[t] = "copy" =>
    /\ size[t] = count
    /\ Len(out[t]) <= count
    /\ \A i \in 1..Len(out[t]) : out[t][i] = At(buf, head, count, i - 1)

IInv == TypeOK /\ LockOK /\ CopyOK

(***************************************************************************)
(* Refinement.  A push takes effect when it writes its slot: from then on  *)
(* the window is what the buffer will hold once head and count have caught *)
(* up.                                                                     *)
(***************************************************************************)
HeadNow == IF pc[Pusher] = "head" THEN NextHead(head) ELSE head
CountNow == IF pc[Pusher] \in {"head", "count"} THEN NextCount(count) ELSE count
Contents == Slice(buf, HeadNow, CountNow)

Sliding == INSTANCE SlidingWindow WITH win <- Contents

\* The window holds the last Capacity buckets pushed, oldest first, and each
\* snapshot, however its copying interleaves with a push, is one such window.
SlidingSpec == Sliding!SWSpec
=============================================================================

---------------------------- MODULE WindowProofs ----------------------------
(***************************************************************************)
(* Proofs about RingBuf and Window, for every capacity, set of buckets and *)
(* set of goroutines: the index arithmetic slides, the lock protects the   *)
(* copying, and together they implement SlidingWindow.                     *)
(***************************************************************************)
EXTENDS Window, SequenceTheorems, TLAPS

-----------------------------------------------------------------------------
(* Index arithmetic. *)

\* Reduction modulo the capacity, of a number that wraps at most once.
LEMMA Wrap ==
  \A a \in 0..(2 * Capacity - 1) :
    a % Capacity = IF a < Capacity THEN a ELSE a - Capacity
  BY CapacityAssumption, SMT

\* Push moves head to the next slot, around the end.
LEMMA NextHeadIs ==
  ASSUME NEW h \in Slots
  PROVE  /\ NextHead(h) = IF h = Capacity - 1 THEN 0 ELSE h + 1
         /\ NextHead(h) \in Slots
<1>1. h + 1 \in 0..(2 * Capacity - 1)
  BY CapacityAssumption, SMT DEF Slots
<1>2. (h + 1) % Capacity = IF h + 1 < Capacity THEN h + 1 ELSE h + 1 - Capacity
  BY <1>1, Wrap, CapacityAssumption, SMT DEF Slots
<1>. QED BY <1>2, CapacityAssumption, SMT DEF NextHead, Slots

\* The oldest entry lies count slots behind head.
LEMMA OldestIs ==
  ASSUME NEW h \in Slots, NEW c \in 0..Capacity
  PROVE  /\ Oldest(h, c) = IF h >= c THEN h - c ELSE h - c + Capacity
         /\ Oldest(h, c) \in Slots
<1>1. h - c + Capacity \in 0..(2 * Capacity - 1)
  BY CapacityAssumption, SMT DEF Slots
<1>2. Oldest(h, c) = IF h - c + Capacity < Capacity THEN h - c + Capacity ELSE h - c
  BY <1>1, Wrap, CapacityAssumption, SMT DEF Oldest, Slots
<1>. QED BY <1>2, CapacityAssumption, SMT DEF Slots

\* The slot of logical index i.
SlotOf(h, c, i) == (Oldest(h, c) + i) % Capacity

\* The slot of logical index i, without the modulus.
LEMMA SlotOfIs ==
  ASSUME NEW h \in Slots, NEW c \in 0..Capacity, NEW i \in 0..(c - 1)
  PROVE  /\ SlotOf(h, c, i) = IF h - c + i >= 0 THEN h - c + i ELSE h - c + i + Capacity
         /\ SlotOf(h, c, i) \in Slots
<1>. DEFINE o == Oldest(h, c)
<1>1. o \in Slots /\ o = IF h >= c THEN h - c ELSE h - c + Capacity
  BY OldestIs
<1>. HIDE DEF o
<1>2. o + i \in 0..(2 * Capacity - 1)
  BY <1>1, CapacityAssumption, SMT DEF Slots
<1>3. (o + i) % Capacity = IF o + i < Capacity THEN o + i ELSE o + i - Capacity
  BY <1>1, <1>2, Wrap, CapacityAssumption, SMT DEF Slots
<1>4. SlotOf(h, c, i) = IF o + i < Capacity THEN o + i ELSE o + i - Capacity
  BY <1>3 DEF SlotOf, o
<1>. QED BY <1>1, <1>4, CapacityAssumption, SMT DEF Slots

\* At reads the slot of its index, which is one of the buffer's.
LEMMA AtIs ==
  ASSUME NEW b, NEW h, NEW c, NEW i
  PROVE  At(b, h, c, i) = b[SlotOf(h, c, i)]
  BY DEF At, SlotOf

-----------------------------------------------------------------------------
(* What a push does to the contents. *)

Pushed(b, h, v) == [b EXCEPT ![h] = v]

\* Below capacity every entry keeps its index and the item comes last.
LEMMA PushNotFull ==
  ASSUME NEW b \in [Slots -> Value], NEW h \in Slots, NEW c \in 0..Capacity, NEW v,
         c < Capacity
  PROVE  /\ \A i \in 0..(c - 1) : At(Pushed(b, h, v), NextHead(h), c + 1, i) = At(b, h, c, i)
         /\ At(Pushed(b, h, v), NextHead(h), c + 1, c) = v
<1>1. NextHead(h) \in Slots /\ NextHead(h) = IF h = Capacity - 1 THEN 0 ELSE h + 1
  BY NextHeadIs
<1>2. ASSUME NEW i \in 0..(c - 1)
      PROVE  At(Pushed(b, h, v), NextHead(h), c + 1, i) = At(b, h, c, i)
  <2>1. c + 1 \in 0..Capacity /\ i \in 0..((c + 1) - 1)
    BY CapacityAssumption, SMT
  <2>2. SlotOf(NextHead(h), c + 1, i) = SlotOf(h, c, i) /\ SlotOf(h, c, i) # h
    <3>1. SlotOf(h, c, i) = IF h - c + i >= 0 THEN h - c + i ELSE h - c + i + Capacity
      BY SlotOfIs
    <3>2. SlotOf(NextHead(h), c + 1, i) =
            IF NextHead(h) - (c + 1) + i >= 0 THEN NextHead(h) - (c + 1) + i
            ELSE NextHead(h) - (c + 1) + i + Capacity
      BY <1>1, <2>1, SlotOfIs
    <3>. QED BY <1>1, <3>1, <3>2, CapacityAssumption, SMT DEF Slots
  <2>3. SlotOf(h, c, i) \in Slots
    BY SlotOfIs
  <2>. QED BY <2>2, <2>3, AtIs DEF Pushed
<1>3. At(Pushed(b, h, v), NextHead(h), c + 1, c) = v
  <2>1. c + 1 \in 0..Capacity /\ c \in 0..((c + 1) - 1)
    BY CapacityAssumption, SMT
  <2>2. SlotOf(NextHead(h), c + 1, c) =
          IF NextHead(h) - (c + 1) + c >= 0 THEN NextHead(h) - (c + 1) + c
          ELSE NextHead(h) - (c + 1) + c + Capacity
    BY <1>1, <2>1, SlotOfIs
  <2>3. SlotOf(NextHead(h), c + 1, c) = h
    BY <1>1, <2>2, CapacityAssumption, SMT DEF Slots
  <2>. QED BY <2>3, AtIs DEF Pushed
<1>. QED BY <1>2, <1>3

\* At capacity every entry moves down one index, the oldest is gone and the item
\* comes last.
LEMMA PushFull ==
  ASSUME NEW b \in [Slots -> Value], NEW h \in Slots, NEW v
  PROVE  /\ \A i \in 0..(Capacity - 2) :
              At(Pushed(b, h, v), NextHead(h), Capacity, i) = At(b, h, Capacity, i + 1)
         /\ At(Pushed(b, h, v), NextHead(h), Capacity, Capacity - 1) = v
<1>0. Capacity \in 0..Capacity /\ Capacity - 1 \in 0..(Capacity - 1)
  BY CapacityAssumption, SMT
<1>1. NextHead(h) \in Slots /\ NextHead(h) = IF h = Capacity - 1 THEN 0 ELSE h + 1
  BY NextHeadIs
<1>2. ASSUME NEW i \in 0..(Capacity - 2)
      PROVE  At(Pushed(b, h, v), NextHead(h), Capacity, i) = At(b, h, Capacity, i + 1)
  <2>1. i \in 0..(Capacity - 1) /\ i + 1 \in 0..(Capacity - 1)
    BY CapacityAssumption, SMT
  <2>2. SlotOf(h, Capacity, i + 1) =
          IF h - Capacity + (i + 1) >= 0 THEN h - Capacity + (i + 1)
          ELSE h - Capacity + (i + 1) + Capacity
    BY <1>0, <2>1, SlotOfIs
  <2>3. SlotOf(NextHead(h), Capacity, i) =
          IF NextHead(h) - Capacity + i >= 0 THEN NextHead(h) - Capacity + i
          ELSE NextHead(h) - Capacity + i + Capacity
    BY <1>0, <1>1, <2>1, SlotOfIs
  <2>4. SlotOf(NextHead(h), Capacity, i) = SlotOf(h, Capacity, i + 1)
        /\ SlotOf(h, Capacity, i + 1) # h
    BY <1>1, <2>2, <2>3, CapacityAssumption, SMT DEF Slots
  <2>5. SlotOf(h, Capacity, i + 1) \in Slots
    BY <1>0, <2>1, SlotOfIs
  <2>. QED BY <2>4, <2>5, AtIs DEF Pushed
<1>3. At(Pushed(b, h, v), NextHead(h), Capacity, Capacity - 1) = v
  <2>2. SlotOf(NextHead(h), Capacity, Capacity - 1) =
          IF NextHead(h) - Capacity + (Capacity - 1) >= 0 THEN NextHead(h) - Capacity + (Capacity - 1)
          ELSE NextHead(h) - Capacity + (Capacity - 1) + Capacity
    BY <1>0, <1>1, SlotOfIs
  <2>3. SlotOf(NextHead(h), Capacity, Capacity - 1) = h
    BY <1>1, <2>2, CapacityAssumption, SMT DEF Slots
  <2>. QED BY <2>3, AtIs DEF Pushed
<1>. QED BY <1>2, <1>3

\* A slice is a sequence of the entries.
LEMMA SliceIsSeq ==
  ASSUME NEW b \in [Slots -> Value], NEW h \in Slots, NEW c \in 0..Capacity
  PROVE  /\ Slice(b, h, c) \in Seq(Value)
         /\ Len(Slice(b, h, c)) = c
         /\ \A i \in 1..c : Slice(b, h, c)[i] = At(b, h, c, i - 1)
<1>1. \A i \in 1..c : At(b, h, c, i - 1) \in Value
  <2>. SUFFICES ASSUME NEW i \in 1..c PROVE At(b, h, c, i - 1) \in Value
    OBVIOUS
  <2>1. i - 1 \in 0..(c - 1)
    BY CapacityAssumption, SMT
  <2>2. SlotOf(h, c, i - 1) \in Slots
    BY <2>1, SlotOfIs
  <2>. QED BY <2>2, AtIs
<1>2. c \in Nat
  BY CapacityAssumption, SMT
<1>. QED BY <1>1, <1>2, SMT DEF Slice

\* What RingBuf.Push promises: the item is appended, and a full buffer loses its
\* oldest entry and no other.
THEOREM PushSlides ==
  ASSUME NEW b \in [Slots -> Value], NEW h \in Slots, NEW c \in 0..Capacity,
         NEW v \in Value
  PROVE  Slice(Pushed(b, h, v), NextHead(h), NextCount(c)) = Sliding!Slide(Slice(b, h, c), v)
<1>. DEFINE S == Slice(b, h, c)
            T == Slice(Pushed(b, h, v), NextHead(h), NextCount(c))
<1>0. /\ NextHead(h) \in Slots /\ Pushed(b, h, v) \in [Slots -> Value]
      /\ NextCount(c) \in 0..Capacity
  <2>1. NextHead(h) \in Slots
    BY NextHeadIs
  <2>2. NextCount(c) \in 0..Capacity
    BY CapacityAssumption, SMT DEF NextCount
  <2>. QED BY <2>1, <2>2 DEF Pushed
<1>1. /\ S \in Seq(Value) /\ Len(S) = c
      /\ \A i \in 1..c : S[i] = At(b, h, c, i - 1)
  BY SliceIsSeq
<1>2. /\ T \in Seq(Value) /\ Len(T) = NextCount(c)
      /\ \A i \in 1..NextCount(c) :
           T[i] = At(Pushed(b, h, v), NextHead(h), NextCount(c), i - 1)
  BY <1>0, SliceIsSeq
<1>. HIDE DEF S, T
<1>3. CASE c < Capacity
  <2>1. NextCount(c) = c + 1 /\ Sliding!Slide(S, v) = Append(S, v)
    BY <1>1, <1>3, CapacityAssumption, SMT DEF NextCount, Sliding!Slide
  <2>2. /\ Append(S, v) \in Seq(Value) /\ Len(Append(S, v)) = c + 1
        /\ \A i \in 1..c : Append(S, v)[i] = S[i]
        /\ Append(S, v)[c + 1] = v
    BY <1>1, AppendProperties
  <2>3. ASSUME NEW i \in 1..(c + 1) PROVE T[i] = Append(S, v)[i]
    <3>1. CASE i = c + 1
      BY <1>2, <1>3, <2>1, <2>2, <3>1, PushNotFull, SMT
    <3>2. CASE i # c + 1
      <4>1. i - 1 \in 0..(c - 1) /\ i \in 1..c
        BY <3>2, SMT
      <4>2. T[i] = At(Pushed(b, h, v), NextHead(h), c + 1, i - 1)
        BY <1>2, <2>1
      <4>3. T[i] = At(b, h, c, i - 1)
        BY <1>3, <4>1, <4>2, PushNotFull
      <4>. QED BY <1>1, <2>2, <4>1, <4>3
    <3>. QED BY <3>1, <3>2
  <2>. QED BY <1>2, <2>1, <2>2, <2>3, SeqEqual DEF S, T
<1>4. CASE c = Capacity
  <2>1. NextCount(c) = Capacity /\ Sliding!Slide(S, v) = Append(Tail(S), v)
    BY <1>1, <1>4, SMT DEF NextCount, Sliding!Slide
  <2>2. /\ Tail(S) \in Seq(Value) /\ Len(Tail(S)) = Capacity - 1
        /\ \A i \in 1..(Capacity - 1) : Tail(S)[i] = S[i + 1]
    <3>1. S # <<>>
      BY <1>1, <1>4, CapacityAssumption, SMT
    <3>. QED BY <1>1, <1>4, <3>1, HeadTailProperties
  <2>3. /\ Append(Tail(S), v) \in Seq(Value)
        /\ Len(Append(Tail(S), v)) = (Capacity - 1) + 1
        /\ \A i \in 1..(Capacity - 1) : Append(Tail(S), v)[i] = Tail(S)[i]
        /\ Append(Tail(S), v)[(Capacity - 1) + 1] = v
    BY <2>2, AppendProperties
  <2>4. (Capacity - 1) + 1 = Capacity
    BY CapacityAssumption, SMT
  <2>5. ASSUME NEW i \in 1..Capacity PROVE T[i] = Append(Tail(S), v)[i]
    <3>1. CASE i = Capacity
      BY <1>2, <1>4, <2>1, <2>3, <2>4, <3>1, PushFull
    <3>2. CASE i # Capacity
      <4>1. /\ i - 1 \in 0..(Capacity - 2) /\ i \in 1..(Capacity - 1)
            /\ i + 1 \in 1..Capacity /\ (i - 1) + 1 = (i + 1) - 1
        BY <3>2, CapacityAssumption, SMT
      <4>2. T[i] = At(b, h, Capacity, (i - 1) + 1)
        BY <1>2, <1>4, <2>1, <4>1, PushFull
      <4>. QED BY <1>1, <1>4, <2>2, <2>3, <4>1, <4>2
    <3>. QED BY <3>1, <3>2
  <2>. QED BY <1>2, <2>1, <2>3, <2>4, <2>5, SeqEqual DEF S, T
<1>. QED BY <1>3, <1>4, CapacityAssumption, SMT

-----------------------------------------------------------------------------
(* The inductive invariant. *)

\* The invariant holds of the empty window.
LEMMA InitIInv ==
  ASSUME Init
  PROVE  IInv
<1>. USE CapacityAssumption, PusherAssumption DEF Init
<1>1. TypeOK
  <2>1. \A t \in Threads : out[t] \in Seq(Value)
    BY EmptySeq
  <2>2. buf \in [Slots -> Value] /\ item \in Value
    BY DEF Value
  <2>3. head \in Slots /\ count \in 0..Capacity
    BY SMT DEF Slots
  <2>4. out \in [Threads -> Seq(Value)]
    BY <2>1
  <2>5. size \in [Threads -> 0..Capacity]
    BY <2>3
  <2>. QED BY <2>2, <2>3, <2>4, <2>5 DEF TypeOK
<1>2. LockOK /\ CopyOK
  BY DEF LockOK, CopyOK
<1>. QED BY <1>1, <1>2 DEF IInv

\* What At reads is a value.
LEMMA AtIsValue ==
  ASSUME TypeOK, NEW i \in 0..(count - 1)
  PROVE  At(buf, head, count, i) \in Value
  BY SlotOfIs, AtIs DEF TypeOK

\* Every step of Push and of Snapshot keeps the invariant.
LEMMA StepIInv ==
  ASSUME IInv, [Next]_vars
  PROVE  IInv'
<1>. USE PusherAssumption DEF vars, ringVars, lockVars, copyVars, Goto
<1>0. TypeOK /\ LockOK /\ CopyOK
  BY DEF IInv
<1>1. CASE PushLock
  <2>1. TypeOK'
    BY <1>0, <1>1 DEF PushLock, TypeOK, LockOK, Value
  <2>2. LockOK'
    BY <1>0, <1>1 DEF PushLock, TypeOK, LockOK
  <2>3. CopyOK'
    BY <1>0, <1>1 DEF PushLock, TypeOK, LockOK, CopyOK
  <2>. QED BY <2>1, <2>2, <2>3 DEF IInv
<1>2. CASE PushSlot
  <2>1. TypeOK'
    BY <1>0, <1>2 DEF PushSlot, TypeOK
  <2>2. LockOK'
    BY <1>0, <1>2 DEF PushSlot, TypeOK, LockOK
  <2>3. CopyOK'
    BY <1>0, <1>2 DEF PushSlot, TypeOK, LockOK, CopyOK
  <2>. QED BY <2>1, <2>2, <2>3 DEF IInv
<1>3. CASE PushHead
  <2>1. TypeOK'
    BY <1>0, <1>3, NextHeadIs DEF PushHead, TypeOK
  <2>2. LockOK'
    BY <1>0, <1>3 DEF PushHead, TypeOK, LockOK
  <2>3. CopyOK'
    BY <1>0, <1>3 DEF PushHead, TypeOK, LockOK, CopyOK
  <2>. QED BY <2>1, <2>2, <2>3 DEF IInv
<1>4. CASE PushCount
  <2>0. NextCount(count) \in 0..Capacity
    BY <1>0, CapacityAssumption, SMT DEF NextCount, TypeOK
  <2>1. TypeOK'
    BY <1>0, <1>4, <2>0 DEF PushCount, TypeOK
  <2>2. LockOK'
    BY <1>0, <1>4 DEF PushCount, TypeOK, LockOK
  <2>3. CopyOK'
    BY <1>0, <1>4 DEF PushCount, TypeOK, LockOK, CopyOK
  <2>. QED BY <2>1, <2>2, <2>3 DEF IInv
<1>5. CASE PushUnlock
  <2>1. TypeOK'
    BY <1>0, <1>5 DEF PushUnlock, TypeOK
  <2>2. LockOK'
    BY <1>0, <1>5 DEF PushUnlock, TypeOK, LockOK
  <2>3. CopyOK'
    BY <1>0, <1>5 DEF PushUnlock, TypeOK, LockOK, CopyOK
  <2>. QED BY <2>1, <2>2, <2>3 DEF IInv
<1>6. ASSUME NEW t \in Threads, SnapLock(t) PROVE IInv'
  <2>1. TypeOK'
    BY <1>0, <1>6 DEF SnapLock, SnapBegin, TypeOK
  <2>2. LockOK'
    BY <1>0, <1>6 DEF SnapLock, SnapBegin, TypeOK, LockOK
  <2>3. CopyOK'
    BY <1>0, <1>6, CapacityAssumption, SMT DEF SnapLock, SnapBegin, TypeOK, CopyOK
  <2>. QED BY <2>1, <2>2, <2>3 DEF IInv
<1>7. ASSUME NEW t \in Threads, SnapCopy(t) PROVE IInv'
  <2>. DEFINE e == At(buf, head, count, Len(out[t]))
  <2>1. /\ out[t] \in Seq(Value) /\ Len(out[t]) \in 0..(count - 1)
        /\ e \in Value
    BY <1>0, <1>7, AtIsValue, CapacityAssumption, SMT DEF SnapCopy, TypeOK, CopyOK
  <2>2. /\ Append(out[t], e) \in Seq(Value)
        /\ Len(Append(out[t], e)) = Len(out[t]) + 1
        /\ \A i \in 1..Len(out[t]) : Append(out[t], e)[i] = out[t][i]
        /\ Append(out[t], e)[Len(out[t]) + 1] = e
    BY <2>1, AppendProperties
  <2>3. out' = [out EXCEPT ![t] = Append(out[t], e)]
    BY <1>7 DEF SnapCopy
  <2>. HIDE DEF e
  <2>4. TypeOK'
    BY <1>0, <1>7, <2>2, <2>3 DEF SnapCopy, TypeOK
  <2>5. LockOK'
    BY <1>0, <1>7 DEF SnapCopy, LockOK
  <2>6. CopyOK'
    <3>. SUFFICES ASSUME NEW u \in Threads, pc[u] = "copy"
                  PROVE  /\ size[u] = count
                         /\ Len(out'[u]) <= count
                         /\ \A i \in 1..Len(out'[u]) : out'[u][i] = At(buf, head, count, i - 1)
      BY <1>7 DEF SnapCopy, CopyOK, At
    <3>1. CASE u # t
      BY <1>0, <2>3, <3>1 DEF TypeOK, CopyOK
    <3>2. CASE u = t
      <4>1. out'[u] = Append(out[t], e)
        BY <1>0, <2>3, <3>2 DEF TypeOK
      <4>2. Len(out'[u]) <= count
        BY <1>0, <2>1, <2>2, <4>1, SMT DEF TypeOK
      <4>3. ASSUME NEW i \in 1..Len(out'[u])
            PROVE  out'[u][i] = At(buf, head, count, i - 1)
        <5>1. CASE i \in 1..Len(out[t])
          BY <1>0, <1>7, <2>2, <4>1, <5>1 DEF CopyOK, SnapCopy
        <5>2. CASE i \notin 1..Len(out[t])
          <6>1. i = Len(out[t]) + 1 /\ i - 1 = Len(out[t])
            BY <2>1, <2>2, <4>1, <5>2, SMT
          <6>. QED BY <2>2, <4>1, <6>1 DEF e
        <5>. QED BY <5>1, <5>2
      <4>4. size[u] = count
        BY <1>0, <3>2 DEF CopyOK
      <4>. QED BY <4>2, <4>3, <4>4
    <3>. QED BY <3>1, <3>2
  <2>. QED BY <2>4, <2>5, <2>6 DEF IInv
<1>8. ASSUME NEW t \in Threads, SnapUnlock(t) PROVE IInv'
  <2>1. TypeOK'
    BY <1>0, <1>8 DEF SnapUnlock, TypeOK
  <2>2. LockOK'
    BY <1>0, <1>8 DEF SnapUnlock, TypeOK, LockOK
  <2>3. CopyOK'
    BY <1>0, <1>8 DEF SnapUnlock, TypeOK, CopyOK, At
  <2>. QED BY <2>1, <2>2, <2>3 DEF IInv
<1>9. CASE UNCHANGED vars
  BY <1>0, <1>9 DEF IInv, TypeOK, LockOK, CopyOK, At, Oldest
<1>. QED BY <1>1, <1>2, <1>3, <1>4, <1>5, <1>6, <1>7, <1>8, <1>9 DEF Next

\* The lock keeps pushes and copying apart, and a copy under way is always the
\* beginning of the buffer as it stands.
THEOREM Invariance == Spec => []IInv
<1>1. Init => IInv
  BY InitIInv
<1>2. IInv /\ [Next]_vars => IInv'
  BY StepIInv
<1>. QED BY <1>1, <1>2, PTL DEF Spec

-----------------------------------------------------------------------------
(* Refinement. *)

\* A finished copy is the whole window.
LEMMA CopyIsContents ==
  ASSUME IInv, NEW t \in Threads, SnapUnlock(t)
  PROVE  out[t] = Contents
<1>1. /\ TypeOK
      /\ out[t] \in Seq(Value)
      /\ Len(out[t]) = count
      /\ \A i \in 1..count : out[t][i] = At(buf, head, count, i - 1)
  BY DEF IInv, TypeOK, CopyOK, SnapUnlock
<1>2. Contents = Slice(buf, head, count)
  BY PusherAssumption DEF IInv, LockOK, SnapUnlock, Contents, HeadNow, CountNow
<1>3. /\ Slice(buf, head, count) \in Seq(Value)
      /\ Len(Slice(buf, head, count)) = count
      /\ \A i \in 1..count : Slice(buf, head, count)[i] = At(buf, head, count, i - 1)
  BY <1>1, SliceIsSeq DEF TypeOK
<1>. QED BY <1>1, <1>2, <1>3, SeqEqual

\* The window behind its lock implements the sliding window: for every capacity,
\* and for any number of goroutines taking snapshots while one pushes.
THEOREM Implements == Spec => SlidingSpec
<1>. USE PusherAssumption, CapacityAssumption
     DEF vars, ringVars, lockVars, copyVars, Goto, Sliding!swVars
<1>1. Init => Sliding!SWInit
  <2>. SUFFICES ASSUME Init PROVE Sliding!SWInit
    OBVIOUS
  <2>1. Contents = Slice(buf, head, 0)
    BY DEF Init, Contents, HeadNow, CountNow
  <2>2. Contents = <<>>
    BY <2>1, SMT DEF Slice
  <2>. QED BY <2>2 DEF Init, Sliding!SWInit
<1>2. IInv /\ [Next]_vars => [Sliding!SWNext]_(Sliding!swVars)
  <2>. SUFFICES ASSUME IInv, [Next]_vars
                PROVE  [Sliding!SWNext]_(Sliding!swVars)
    OBVIOUS
  <2>. USE DEF Contents, HeadNow, CountNow
  <2>0. TypeOK /\ LockOK
    BY DEF IInv
  <2>1. CASE PushLock
    BY <2>0, <2>1 DEF PushLock, TypeOK
  <2>2. CASE PushSlot
    <3>1. Contents = Slice(buf, head, count)
      BY <2>2 DEF PushSlot
    <3>2. Contents' = Slice(Pushed(buf, head, item), NextHead(head), NextCount(count))
      BY <2>0, <2>2 DEF PushSlot, TypeOK, Pushed
    <3>3. Contents' = Sliding!Slide(Contents, item)
      <4>. HIDE DEF Contents
      <4>. QED BY <2>0, <3>1, <3>2, PushSlides DEF TypeOK
    <3>4. item \in Bucket /\ snap' = snap
      BY <2>0, <2>2 DEF PushSlot, TypeOK
    <3>. HIDE DEF Contents
    <3>. QED BY <3>3, <3>4 DEF Sliding!SWNext, Sliding!PushOne
  <2>3. CASE PushHead
    BY <2>0, <2>3 DEF PushHead, TypeOK
  <2>4. CASE PushCount
    BY <2>0, <2>4 DEF PushCount, TypeOK
  <2>5. CASE PushUnlock
    BY <2>0, <2>5 DEF PushUnlock, TypeOK
  <2>6. ASSUME NEW t \in Threads, SnapLock(t) \/ SnapCopy(t)
        PROVE  [Sliding!SWNext]_(Sliding!swVars)
    BY <2>0, <2>6 DEF SnapLock, SnapBegin, SnapCopy, TypeOK
  <2>7. ASSUME NEW t \in Threads, SnapUnlock(t)
        PROVE  [Sliding!SWNext]_(Sliding!swVars)
    <3>1. out[t] = Contents
      BY <2>7, CopyIsContents
    <3>2. Contents' = Contents
      BY <2>0, <2>7 DEF SnapUnlock, TypeOK
    <3>. QED BY <2>7, <3>1, <3>2 DEF SnapUnlock, Sliding!SWNext, Sliding!TakeSnapshot
  <2>8. CASE UNCHANGED vars
    BY <2>8
  <2>. QED BY <2>1, <2>2, <2>3, <2>4, <2>5, <2>6, <2>7, <2>8 DEF Next
<1>. QED BY <1>1, <1>2, Invariance, PTL DEF Spec, SlidingSpec, Sliding!SWSpec
=============================================================================

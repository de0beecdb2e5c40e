------------------------------ MODULE RingBuf ------------------------------
(***************************************************************************)
(* pkg/ringbuf/ringbuf.go: the index arithmetic of the circular buffer     *)
(* under the sliding window.  A buffer is its slots, indexed from 0, the   *)
(* slot the next Push writes (head), and the number of valid entries.      *)
(***************************************************************************)
EXTENDS Integers, Sequences

CONSTANT Capacity

(* pipeline.go:101 makes the capacity WindowSize / BucketDuration, and
   config.Validate asks for WindowSize >= BucketDuration. *)
ASSUME CapacityAssumption == Capacity \in Nat \ {0}

Slots == 0..(Capacity - 1)

NextHead(head) == (head + 1) % Capacity

NextCount(count) == IF count < Capacity THEN count + 1 ELSE count

\* Variant: a buffer that is not full is forgotten.
OldestWithoutCount(head, count) == head % Capacity

\* The slot of the oldest entry.
Oldest(head, count) == (head - count + Capacity) % Capacity

\* The entry at logical index i, 0 the oldest.
At(buf, head, count, i) == buf[(Oldest(head, count) + i) % Capacity]

\* All entries, oldest first. (Index i of the Go slice is i + 1 here.)
Slice(buf, head, count) == [i \in 1..count |-> At(buf, head, count, i - 1)]
=============================================================================

------------------------------ MODULE ByteQueue ------------------------------
(***************************************************************************)
(* What a ring buffer promises its two users: a bounded first-in first-out *)
(* queue of bytes.  The bytes are the ordinals of a stream.                *)
(***************************************************************************)
EXTENDS Integers, Sequences

CONSTANT Capacity

VARIABLES queue, next  \* the bytes stored, the ordinal of the next one put

Init == queue = <<>> /\ next = 0

Put ==
  \E n \in 1 .. (Capacity - Len(queue)) :
    /\ queue' = queue \o [i \in 1 .. n |-> next + i - 1]
    /\ next' = next + n

Get ==
  \E n \in 1 .. Len(queue) :
    /\ queue' = SubSeq(queue, n + 1, Len(queue))
    /\ UNCHANGED next

Drop == queue' = <<>> /\ UNCHANGED next

Next == Put \/ Get \/ Drop

Spec == Init /\ [][Next]_<<queue, next>>
=============================================================================

----------------------------- MODULE BoundedFifo -----------------------------
(***************************************************************************)
(* What a bounded queue promises: the items that entered and have not left *)
(* are kept in order, never more than Capacity of them, and the item that  *)
(* leaves is always the oldest.  delivered is the order in which items     *)
(* left.  BoundedMpmcQueue is shown to implement this specification.       *)
(***************************************************************************)
EXTENDS Naturals, Sequences

CONSTANTS Item, Capacity

VARIABLES queue, delivered

Init == queue = << >> /\ delivered = << >>

Enqueue(v) ==
    /\ Len(queue) < Capacity
    /\ queue' = Append(queue, v)
    /\ UNCHANGED delivered

Dequeue ==
    /\ queue # << >>
    /\ delivered' = Append(delivered, Head(queue))
    /\ queue' = Tail(queue)

Next == Dequeue \/ \E v \in Item : Enqueue(v)

Spec == Init /\ [][Next]_<<queue, delivered>>
=============================================================================

--------------------------- MODULE PriorityQueue ---------------------------
(***************************************************************************)
(* A bounded priority queue as its users see it: the operators enqueue,    *)
(* peek and dequeue of module PQueue on one queue.                         *)
(***************************************************************************)
EXTENDS PQueue

CONSTANTS Elem, Capacity, NULL

VARIABLES
  q,
  got     \* the element last dequeued

vars == <<q, got>>

Init == q = <<>> /\ got = NULL

Insert(e) ==
  /\ Len(q) < Capacity
  /\ \A i \in 1 .. Len(q) : ~ pos_eq(q[i].pos, e.pos)
  /\ q' = enqueue(q, e)
  /\ UNCHANGED got

TakeFirst ==
  /\ q # <<>>
  /\ got' = peek(q)
  /\ q' = dequeue(q)

Next == TakeFirst \/ \E e \in Elem : Insert(e)

Spec == Init /\ [][Next]_vars
=============================================================================

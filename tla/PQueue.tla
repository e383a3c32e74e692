------------------------------- MODULE PQueue -------------------------------
(***************************************************************************)
(* Stream positions and the priority queues of process.h, as their users   *)
(* see them: a queue is the sequence of its elements in the order in which *)
(* they would be dequeued.  (Module Heap shows that the binary heap the    *)
(* macros are implemented with delivers its elements in this order.)       *)
(*                                                                         *)
(* Every structure that is queued starts with a struct position; in the    *)
(* model it is a record with a field pos.  A position is <<major, minor>>. *)
(***************************************************************************)
EXTENDS Integers, SequencesExt

Position == Nat \X Nat

pos_eq(a, b) == a = b

pos_lt(a, b) == a[1] < b[1] \/ (a[1] = b[1] /\ a[2] < b[2])

pos_le(a, b) == ~ pos_lt(b, a)

(* Head of a non-empty queue, and the queue without it.                    *)
peek(q) == Head(q)

dequeue(q) == Tail(q)

(* The place of position p in queue q: behind everything not later than p. *)
PlaceOf(q, p) == 1 + Cardinality({i \in 1..Len(q) : pos_le(q[i].pos, p)})

enqueue(q, e) == InsertAt(q, PlaceOf(q, e.pos), e)

(* The minimum macro of common.h.                                          *)
min(x, y) == IF x < y THEN x ELSE y
=============================================================================

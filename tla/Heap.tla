-------------------------------- MODULE Heap --------------------------------
(***************************************************************************)
(* The priority queue of process.h and process.c: a binary heap in an      *)
(* array, whose loops up_heap() and down_heap() are modelled one iteration *)
(* per step.  While a loop runs, el is the element that is to be placed    *)
(* and j the hole it is to be placed in.                                   *)
(*                                                                         *)
(* No two elements of a queue have the same position.                      *)
(***************************************************************************)
EXTENDS PQueue

CONSTANTS
  Elem,       \* the elements, records with a field pos
  Capacity,   \* the capacity the queue is initialised with
  NULL        \* what malloc() leaves in the array

ASSUME HeapAssumption ==
  /\ \A e \in Elem : e.pos \in Position
  /\ Capacity \in Nat \ {0}
  /\ NULL \notin Elem

VARIABLES
  root, size,
  pc,       \* "idle", or the loop that is running
  el, j,    \* local variables of the loops
  got       \* the element last dequeued

vars == <<root, size, pc, el, j, got>>

parent(i) == (i - 1) \div 2
left(i) == 2 * i + 1

Init ==
  /\ root = [i \in 0 .. Capacity - 1 |-> NULL]
  /\ size = 0
  /\ pc = "idle" /\ el = NULL /\ j = 0
  /\ got = NULL

(* The elements of the queue; a loop moves them around the hole.           *)
Contents ==
  IF pc = "idle" THEN {root[i] : i \in 0 .. size - 1}
  ELSE {root[i] : i \in (0 .. size - 1) \ {j}} \cup {el}

(* enqueue(): the new element is stored at the end, up_heap() is called.   *)
Enqueue(e) ==
  /\ pc = "idle" /\ size < Capacity
  /\ \A x \in Contents : ~ pos_eq(x.pos, e.pos)
  /\ root' = [root EXCEPT ![size] = e]
  /\ size' = size + 1
  /\ el' = e /\ j' = size
  /\ pc' = "up"
  /\ UNCHANGED got

Rises == j > 0 /\ pos_lt(el.pos, root[parent(j)].pos)

UpHeap ==
  /\ pc = "up"
  /\ IF Rises
     THEN /\ root' = [root EXCEPT ![j] = root[parent(j)]]
          /\ j' = parent(j)
          /\ UNCHANGED pc
     ELSE /\ root' = [root EXCEPT ![j] = el]
          /\ pc' = "idle"
          /\ UNCHANGED j
  /\ UNCHANGED <<size, el, got>>

(* Mutant of Dequeue: the last element is forgotten.                       *)
Dequeue_DropsLast ==
  /\ pc = "idle" /\ size > 0
  /\ size' = size - 1
  /\ got' = root[0]
  /\ IF size' = 0
     THEN UNCHANGED <<root, pc, el, j>>
     ELSE /\ el' = root[size' - 1]
          /\ root' = [root EXCEPT ![size'] = root[0]]
          /\ j' = 0
          /\ pc' = "down"

(* Mutant of Dequeue: what is returned is read before the loop.            *)
Dequeue_ReturnsLast ==
  /\ pc = "idle" /\ size > 0
  /\ size' = size - 1
  /\ got' = root[size']
  /\ IF size' = 0
     THEN UNCHANGED <<root, pc, el, j>>
     ELSE /\ el' = root[size']
          /\ root' = [root EXCEPT ![size'] = root[0]]
          /\ j' = 0
          /\ pc' = "down"

(* dequeue(): the element at the head is swapped to the end, the last one  *)
(* is to be placed from the top.                                           *)
Dequeue ==
  /\ pc = "idle" /\ size > 0
  /\ size' = size - 1
  /\ got' = root[0]
  /\ IF size' = 0
     THEN UNCHANGED <<root, pc, el, j>>
     ELSE /\ el' = root[size']
          /\ root' = [root EXCEPT ![size'] = root[0]]
          /\ j' = 0
          /\ pc' = "down"

(* Mutant of Child: always the left one.                                   *)
Child_Left == left(j)

(* The lesser child of the hole.                                           *)
Child ==
  IF left(j) + 1 < size /\ pos_lt(root[left(j) + 1].pos, root[left(j)].pos)
  THEN left(j) + 1 ELSE left(j)

Sinks == left(j) < size /\ ~ pos_le(el.pos, root[Child].pos)

DownHeap ==
  /\ pc = "down"
  /\ IF Sinks
     THEN /\ root' = [root EXCEPT ![j] = root[Child]]
          /\ j' = Child
          /\ UNCHANGED pc
     ELSE /\ root' = [root EXCEPT ![j] = el]
          /\ pc' = "idle"
          /\ UNCHANGED j
  /\ UNCHANGED <<size, el, got>>

Next == (\E e \in Elem : Enqueue(e)) \/ Dequeue \/ UpHeap \/ DownHeap

Spec == Init /\ [][Next]_vars

(***************************************************************************)
(* What the users of the queue rely on.                                    *)
(***************************************************************************)
(* Every index lies in the array, and no element that malloc() left there  *)
(* is ever looked at.                                                      *)
TypeOK ==
  /\ root \in [0 .. Capacity - 1 -> Elem \cup {NULL}]
  /\ size \in 0 .. Capacity
  /\ pc \in {"idle", "up", "down"}
  /\ el \in Elem \cup {NULL}
  /\ got \in Elem \cup {NULL}
  /\ \A i \in 0 .. size - 1 : root[i] \in Elem
  /\ pc # "idle" => el \in Elem /\ j \in 0 .. size - 1

(* What peek() returns is not later than anything else in the queue.       *)
HeadIsLeast ==
  pc = "idle" => \A i \in 0 .. size - 1 : pos_le(root[0].pos, root[i].pos)

(* No element gets lost or duplicated by the moves of a loop: a step adds  *)
(* one element, removes the head or leaves the elements alone.             *)
ContentsKept ==
  [][\/ Contents' = Contents
     \/ \E e \in Elem : Enqueue(e) /\ Contents' = Contents \cup {e}
     \/ Dequeue /\ Contents' = Contents \ {root[0]}]_vars

(* The members of S in the order of positions, as module PQueue has them:  *)
(* each behind as many as precede it.                                      *)
ByPosition(S) ==
  [i \in 1 .. Cardinality(S) |->
     CHOOSE x \in S : Cardinality({y \in S : pos_lt(y.pos, x.pos)}) = i - 1]

queue == ByPosition(Contents)

Abstract == INSTANCE PriorityQueue WITH q <- queue

(* The heap delivers its elements as the queues of module PQueue do, which *)
(* the models of the jobs use.                                             *)
ImplementsPQueue == Abstract!Init /\ [][Abstract!Next]_(Abstract!vars)
=============================================================================

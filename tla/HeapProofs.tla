----------------------------- MODULE HeapProofs -----------------------------
(***************************************************************************)
(* The heap of module Heap has a least element at its head, loses none,    *)
(* and delivers them as the queue of module PriorityQueue does, for every  *)
(* capacity and every set of elements: proofs.                             *)
(***************************************************************************)
EXTENDS Heap, PQueueProofs

(***************************************************************************)
(* Positions, and the shape of the tree.                                   *)
(***************************************************************************)
LEMMA LeOrder ==
  ASSUME NEW a \in Elem, NEW b \in Elem
  PROVE  /\ pos_le(a.pos, a.pos)
         /\ pos_le(a.pos, b.pos) \/ pos_le(b.pos, a.pos)
         /\ pos_lt(a.pos, b.pos) => pos_le(a.pos, b.pos)
         /\ ~ pos_lt(a.pos, b.pos) <=> pos_le(b.pos, a.pos)
  BY HeapAssumption DEF Position, pos_le, pos_lt

LEMMA LeTransitive ==
  ASSUME NEW a \in Elem, NEW b \in Elem, NEW c \in Elem,
         pos_le(a.pos, b.pos), pos_le(b.pos, c.pos)
  PROVE  pos_le(a.pos, c.pos)
  BY HeapAssumption DEF Position, pos_le, pos_lt

LEMMA Tree ==
  ASSUME NEW i \in Nat \ {0}
  PROVE  /\ parent(i) \in Nat /\ parent(i) < i
         /\ i = left(parent(i)) \/ i = left(parent(i)) + 1
  BY DEF parent, left

LEMMA TreeDown ==
  ASSUME NEW i \in Nat
  PROVE  /\ left(i) \in Nat /\ i < left(i)
         /\ parent(left(i)) = i /\ parent(left(i) + 1) = i
  BY DEF parent, left

(***************************************************************************)
(* Types.                                                                  *)
(***************************************************************************)
LEMMA NextType == TypeOK /\ [Next]_vars => TypeOK'
<1> SUFFICES ASSUME TypeOK, [Next]_vars PROVE TypeOK'
  OBVIOUS
<1> USE HeapAssumption
<1>1. ASSUME NEW e \in Elem, Enqueue(e) PROVE TypeOK'
  BY <1>1 DEF TypeOK, Enqueue
<1>2. CASE Dequeue
  BY <1>2 DEF TypeOK, Dequeue
<1>3. CASE UpHeap
  <2>1. j \in 0 .. size - 1 /\ size \in Nat /\ size <= Capacity /\ el \in Elem
    BY <1>3 DEF TypeOK, UpHeap
  <2>2. CASE Rises
    <3>1. parent(j) \in 0 .. size - 1
      BY <2>1, <2>2, Tree DEF Rises
    <3> QED
      BY <1>3, <2>1, <2>2, <3>1 DEF TypeOK, UpHeap
  <2>3. CASE ~ Rises
    BY <1>3, <2>1, <2>3 DEF TypeOK, UpHeap
  <2> QED
    BY <2>2, <2>3
<1>4. CASE DownHeap
  <2>1. j \in 0 .. size - 1 /\ size \in Nat /\ size <= Capacity /\ el \in Elem
    BY <1>4 DEF TypeOK, DownHeap
  <2>2. CASE Sinks
    <3>1. Child \in 0 .. size - 1
      BY <2>1, <2>2, TreeDown DEF Sinks, Child
    <3> QED
      BY <1>4, <2>1, <2>2, <3>1 DEF TypeOK, DownHeap
  <2>3. CASE ~ Sinks
    BY <1>4, <2>1, <2>3 DEF TypeOK, DownHeap
  <2> QED
    BY <2>2, <2>3
<1>5. CASE UNCHANGED vars
  BY <1>5 DEF TypeOK, vars
<1> QED
  BY <1>1, <1>2, <1>3, <1>4, <1>5 DEF Next

LEMMA InitType == Init => TypeOK
  BY HeapAssumption DEF Init, TypeOK

(***************************************************************************)
(* The order.  Around the hole, the order holds between its neighbours and *)
(* the element to be placed, so that the loop may go on or stop.           *)
(***************************************************************************)
(* Nodes whose parent they must not precede, apart from those at the hole. *)
AwayFromHole == {i \in 1 .. size - 1 : pc = "idle" \/ (i # j /\ parent(i) # j)}

(* The nodes below the hole.                                               *)
BelowHole == {i \in 1 .. size - 1 : pc # "idle" /\ parent(i) = j}

Order ==
  /\ \A i \in AwayFromHole : pos_le(root[parent(i)].pos, root[i].pos)
  /\ \A i \in BelowHole : /\ pc = "up" => pos_le(el.pos, root[i].pos)
                          /\ j > 0 => pos_le(root[parent(j)].pos, root[i].pos)
  /\ pc = "down" /\ j > 0 => pos_le(root[parent(j)].pos, el.pos)

LEMMA EnqueueOrder ==
  ASSUME TypeOK, Order, NEW e \in Elem, Enqueue(e)
  PROVE  Order'
<1>1. size \in Nat /\ size < Capacity /\ root \in [0 .. Capacity - 1 -> Elem \cup {NULL}]
  BY HeapAssumption DEF TypeOK, Enqueue
<1>2. BelowHole' = {}
  <2> SUFFICES ASSUME NEW i \in 1 .. size, parent(i) = size PROVE FALSE
    BY <1>1 DEF BelowHole, Enqueue
  <2> QED
    BY <1>1, Tree
<1>3. ASSUME NEW i \in AwayFromHole'
      PROVE  pos_le(root'[parent(i)].pos, root'[i].pos)
  <2>1. i \in 1 .. size - 1 /\ i # size
    BY <1>1, <1>3 DEF AwayFromHole, Enqueue
  <2>2. parent(i) \in 0 .. size - 1 /\ i \in AwayFromHole
    BY <1>1, <2>1, Tree DEF AwayFromHole, Enqueue
  <2>3. root'[i] = root[i] /\ root'[parent(i)] = root[parent(i)]
    BY <1>1, <2>1, <2>2 DEF Enqueue
  <2> QED
    BY <2>2, <2>3 DEF Order
<1> QED
  BY <1>2, <1>3 DEF Order, Enqueue

LEMMA DequeueOrder ==
  ASSUME TypeOK, Order, Dequeue
  PROVE  Order'
<1>1. /\ size \in Nat /\ 0 < size /\ size <= Capacity /\ size' = size - 1 /\ pc = "idle"
      /\ root \in [0 .. Capacity - 1 -> Elem \cup {NULL}]
  BY HeapAssumption DEF TypeOK, Dequeue
<1>2. CASE size' = 0
  BY <1>1, <1>2 DEF Order, AwayFromHole, BelowHole, Dequeue
<1>3. CASE size' # 0
  <2>1. /\ pc' = "down" /\ j' = 0 /\ root' = [root EXCEPT ![size - 1] = root[0]]
    BY <1>1, <1>3 DEF Dequeue
  <2>2. ASSUME NEW i \in AwayFromHole'
        PROVE  pos_le(root'[parent(i)].pos, root'[i].pos)
    <3>1. i \in 1 .. size - 2
      BY <1>1, <2>1, <2>2 DEF AwayFromHole
    <3>2. parent(i) \in 0 .. size - 2 /\ i \in AwayFromHole
      BY <1>1, <3>1, Tree DEF AwayFromHole
    <3>3. root'[i] = root[i] /\ root'[parent(i)] = root[parent(i)]
      BY <1>1, <2>1, <3>1, <3>2
    <3> QED
      BY <3>2, <3>3 DEF Order
  <2> QED
    BY <2>1, <2>2 DEF Order
<1> QED
  BY <1>2, <1>3

(* root[p] moves down into the hole j, its child, and p is the new hole.   *)
LEMMA RiseOrder ==
  ASSUME TypeOK, Order, UpHeap, Rises
  PROVE  Order'
<1> DEFINE p == parent(j)
<1>1. /\ size \in Nat /\ j \in 1 .. size - 1 /\ el \in Elem /\ pc = "up"
      /\ root \in [0 .. Capacity - 1 -> Elem \cup {NULL}] /\ size <= Capacity /\ Capacity \in Nat
      /\ \A i \in 0 .. size - 1 : root[i] \in Elem
  BY HeapAssumption DEF TypeOK, UpHeap, Rises
<1>2. p \in 0 .. j - 1 /\ p \in 0 .. size - 1 /\ p # j
  BY <1>1, Tree
<1>3. pc' = "up" /\ j' = p /\ root' = [root EXCEPT ![j] = root[p]] /\ size' = size /\ el' = el
  BY <1>1 DEF UpHeap
<1>4. pos_le(el.pos, root[p].pos)
  <2>1. pos_lt(el.pos, root[p].pos)
    BY DEF Rises
  <2> QED
    BY <1>1, <1>2, <2>1, LeOrder
<1>5. ASSUME NEW i \in AwayFromHole'
      PROVE  pos_le(root'[parent(i)].pos, root'[i].pos)
  <2>1. i \in 1 .. size - 1 /\ i # p /\ parent(i) # p /\ parent(i) \in 0 .. size - 1 /\ i # j
    BY <1>1, <1>3, <1>5, Tree DEF AwayFromHole
  <2>2. CASE parent(i) = j
    <3>1. i \in BelowHole
      BY <1>1, <2>1, <2>2 DEF BelowHole
    <3>2. root'[parent(i)] = root[p]
      <4>1. root'[j] = root[p]
        BY <1>1, <1>3
      <4> QED
        BY <4>1, <2>2
    <3>3. root'[i] = root[i]
      BY <1>1, <1>3, <2>1
    <3> QED
      BY <1>1, <3>1, <3>2, <3>3 DEF Order
  <2>3. CASE parent(i) # j
    <3>1. i \in AwayFromHole
      BY <2>1, <2>3 DEF AwayFromHole
    <3>2. root'[parent(i)] = root[parent(i)] /\ root'[i] = root[i]
      BY <1>1, <1>3, <2>1, <2>3
    <3> QED
      BY <3>1, <3>2 DEF Order
  <2> QED
    BY <2>2, <2>3
<1>6. ASSUME NEW i \in BelowHole'
      PROVE  /\ pos_le(el.pos, root'[i].pos)
             /\ p > 0 => pos_le(root'[parent(p)].pos, root'[i].pos)
  <2>1. i \in 1 .. size - 1 /\ parent(i) = p /\ root'[i] \in Elem
    BY <1>1, <1>2, <1>3, <1>6 DEF BelowHole
  <2>2. pos_le(root[p].pos, root'[i].pos)
    <3>1. CASE i = j
      <4>1. root'[i] = root[p] /\ root[p] \in Elem
        BY <1>1, <1>2, <1>3, <3>1
      <4> QED
        BY <4>1, LeOrder
    <3>2. CASE i # j
      <4>1. i \in AwayFromHole
        BY <1>2, <2>1, <3>2 DEF AwayFromHole
      <4>2. root'[i] = root[i]
        BY <1>1, <1>3, <2>1, <3>2
      <4> QED
        BY <2>1, <4>1, <4>2 DEF Order
    <3> QED
      BY <3>1, <3>2
  <2>3. pos_le(el.pos, root'[i].pos)
    BY <1>1, <1>2, <1>4, <2>1, <2>2, LeTransitive
  <2>4. CASE p > 0
    <3>1. p \in AwayFromHole /\ parent(p) \in 0 .. p - 1
      BY <1>1, <1>2, <2>4, Tree DEF AwayFromHole
    <3>2. parent(p) # j /\ parent(p) \in 0 .. size - 1
      BY <1>1, <1>2, <3>1
    <3>3. root'[parent(p)] = root[parent(p)]
      BY <1>1, <1>3, <3>2
    <3>4. pos_le(root[parent(p)].pos, root[p].pos)
      BY <3>1 DEF Order
    <3> QED
      BY <1>1, <1>2, <2>1, <2>2, <2>3, <3>2, <3>3, <3>4, LeTransitive
  <2> QED
    BY <1>2, <2>3, <2>4
<1> QED
  BY <1>3, <1>5, <1>6 DEF Order

(* el is put into the hole j, between its parent and its children.         *)
LEMMA PlaceOrder ==
  ASSUME TypeOK, Order, pc # "idle", pc' = "idle", size' = size,
         root' = [root EXCEPT ![j] = el],
         j > 0 => pos_le(root[parent(j)].pos, el.pos),
         \A i \in BelowHole : pos_le(el.pos, root[i].pos)
  PROVE  Order'
<1>1. /\ size \in Nat /\ j \in 0 .. size - 1 /\ el \in Elem
      /\ root \in [0 .. Capacity - 1 -> Elem \cup {NULL}] /\ size <= Capacity /\ Capacity \in Nat
  BY HeapAssumption DEF TypeOK
<1>2. ASSUME NEW i \in 1 .. size - 1
      PROVE  pos_le(root'[parent(i)].pos, root'[i].pos)
  <2>1. parent(i) \in 0 .. size - 1 /\ parent(i) # i
    BY <1>1, Tree
  <2>2. CASE i = j
    <3>1. root'[i] = el
      BY <1>1, <2>2
    <3>2. root'[parent(i)] = root[parent(j)]
      BY <1>1, <2>1, <2>2
    <3> QED
      BY <2>2, <3>1, <3>2
  <2>3. CASE parent(i) = j
    <3>1. i \in BelowHole
      BY <2>3 DEF BelowHole
    <3>2. root'[parent(i)] = el
      BY <1>1, <2>3
    <3>3. root'[i] = root[i]
      BY <1>1, <2>1, <2>3
    <3> QED
      BY <3>1, <3>2, <3>3
  <2>4. CASE i # j /\ parent(i) # j
    <3>1. i \in AwayFromHole
      BY <2>4 DEF AwayFromHole
    <3> QED
      BY <1>1, <2>1, <2>4, <3>1 DEF Order
  <2> QED
    BY <2>2, <2>3, <2>4
<1> QED
  BY <1>2 DEF Order, AwayFromHole, BelowHole

LEMMA UpHeapOrder ==
  ASSUME TypeOK, Order, UpHeap
  PROVE  Order'
<1>1. CASE Rises
  BY <1>1, RiseOrder
<1>2. CASE ~ Rises
  <2>1. /\ size \in Nat /\ j \in 0 .. size - 1 /\ el \in Elem /\ pc = "up"
        /\ \A i \in 0 .. size - 1 : root[i] \in Elem
    BY HeapAssumption DEF TypeOK, UpHeap
  <2>2. j > 0 => pos_le(root[parent(j)].pos, el.pos)
    <3> SUFFICES ASSUME j > 0 PROVE pos_le(root[parent(j)].pos, el.pos)
      OBVIOUS
    <3>1. ~ pos_lt(el.pos, root[parent(j)].pos) /\ parent(j) \in 0 .. size - 1
      BY <1>2, <2>1, Tree DEF Rises
    <3> QED
      BY <2>1, <3>1, LeOrder
  <2>3. \A i \in BelowHole : pos_le(el.pos, root[i].pos)
    BY <2>1 DEF Order
  <2> QED
    BY <1>2, <2>1, <2>2, <2>3, PlaceOrder DEF UpHeap
<1> QED
  BY <1>1, <1>2

(* root[c] moves up into the hole j, its parent, and c is the new hole.    *)
LEMMA SinkOrder ==
  ASSUME TypeOK, Order, DownHeap, Sinks
  PROVE  Order'
<1> DEFINE c == Child
<1>1. /\ size \in Nat /\ j \in 0 .. size - 1 /\ el \in Elem /\ pc = "down"
      /\ root \in [0 .. Capacity - 1 -> Elem \cup {NULL}] /\ size <= Capacity /\ Capacity \in Nat
      /\ \A i \in 0 .. size - 1 : root[i] \in Elem
  BY HeapAssumption DEF TypeOK, DownHeap
<1>2. c \in 1 .. size - 1 /\ c # j /\ parent(c) = j /\ j < c
  <2>1. left(j) < size /\ left(j) \in Nat /\ j < left(j)
        /\ parent(left(j)) = j /\ parent(left(j) + 1) = j
    BY <1>1, TreeDown DEF Sinks
  <2>2. c = left(j) \/ (c = left(j) + 1 /\ left(j) + 1 < size)
    BY DEF Child
  <2> QED
    BY <1>1, <2>1, <2>2
<1>3. pc' = "down" /\ j' = c /\ root' = [root EXCEPT ![j] = root[c]] /\ size' = size /\ el' = el
  BY <1>1 DEF DownHeap
<1>4. pos_le(root[c].pos, el.pos)
  BY <1>1, <1>2, LeOrder DEF Sinks
<1>5. ASSUME NEW i \in 1 .. size - 1, parent(i) = j
      PROVE  pos_le(root[c].pos, root[i].pos)
  <2>1. left(j) \in 1 .. size - 1 /\ (i = left(j) \/ i = left(j) + 1)
    <3>1. left(j) < size /\ left(j) \in Nat /\ j < left(j)
      BY <1>1, TreeDown DEF Sinks
    <3>2. i = left(parent(i)) \/ i = left(parent(i)) + 1
      BY <1>5, Tree
    <3> QED
      BY <1>1, <1>5, <3>1, <3>2
  <2>2. root[i] \in Elem /\ root[left(j)] \in Elem
    BY <1>1, <2>1
  <2>3. CASE left(j) + 1 < size
    <3>1. root[left(j) + 1] \in Elem
      BY <1>1, <2>1, <2>3
    <3> QED
      BY <2>1, <2>2, <2>3, <3>1, LeOrder DEF Child
  <2>4. CASE ~ (left(j) + 1 < size)
    <3>1. i = left(j) /\ c = left(j)
      BY <1>1, <2>1, <2>4 DEF Child
    <3> QED
      BY <2>2, <3>1, LeOrder
  <2> QED
    BY <2>3, <2>4
<1>6. ASSUME NEW i \in AwayFromHole'
      PROVE  pos_le(root'[parent(i)].pos, root'[i].pos)
  <2>1. i \in 1 .. size - 1 /\ i # c /\ parent(i) # c /\ parent(i) \in 0 .. size - 1
        /\ parent(i) # i
    BY <1>1, <1>3, <1>6, Tree DEF AwayFromHole
  <2>2. CASE i = j
    <3>1. root'[i] = root[c] /\ root'[parent(i)] = root[parent(j)]
      BY <1>1, <1>3, <2>1, <2>2
    <3>2. c \in BelowHole /\ j > 0
      BY <1>1, <1>2, <2>1, <2>2 DEF BelowHole
    <3> QED
      BY <3>1, <3>2 DEF Order
  <2>3. CASE parent(i) = j
    <3>1. root'[j] = root[c]
      BY <1>1, <1>3
    <3>2. root'[i] = root[i]
      BY <1>1, <1>3, <2>1, <2>3
    <3> QED
      BY <1>5, <2>1, <2>3, <3>1, <3>2
  <2>4. CASE i # j /\ parent(i) # j
    <3>1. i \in AwayFromHole
      BY <2>1, <2>4 DEF AwayFromHole
    <3>2. root'[parent(i)] = root[parent(i)] /\ root'[i] = root[i]
      BY <1>1, <1>3, <2>1, <2>4
    <3> QED
      BY <3>1, <3>2 DEF Order
  <2> QED
    BY <2>2, <2>3, <2>4
<1>7. root'[parent(c)] = root[c]
  BY <1>1, <1>2, <1>3
<1>8. ASSUME NEW i \in BelowHole'
      PROVE  pos_le(root'[parent(c)].pos, root'[i].pos)
  <2>1. i \in 1 .. size - 1 /\ parent(i) = c /\ parent(i) < i
    BY <1>1, <1>3, <1>8, Tree DEF BelowHole
  <2>2. i # j /\ i \in AwayFromHole
    BY <1>1, <1>2, <2>1 DEF AwayFromHole
  <2>3. root'[i] = root[i]
    BY <1>1, <1>3, <2>1, <2>2
  <2> QED
    BY <1>7, <2>1, <2>2, <2>3 DEF Order
<1> QED
  BY <1>3, <1>4, <1>6, <1>7, <1>8 DEF Order

LEMMA DownHeapOrder ==
  ASSUME TypeOK, Order, DownHeap
  PROVE  Order'
<1>1. CASE Sinks
  BY <1>1, SinkOrder
<1>2. CASE ~ Sinks
  <2>1. /\ size \in Nat /\ j \in 0 .. size - 1 /\ el \in Elem /\ pc = "down"
        /\ \A i \in 0 .. size - 1 : root[i] \in Elem
    BY HeapAssumption DEF TypeOK, DownHeap
  <2>2. ASSUME NEW i \in BelowHole
        PROVE  pos_le(el.pos, root[i].pos)
    <3>1. i \in 1 .. size - 1 /\ parent(i) = j
      BY <2>2 DEF BelowHole
    <3>2. left(j) \in 1 .. size - 1 /\ (i = left(j) \/ i = left(j) + 1)
      BY <2>1, <3>1, Tree, TreeDown
    <3>3. Child \in 1 .. size - 1 /\ pos_le(el.pos, root[Child].pos)
      BY <1>2, <2>1, <3>2 DEF Sinks, Child
    <3>4. root[i] \in Elem /\ root[left(j)] \in Elem /\ root[Child] \in Elem
      BY <2>1, <3>1, <3>2, <3>3
    <3>5. pos_le(root[Child].pos, root[i].pos)
      <4>1. CASE left(j) + 1 < size
        <5>1. root[left(j) + 1] \in Elem
          BY <2>1, <3>2, <4>1
        <5> QED
          BY <3>2, <3>4, <4>1, <5>1, LeOrder DEF Child
      <4>2. CASE ~ (left(j) + 1 < size)
        <5>1. i = left(j) /\ Child = left(j)
          BY <2>1, <3>1, <3>2, <4>2 DEF Child
        <5> QED
          BY <3>4, <5>1, LeOrder
      <4> QED
        BY <4>1, <4>2
    <3> QED
      BY <2>1, <3>3, <3>4, <3>5, LeTransitive
  <2>3. j > 0 => pos_le(root[parent(j)].pos, el.pos)
    BY <2>1 DEF Order
  <2> QED
    BY <1>2, <2>1, <2>2, <2>3, PlaceOrder DEF DownHeap
<1> QED
  BY <1>1, <1>2

LEMMA NextOrder == TypeOK /\ Order /\ [Next]_vars => Order'
<1> SUFFICES ASSUME TypeOK, Order, [Next]_vars PROVE Order'
  OBVIOUS
<1>1. CASE UNCHANGED vars
  BY <1>1 DEF Order, AwayFromHole, BelowHole, vars
<1> QED
  BY <1>1, EnqueueOrder, DequeueOrder, UpHeapOrder, DownHeapOrder DEF Next

(***************************************************************************)
(* In a tree that is ordered everywhere, nothing precedes the root: of the *)
(* nodes that do, take the first; its parent does not, and so neither does *)
(* it.                                                                     *)
(***************************************************************************)
LEMMA OrderedTreeRoot ==
  ASSUME TypeOK, \A i \in 1 .. size - 1 : pos_le(root[parent(i)].pos, root[i].pos)
  PROVE  \A i \in 0 .. size - 1 : pos_le(root[0].pos, root[i].pos)
<1> DEFINE Early == {i \in 0 .. size - 1 : ~ pos_le(root[0].pos, root[i].pos)}
<1>1. size \in Nat /\ \A i \in 0 .. size - 1 : root[i] \in Elem
  BY HeapAssumption DEF TypeOK
<1>2. SUFFICES ASSUME Early # {} PROVE FALSE
  OBVIOUS
<1>3. Early \subseteq Nat
  BY <1>1
<1>4. PICK i \in Early : \A k \in Early : ~ (<<k, i>> \in OpToRel(<, Nat))
  <2>1. IsWellFoundedOn(OpToRel(<, Nat), Nat)
    BY NatLessThanWellFounded
  <2> HIDE DEF Early
  <2> QED
    BY <1>2, <1>3, <2>1, WFMin
<1>5. \A k \in Early : ~ (k < i)
  BY <1>3, <1>4 DEF OpToRel
<1>6. i \in 1 .. size - 1
  BY <1>1, LeOrder
<1>7. parent(i) \in 0 .. size - 1 /\ parent(i) < i
  BY <1>1, <1>6, Tree
<1>8. pos_le(root[0].pos, root[parent(i)].pos)
  BY <1>5, <1>7
<1> QED
  BY <1>1, <1>6, <1>7, <1>8, LeTransitive

(***************************************************************************)
(* The elements.                                                           *)
(***************************************************************************)
(* The places of the array that hold an element of the queue.              *)
Filled == IF pc = "idle" THEN 0 .. size - 1 ELSE (0 .. size - 1) \ {j}

Distinct ==
  /\ \A a, b \in Filled : root[a] = root[b] => a = b
  /\ pc # "idle" => \A a \in Filled : root[a] # el

(* A loop moves root[from] into the hole, which is then at from.           *)
LEMMA MoveContents ==
  ASSUME TypeOK, Distinct, pc # "idle", NEW from \in 0 .. size - 1, from # j,
         root' = [root EXCEPT ![j] = root[from]], j' = from,
         pc' = pc, size' = size, el' = el
  PROVE  Contents' = Contents /\ Distinct'
<1>1. /\ size \in Nat /\ j \in 0 .. size - 1 /\ size <= Capacity /\ Capacity \in Nat
      /\ root \in [0 .. Capacity - 1 -> Elem \cup {NULL}]
  BY HeapAssumption DEF TypeOK
<1>2. Filled' = (Filled \ {from}) \cup {j} /\ from \in Filled /\ j \notin Filled
  BY <1>1 DEF Filled
<1>3. root'[j] = root[from]
  BY <1>1
<1>4. ASSUME NEW i \in Filled PROVE root'[i] = root[i]
  BY <1>1, <1>2 DEF Filled
<1>5. {root'[i] : i \in Filled'} = {root[i] : i \in Filled}
  BY <1>2, <1>3, <1>4
<1>6. Contents' = Contents
  BY <1>5 DEF Contents, Filled
<1>7. Distinct'
  <2>1. \A a, b \in Filled' : root'[a] = root'[b] => a = b
    BY <1>2, <1>3, <1>4 DEF Distinct
  <2>2. \A a \in Filled' : root'[a] # el
    BY <1>2, <1>3, <1>4 DEF Distinct
  <2> QED
    BY <2>1, <2>2 DEF Distinct
<1> QED
  BY <1>6, <1>7

(* A loop puts el into the hole and stops.                                 *)
LEMMA PlaceContents ==
  ASSUME TypeOK, Distinct, pc # "idle", pc' = "idle", size' = size,
         root' = [root EXCEPT ![j] = el]
  PROVE  Contents' = Contents /\ Distinct'
<1>1. /\ size \in Nat /\ j \in 0 .. size - 1 /\ size <= Capacity /\ Capacity \in Nat
      /\ root \in [0 .. Capacity - 1 -> Elem \cup {NULL}]
  BY HeapAssumption DEF TypeOK
<1>2. Filled' = Filled \cup {j} /\ j \notin Filled
  BY <1>1 DEF Filled
<1>3. root'[j] = el
  BY <1>1
<1>4. ASSUME NEW i \in Filled PROVE root'[i] = root[i]
  BY <1>1, <1>2 DEF Filled
<1>5. Contents' = {root'[i] : i \in Filled'}
  BY DEF Contents, Filled
<1>6. Contents = {root[i] : i \in Filled} \cup {el}
  BY DEF Contents, Filled
<1>7. Contents' = Contents
  BY <1>2, <1>3, <1>4, <1>5, <1>6
<1>8. \A a, b \in Filled' : root'[a] = root'[b] => a = b
  BY <1>2, <1>3, <1>4 DEF Distinct
<1> QED
  BY <1>7, <1>8 DEF Distinct

LEMMA EnqueueContents ==
  ASSUME TypeOK, Distinct, NEW e \in Elem, Enqueue(e)
  PROVE  Contents' = Contents \cup {e} /\ Distinct'
<1>1. /\ size \in Nat /\ size < Capacity /\ Capacity \in Nat
      /\ root \in [0 .. Capacity - 1 -> Elem \cup {NULL}]
  BY HeapAssumption DEF TypeOK, Enqueue
<1>2. Filled' = Filled /\ size \notin Filled /\ Filled = 0 .. size - 1
  BY <1>1 DEF Filled, Enqueue
<1>3. ASSUME NEW i \in Filled PROVE root'[i] = root[i] /\ root[i] # e
  <2>1. root'[i] = root[i] /\ root[i] \in Contents
    BY <1>1, <1>2 DEF Enqueue, Contents
  <2> QED
    BY <2>1 DEF Enqueue, pos_eq
<1>4. Contents = {root[i] : i \in Filled} /\ Contents' = {root'[i] : i \in Filled'} \cup {e}
  BY <1>2 DEF Enqueue, Contents, Filled
<1>5. Contents' = Contents \cup {e}
  BY <1>2, <1>3, <1>4
<1> QED
  BY <1>2, <1>3, <1>5 DEF Distinct, Enqueue

LEMMA DequeueContents ==
  ASSUME TypeOK, Distinct, Dequeue
  PROVE  Contents' = Contents \ {root[0]} /\ Distinct'
<1>1. /\ size \in Nat /\ 0 < size /\ size <= Capacity /\ Capacity \in Nat /\ pc = "idle"
      /\ root \in [0 .. Capacity - 1 -> Elem \cup {NULL}] /\ size' = size - 1
  BY HeapAssumption DEF TypeOK, Dequeue
<1>2. Filled = 0 .. size - 1 /\ Contents = {root[i] : i \in 0 .. size - 1}
  BY <1>1 DEF Filled, Contents
<1>3. CASE size' = 0
  <2>1. 0 .. size - 1 = {0} /\ pc' = "idle" /\ 0 .. size' - 1 = {}
    BY <1>1, <1>3 DEF Dequeue
  <2>2. Contents' = {} /\ Filled' = {}
    BY <2>1 DEF Contents, Filled
  <2> QED
    BY <1>2, <2>1, <2>2 DEF Distinct
<1>4. CASE size' # 0
  <2>1. /\ root' = [root EXCEPT ![size - 1] = root[0]] /\ el' = root[size - 1]
        /\ j' = 0 /\ pc' = "down"
    BY <1>1, <1>4 DEF Dequeue
  <2>2. Filled' = 1 .. size - 2
    BY <1>1, <2>1 DEF Filled
  <2>3. ASSUME NEW i \in Filled' PROVE root'[i] = root[i] /\ i \in Filled /\ i # size - 1 /\ i # 0
    BY <1>1, <1>2, <2>1, <2>2
  <2>4. Contents' = {root[i] : i \in 1 .. size - 2} \cup {root[size - 1]}
    <3>1. Contents' = {root'[i] : i \in Filled'} \cup {el'}
      BY <2>1 DEF Contents, Filled
    <3> QED
      BY <2>1, <2>2, <2>3, <3>1
  <2>5. 0 .. size - 1 = (1 .. size - 2) \cup {0, size - 1} /\ 0 # size - 1
    BY <1>1, <1>4
  <2>6. \A i \in 1 .. size - 1 : root[i] # root[0]
    BY <1>1, <1>2 DEF Distinct
  <2>7. \A i \in (1 .. size - 2) \cup {size - 1} : i \in 1 .. size - 1
    BY <1>1, <1>4
  <2>8. Contents' = Contents \ {root[0]}
    BY <1>2, <2>4, <2>5, <2>6, <2>7
  <2>9. size - 1 \in Filled
    BY <1>1, <1>2
  <2> QED
    BY <1>2, <2>1, <2>3, <2>8, <2>9 DEF Distinct
<1> QED
  BY <1>3, <1>4

LEMMA NextContents ==
  ASSUME TypeOK, Distinct, [Next]_vars
  PROVE  /\ Distinct'
         /\ \/ Contents' = Contents
            \/ \E e \in Elem : Enqueue(e) /\ Contents' = Contents \cup {e}
            \/ Dequeue /\ Contents' = Contents \ {root[0]}
<1>1. CASE UpHeap
  <2>1. j \in 0 .. size - 1 /\ size \in Nat
    BY <1>1, HeapAssumption DEF TypeOK, UpHeap
  <2>2. CASE Rises
    <3>1. parent(j) \in 0 .. size - 1 /\ parent(j) # j
      BY <2>1, <2>2, Tree DEF Rises
    <3> QED
      BY <1>1, <2>2, <3>1, MoveContents DEF UpHeap
  <2> QED
    BY <1>1, <2>2, PlaceContents DEF UpHeap
<1>2. CASE DownHeap
  <2>1. j \in 0 .. size - 1 /\ size \in Nat
    BY <1>2, HeapAssumption DEF TypeOK, DownHeap
  <2>2. CASE Sinks
    <3>1. left(j) < size /\ left(j) \in Nat /\ j < left(j)
      BY <2>1, <2>2, TreeDown DEF Sinks
    <3>2. Child \in 0 .. size - 1 /\ Child # j
      BY <2>1, <3>1 DEF Child
    <3> QED
      BY <1>2, <2>2, <3>2, MoveContents DEF DownHeap
  <2> QED
    BY <1>2, <2>2, PlaceContents DEF DownHeap
<1>3. CASE UNCHANGED vars
  BY <1>3 DEF vars, Contents, Distinct, Filled
<1> QED
  BY <1>1, <1>2, <1>3, EnqueueContents, DequeueContents DEF Next

(***************************************************************************)
(* The theorems.                                                           *)
(***************************************************************************)
LEMMA HeapInvariant == Spec => [](TypeOK /\ Order)
<1>1. Init => Order
  BY DEF Init, Order, AwayFromHole, BelowHole
<1> QED
  BY <1>1, InitType, NextType, NextOrder, PTL DEF Spec

(* The head of the heap is a least element whenever no loop is running, at *)
(* every capacity: peek() and dequeue() deliver in the order of positions. *)
THEOREM HeapHead == Spec => []HeadIsLeast
<1>1. TypeOK /\ Order => HeadIsLeast
  <2> SUFFICES ASSUME TypeOK, Order, pc = "idle"
               PROVE  \A i \in 0 .. size - 1 : pos_le(root[0].pos, root[i].pos)
    BY DEF HeadIsLeast
  <2>1. \A i \in 1 .. size - 1 : pos_le(root[parent(i)].pos, root[i].pos)
    BY DEF Order, AwayFromHole
  <2> QED
    BY <2>1, OrderedTreeRoot
<1> QED
  BY <1>1, HeapInvariant, PTL

(* No index of the loops ever leaves the array or reaches a stale element. *)
THEOREM HeapInRange == Spec => []TypeOK
  BY HeapInvariant, PTL

(* The loops lose no element and make none up, at every capacity.          *)
THEOREM HeapContents == Spec => ContentsKept
<1>1. Init => Distinct
  BY DEF Init, Distinct, Filled
<1>2. TypeOK /\ Distinct /\ [Next]_vars => Distinct'
  BY NextContents
<1>3. TypeOK /\ Distinct /\ [Next]_vars =>
        [\/ Contents' = Contents
         \/ \E e \in Elem : Enqueue(e) /\ Contents' = Contents \cup {e}
         \/ Dequeue /\ Contents' = Contents \ {root[0]}]_vars
  BY NextContents
<1> QED
  BY <1>1, <1>2, <1>3, HeapInRange, PTL DEF Spec, ContentsKept

(***************************************************************************)
(* The order in which the elements are delivered.                          *)
(***************************************************************************)
(* r has the elements of S, sorted.                                        *)
Lists(r, S) == r \in Seq(Elem) /\ Sorted(r) /\ ToSet(r) = S

(* There is one way to do so.                                              *)
LEMMA ListedOnce ==
  ASSUME NEW S, NEW r, Lists(r, S)
  PROVE  ByPosition(S) = r
<1> DEFINE n == Len(r)
           Before(x) == {y \in S : pos_lt(y.pos, x.pos)}
<1>1. /\ r \in Seq(Elem) /\ n \in Nat /\ \A i \in 1 .. n : r[i] \in Elem /\ r[i] \in S
      /\ \A x \in S : \E i \in 1 .. n : r[i] = x
  BY ToSetOf DEF Lists
<1>2. \A i, k \in 1 .. n : pos_lt(r[i].pos, r[k].pos) <=> i < k
  <2> SUFFICES ASSUME NEW i \in 1 .. n, NEW k \in 1 .. n PROVE pos_lt(r[i].pos, r[k].pos) <=> i < k
    OBVIOUS
  <2>1. r[i].pos \in Position /\ r[k].pos \in Position
    BY <1>1, HeapAssumption
  <2>2. (i < k => pos_lt(r[i].pos, r[k].pos)) /\ (k < i => pos_lt(r[k].pos, r[i].pos))
    BY DEF Lists, Sorted
  <2>3. i = k => r[i] = r[k]
    OBVIOUS
  <2>4. i < k \/ k < i \/ i = k
    BY <1>1
  <2> QED
    BY <2>1, <2>2, <2>3, <2>4, PosOrder
<1>3. \A i, k \in 1 .. n : r[i] = r[k] => i = k
  <2> SUFFICES ASSUME NEW i \in 1 .. n, NEW k \in 1 .. n, r[i] = r[k] PROVE i = k
    OBVIOUS
  <2>1. (i < k <=> i < i) /\ (k < i <=> i < i)
    BY <1>2
  <2> QED
    BY <1>1, <2>1
<1>4. ASSUME NEW m \in 0 .. n PROVE Cardinality({r[i] : i \in 1 .. m}) = m
  <2> DEFINE T == {r[i] : i \in 1 .. m}
             f == [i \in 1 .. m |-> r[i]]
  <2>1. f \in Bijection(1 .. m, T)
    BY <1>1, <1>3 DEF Bijection, Injection, Surjection, IsInjective
  <2>2. m \in Nat
    BY <1>1
  <2> HIDE DEF T, f
  <2>3. ExistsBijection(1 .. m, T)
    BY <2>1 DEF ExistsBijection
  <2>4. Cardinality(T) = m
    BY <2>2, <2>3, FS_CountingElements
  <2> QED
    BY <2>4 DEF T
<1>5. Cardinality(S) = n
  <2>1. S = {r[i] : i \in 1 .. n}
    BY <1>1
  <2>2. n \in 0 .. n
    BY <1>1
  <2> QED
    BY <1>4, <2>1, <2>2
<1>6. ASSUME NEW k \in 1 .. n PROVE Cardinality(Before(r[k])) = k - 1
  <2>1. \A i \in 1 .. n : i < k <=> i \in 1 .. k - 1
    BY <1>1
  <2>2. Before(r[k]) = {r[i] : i \in 1 .. k - 1}
    <3>1. \A y \in Before(r[k]) : y \in {r[i] : i \in 1 .. k - 1}
      BY <1>1, <1>2, <2>1
    <3>2. \A i \in 1 .. k - 1 : i \in 1 .. n
      BY <1>1
    <3>3. \A i \in 1 .. k - 1 : r[i] \in Before(r[k])
      BY <1>1, <1>2, <2>1, <3>2
    <3> QED
      BY <3>1, <3>3
  <2>3. k - 1 \in 0 .. n
    BY <1>1
  <2> QED
    BY <1>4, <2>2, <2>3
<1>7. ASSUME NEW i \in 1 .. n
      PROVE  (CHOOSE x \in S : Cardinality(Before(x)) = i - 1) = r[i]
  <2>1. r[i] \in S /\ Cardinality(Before(r[i])) = i - 1
    BY <1>1, <1>6
  <2>2. ASSUME NEW x \in S, Cardinality(Before(x)) = i - 1 PROVE x = r[i]
    <3>1. PICK k \in 1 .. n : r[k] = x
      BY <1>1
    <3>2. k - 1 = i - 1
      BY <1>6, <2>2, <3>1
    <3>3. k = i
      BY <1>1, <3>2
    <3> QED
      BY <3>1, <3>3
  <2> HIDE DEF Before
  <2> QED
    BY <2>1, <2>2
<1>8. ByPosition(S) = [i \in 1 .. n |-> CHOOSE x \in S : Cardinality(Before(x)) = i - 1]
  BY <1>5 DEF ByPosition
<1>9. ByPosition(S) = [i \in 1 .. n |-> r[i]]
  <2> HIDE DEF Before
  <2> QED
    BY <1>7, <1>8
<1> QED
  BY <1>1, <1>9

(* There is a way to do so, and there are as many as size says.            *)
Listed == \E r : Lists(r, Contents) /\ Len(r) = size

(* So queue is a sorted sequence of what is in the heap.                   *)
LEMMA QueueLists ==
  ASSUME Listed
  PROVE  Lists(queue, Contents) /\ Len(queue) = size
BY ListedOnce DEF Listed, queue

LEMMA QueueBecomes ==
  ASSUME NEW r, Lists(r, Contents'), Len(r) = size'
  PROVE  Listed' /\ queue' = r
<1>1. ByPosition(Contents') = r
  BY ListedOnce
<1>2. Listed'
  BY DEF Listed
<1> QED
  BY <1>1, <1>2 DEF queue

(* The abstract queue speaks of queues as this module does.                *)
LEMMA SameQueues ==
  ASSUME NEW q, NEW e
  PROVE  /\ Abstract!enqueue(q, e) = enqueue(q, e)
         /\ Abstract!dequeue(q) = dequeue(q) /\ Abstract!peek(q) = peek(q)
         /\ \A a, b : Abstract!pos_eq(a, b) <=> pos_eq(a, b)
<1>1. \A S : Abstract!Cardinality(S) = Cardinality(S)
  BY DEF Abstract!Cardinality, Cardinality
<1>2. \A p : Abstract!PlaceOf(q, p) = PlaceOf(q, p)
  BY <1>1 DEF Abstract!PlaceOf, PlaceOf, Abstract!pos_le, Abstract!pos_lt, pos_le, pos_lt
<1> QED
  BY <1>2 DEF Abstract!enqueue, enqueue, Abstract!InsertAt, InsertAt, Abstract!dequeue, dequeue,
              Abstract!peek, peek, Abstract!pos_eq, pos_eq

LEMMA EnqueueListed ==
  ASSUME Listed, NEW e \in Elem, Enqueue(e), size \in Nat, size < Capacity,
         Contents' = Contents \cup {e}
  PROVE  Listed' /\ Abstract!Insert(e)
<1>1. /\ queue \in Seq(Elem) /\ Sorted(queue) /\ ToSet(queue) = Contents /\ Len(queue) = size
      /\ size' = size + 1 /\ got' = got
  BY QueueLists DEF Lists, Enqueue
<1>2. \A x \in ToSet(queue) : x.pos # e.pos
  BY <1>1 DEF Enqueue, pos_eq
<1>3. /\ Sorted(enqueue(queue, e)) /\ ToSet(enqueue(queue, e)) = Contents'
      /\ enqueue(queue, e) \in Seq(Elem) /\ Len(enqueue(queue, e)) = size'
  BY <1>1, <1>2, EnqueueSorted, EnqueueType, HeapAssumption
<1>4. Listed' /\ queue' = enqueue(queue, e)
  BY <1>3, QueueBecomes DEF Lists
<1>5. \A i \in 1 .. Len(queue) : queue[i].pos # e.pos
  BY <1>1, <1>2, ToSetOf
<1>6. Abstract!Insert(e)
  BY <1>1, <1>4, <1>5, SameQueues DEF Abstract!Insert, pos_eq
<1> QED
  BY <1>4, <1>6

LEMMA DequeueListed ==
  ASSUME Listed, TypeOK, Dequeue, Contents' = Contents \ {root[0]},
         \A i \in 0 .. size - 1 : pos_le(root[0].pos, root[i].pos)
  PROVE  Listed' /\ Abstract!TakeFirst
<1>1. /\ queue \in Seq(Elem) /\ Sorted(queue) /\ ToSet(queue) = Contents /\ Len(queue) = size
      /\ size' = size - 1 /\ got' = root[0] /\ size \in Nat /\ size > 0
      /\ Contents = {root[i] : i \in 0 .. size - 1} /\ root[0] \in Contents
  BY QueueLists, HeapAssumption DEF Lists, Dequeue, TypeOK, Contents
<1>2. queue # <<>>
  BY <1>1
<1>3. /\ peek(queue) \in Contents /\ Sorted(dequeue(queue))
      /\ ToSet(dequeue(queue)) = Contents \ {peek(queue)}
      /\ dequeue(queue) \in Seq(Elem) /\ Len(dequeue(queue)) = size'
  BY <1>1, <1>2, DequeueSorted, DequeueType, HeapAssumption
<1>4. peek(queue) = root[0]
  <2>1. PICK k \in 1 .. size : queue[k] = root[0]
    BY <1>1, ToSetOf
  <2>2. peek(queue) = queue[1] /\ 1 \in 1 .. size
    BY <1>1, <1>2 DEF peek
  <2>3. pos_le(queue[k].pos, queue[1].pos)
    BY <1>1, <1>3, <2>1, <2>2
  <2>4. ~ pos_lt(queue[1].pos, queue[k].pos)
    BY <2>3 DEF pos_le
  <2>5. ~ (1 < k)
    BY <1>1, <2>2, <2>4 DEF Sorted
  <2>6. k = 1
    BY <1>1, <2>5
  <2> QED
    BY <2>1, <2>2, <2>6
<1>5. Listed' /\ queue' = dequeue(queue)
  BY <1>3, <1>4, QueueBecomes DEF Lists
<1>6. Abstract!TakeFirst
  BY <1>1, <1>2, <1>4, <1>5, SameQueues DEF Abstract!TakeFirst
<1> QED
  BY <1>5, <1>6

LEMMA NextListed ==
  ASSUME TypeOK, Order, Distinct, Listed, [Next]_vars
  PROVE  Listed' /\ [Abstract!Next]_(Abstract!vars)
<1>1. ASSUME NEW e \in Elem, Enqueue(e) PROVE Listed' /\ Abstract!Insert(e)
  <2>1. size \in Nat /\ size < Capacity
    BY <1>1, HeapAssumption DEF TypeOK, Enqueue
  <2> QED
    BY <1>1, <2>1, EnqueueContents, EnqueueListed
<1>2. CASE Dequeue
  <2>1. \A i \in 0 .. size - 1 : pos_le(root[0].pos, root[i].pos)
    BY <1>2, OrderedTreeRoot DEF Dequeue, Order, AwayFromHole
  <2> QED
    BY <1>2, <2>1, DequeueContents, DequeueListed DEF Abstract!Next
<1>3. CASE UpHeap \/ DownHeap \/ UNCHANGED vars
  <2>1. Contents' = Contents
    <3>1. CASE UNCHANGED vars
      BY <3>1 DEF vars, Contents
    <3>2. CASE UpHeap \/ DownHeap
      <4>1. ~ Dequeue /\ \A e \in Elem : ~ Enqueue(e)
        BY <3>2 DEF UpHeap, DownHeap, Dequeue, Enqueue
      <4> QED
        BY <4>1, NextContents
    <3> QED
      BY <1>3, <3>1, <3>2
  <2>2. size' = size /\ got' = got
    BY <1>3 DEF UpHeap, DownHeap, vars
  <2>3. Listed' /\ queue' = queue
    BY <2>1, <2>2 DEF Listed, queue
  <2> QED
    BY <2>2, <2>3 DEF Abstract!vars
<1> QED
  BY <1>1, <1>2, <1>3 DEF Next, Abstract!Next

LEMMA InitListed == Init => Listed /\ Abstract!Init
<1> SUFFICES ASSUME Init PROVE Listed /\ Abstract!Init
  OBVIOUS
<1>1. Contents = {} /\ size = 0 /\ got = NULL
  BY DEF Init, Contents
<1>2. <<>> \in Seq(Elem) /\ Sorted(<<>>) /\ ToSet(<<>>) = {} /\ Len(<<>>) = 0
  BY DEF Sorted, ToSet
<1>3. Lists(<<>>, Contents) /\ Len(<<>>) = size
  BY <1>1, <1>2 DEF Lists
<1>4. Listed
  BY <1>3 DEF Listed
<1>5. queue = <<>>
  BY <1>3, ListedOnce DEF queue
<1> QED
  BY <1>1, <1>4, <1>5 DEF Abstract!Init

(* The heap, taken as a whole, is the queue of module PriorityQueue, which *)
(* the models of the jobs use: the loops are steps that it does not see.   *)
THEOREM HeapImplementsPQueue == Spec => ImplementsPQueue
<1>1. Init => Distinct
  BY DEF Init, Distinct, Filled
<1>2. TypeOK /\ Distinct /\ [Next]_vars => Distinct'
  BY NextContents
<1>3. TypeOK /\ Order /\ Distinct /\ Listed /\ [Next]_vars => Listed' /\ [Abstract!Next]_(Abstract!vars)
  BY NextListed
<1> QED
  BY <1>1, <1>2, <1>3, InitListed, HeapInvariant, PTL DEF Spec, ImplementsPQueue
=============================================================================

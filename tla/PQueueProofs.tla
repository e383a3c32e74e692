---------------------------- MODULE PQueueProofs ----------------------------
(***************************************************************************)
(* What enqueue, peek and dequeue (module PQueue) do to the type, the      *)
(* length, the elements and the order of a queue.                          *)
(***************************************************************************)
EXTENDS PQueue, FiniteSetTheorems, WellFoundedInduction, TLAPS

(* The macro enqueue() always finds a place inside the queue.              *)
LEMMA PlaceOfRange ==
  ASSUME NEW q, NEW n \in Nat, Len(q) = n, NEW p
  PROVE  PlaceOf(q, p) \in 1 .. n + 1
<1> DEFINE C == {i \in 1..n : pos_le(q[i].pos, p)}
<1>1. IsFiniteSet(1..n) /\ Cardinality(1..n) = n
  BY FS_Interval
<1>2. IsFiniteSet(C) /\ Cardinality(C) <= n
  BY <1>1, FS_Subset
<1>3. Cardinality(C) \in Nat
  BY <1>2, FS_CardinalityType
<1> QED
  BY <1>2, <1>3 DEF PlaceOf

(* enqueue() adds one element of the queue's type.                         *)
LEMMA EnqueueType ==
  ASSUME NEW S, NEW q \in Seq(S), NEW e \in S
  PROVE  /\ enqueue(q, e) \in Seq(S)
         /\ Len(enqueue(q, e)) = Len(q) + 1
<1>1. PlaceOf(q, e.pos) \in 1 .. Len(q) + 1
  BY PlaceOfRange
<1> QED
  BY <1>1 DEF enqueue, InsertAt

(* dequeue() takes the head off a queue that is not empty.                 *)
LEMMA DequeueType ==
  ASSUME NEW S, NEW q \in Seq(S), q # <<>>
  PROVE  /\ peek(q) \in S
         /\ dequeue(q) \in Seq(S)
         /\ Len(dequeue(q)) = Len(q) - 1
         /\ Len(q) > 0
  BY DEF peek, dequeue

(***************************************************************************)
(* Positions.                                                              *)
(***************************************************************************)
LEMMA PosOrder ==
  ASSUME NEW a \in Position, NEW b \in Position, NEW c \in Position
  PROVE  /\ pos_le(a, a) /\ (pos_lt(a, b) <=> ~ pos_le(b, a))
         /\ pos_lt(a, b) => pos_le(a, b) /\ a # b
         /\ pos_le(a, b) => pos_lt(a, b) \/ a = b
         /\ pos_le(a, b) /\ pos_le(b, c) => pos_le(a, c)
         /\ pos_lt(a, b) /\ pos_le(b, c) => pos_lt(a, c)
         /\ pos_le(a, b) /\ pos_lt(b, c) => pos_lt(a, c)
  BY DEF Position, pos_le, pos_lt

(***************************************************************************)
(* The elements of a queue.                                                *)
(***************************************************************************)
LEMMA ToSetOf ==
  ASSUME NEW S, NEW q \in Seq(S)
  PROVE  /\ ToSet(q) \subseteq S /\ \A x : x \in ToSet(q) <=> \E j \in 1 .. Len(q) : q[j] = x
         /\ Len(q) \in Nat /\ \A j \in 1 .. Len(q) : q[j] \in S
  BY DEF ToSet

(* The element e is put at place m of q, and r is what comes of it.        *)
Inserted(r, q, m, e) ==
  /\ Len(r) = Len(q) + 1
  /\ \A j \in 1 .. Len(q) + 1 : r[j] = IF j < m THEN q[j] ELSE IF j = m THEN e ELSE q[j - 1]

(* Where the element goes, and what stays where it is.                     *)
LEMMA EnqueueShape ==
  ASSUME NEW S, NEW q \in Seq(S), NEW e \in S
  PROVE  /\ PlaceOf(q, e.pos) \in 1 .. Len(q) + 1
         /\ enqueue(q, e) \in Seq(S)
         /\ Inserted(enqueue(q, e), q, PlaceOf(q, e.pos), e)
<1> DEFINE n == Len(q)
           m == PlaceOf(q, e.pos)
           r == enqueue(q, e)
<1>1. n \in Nat /\ \A j \in 1 .. n : q[j] \in S
  OBVIOUS
<1>2. m \in 1 .. n + 1
  BY <1>1, PlaceOfRange
<1>3. /\ r \in Seq(S) /\ Len(r) = n + 1
      /\ \A j \in 1 .. n + 1 : r[j] = IF j < m THEN q[j] ELSE IF j = m THEN e ELSE q[j - 1]
  <2>1. r = InsertAt(q, m, e)
    BY DEF enqueue
  <2> HIDE DEF m, r
  <2> DEFINE a == SubSeq(q, 1, m - 1)
             c == SubSeq(q, m, n)
  <2>2. r = (a \o <<e>>) \o c
    BY <2>1 DEF InsertAt
  <2>3. a \in Seq(S) /\ Len(a) = m - 1 /\ \A j \in 1 .. m - 1 : a[j] = q[j]
    BY <1>1, <1>2
  <2>4. c \in Seq(S) /\ Len(c) = n + 1 - m /\ \A j \in 1 .. n + 1 - m : c[j] = q[m + j - 1]
    BY <1>1, <1>2
  <2> DEFINE d == a \o <<e>>
  <2> HIDE DEF a, c
  <2>10. d \in Seq(S) /\ Len(d) = m /\ d[m] = e /\ \A j \in 1 .. m - 1 : d[j] = q[j]
    BY <1>1, <1>2, <2>3
  <2>11. r = d \o c
    BY <2>2
  <2> HIDE DEF d
  <2>12. \A j \in 1 .. n + 1 : r[j] = IF j <= m THEN d[j] ELSE c[j - m]
    BY <1>1, <1>2, <2>4, <2>10, <2>11
  <2>5. r \in Seq(S) /\ Len(r) = n + 1
    <3>1. r \in Seq(S) /\ Len(r) = Len(d) + Len(c)
      BY <2>4, <2>10, <2>11
    <3> QED
      BY <1>1, <1>2, <2>4, <2>10, <3>1
  <2>6. ASSUME NEW j \in 1 .. n + 1, j < m PROVE r[j] = q[j]
    BY <1>1, <1>2, <2>6, <2>10, <2>12
  <2>7. r[m] = e
    BY <1>1, <1>2, <2>10, <2>12
  <2>8. ASSUME NEW j \in 1 .. n + 1, m < j PROVE r[j] = q[j - 1]
    <3>1. r[j] = c[j - m]
      BY <1>1, <1>2, <2>8, <2>12
    <3>2. j - m \in 1 .. n + 1 - m /\ m + (j - m) - 1 = j - 1
      BY <1>1, <1>2, <2>8
    <3> QED
      BY <2>4, <3>1, <3>2
  <2> QED
    BY <1>1, <1>2, <2>5, <2>6, <2>7, <2>8
<1> QED
  BY <1>2, <1>3 DEF Inserted

(* Nothing is lost, and nothing but the element comes in.                  *)
LEMMA EnqueuedSet ==
  ASSUME NEW S, NEW q \in Seq(S), NEW e \in S
  PROVE  ToSet(enqueue(q, e)) = ToSet(q) \cup {e}
<1> DEFINE n == Len(q)
           m == PlaceOf(q, e.pos)
           r == enqueue(q, e)
<1>1. n \in Nat /\ \A j \in 1 .. n : q[j] \in S /\ q[j] \in ToSet(q)
  BY ToSetOf
<1>2. m \in 1 .. n + 1
  BY EnqueueShape
<1>3. /\ r \in Seq(S) /\ Len(r) = n + 1
      /\ \A j \in 1 .. n + 1 : r[j] = IF j < m THEN q[j] ELSE IF j = m THEN e ELSE q[j - 1]
  <2>1. r \in Seq(S) /\ Inserted(r, q, m, e)
    BY EnqueueShape
  <2> HIDE DEF m, r
  <2> QED
    BY <2>1 DEF Inserted
<1> HIDE DEF m, r
<1>7. \A x : x \in ToSet(r) <=> \E j \in 1 .. n + 1 : r[j] = x
  BY <1>3, ToSetOf
<1>8. \A x : x \in ToSet(q) <=> \E j \in 1 .. n : q[j] = x
  BY ToSetOf
<1>9. \A x \in ToSet(r) : x \in ToSet(q) \cup {e}
  <2> SUFFICES ASSUME NEW j \in 1 .. n + 1 PROVE r[j] \in ToSet(q) \cup {e}
    BY <1>7
  <2>1. CASE j < m
    BY <1>1, <1>2, <1>3, <2>1
  <2>2. CASE j = m
    BY <1>3, <2>2
  <2>3. CASE m < j
    <3>1. j - 1 \in 1 .. n /\ r[j] = q[j - 1]
      BY <1>1, <1>2, <1>3, <2>3
    <3> QED
      BY <1>1, <3>1
  <2> QED
    BY <1>1, <1>2, <2>1, <2>2, <2>3
<1>10. \A x \in ToSet(q) \cup {e} : x \in ToSet(r)
  <2>1. e \in ToSet(r)
    BY <1>2, <1>3, <1>7
  <2>2. ASSUME NEW j \in 1 .. n PROVE q[j] \in ToSet(r)
    <3>1. CASE j < m
      BY <1>1, <1>3, <1>7, <3>1
    <3>2. CASE ~ j < m
      <4>1. j + 1 \in 1 .. n + 1 /\ ~ (j + 1 < m) /\ j + 1 # m /\ (j + 1) - 1 = j
        BY <1>1, <1>2, <3>2
      <4>2. r[j + 1] = q[j]
        BY <1>3, <4>1
      <4> QED
        BY <1>7, <4>1, <4>2
    <3> QED
      BY <3>1, <3>2
  <2> QED
    BY <1>8, <2>1, <2>2
<1> QED
  BY <1>9, <1>10 DEF r

(***************************************************************************)
(* Queues without two elements of one position.                            *)
(***************************************************************************)
Sorted(q) == \A i, j \in 1 .. Len(q) : i < j => pos_lt(q[i].pos, q[j].pos)

(* The place that the macro enqueue() finds in a sorted queue is behind    *)
(* all that is before the position, and before all the rest.               *)
LEMMA PlaceSplits ==
  ASSUME NEW q, NEW n \in Nat, Len(q) = n, Sorted(q),
         \A j \in 1 .. n : q[j].pos \in Position, NEW p \in Position
  PROVE  /\ PlaceOf(q, p) \in 1 .. n + 1
         /\ \A j \in 1 .. n : j < PlaceOf(q, p) <=> pos_le(q[j].pos, p)
<1> DEFINE C == {j \in 1 .. n : pos_le(q[j].pos, p)}
           Others == {j \in 1 .. n + 1 : j \notin C}
<1>1. n + 1 \in Others /\ Others \subseteq Nat
  OBVIOUS
<1>2. PICK m \in Others : \A k \in Others : ~ (<<k, m>> \in OpToRel(<, Nat))
  <2>1. IsWellFoundedOn(OpToRel(<, Nat), Nat)
    BY NatLessThanWellFounded
  <2> HIDE DEF Others
  <2> QED
    BY <1>1, <2>1, WFMin
<1>3. \A k \in Others : ~ (k < m)
  BY <1>1, <1>2 DEF OpToRel
<1>4. m \in 1 .. n + 1 /\ m \notin C
  BY <1>2
<1>5. ASSUME NEW j \in C PROVE j < m
  <2> SUFFICES ASSUME ~ (j < m) PROVE FALSE
    OBVIOUS
  <2>1. j \in 1 .. n /\ m \in 1 .. n /\ m < j
    BY <1>4, <1>5
  <2>2. pos_lt(q[m].pos, q[j].pos)
    BY <2>1 DEF Sorted
  <2>3. pos_le(q[m].pos, p)
    BY <2>1, <2>2, PosOrder
  <2> QED
    BY <1>4, <2>1, <2>3
<1>6. C = 1 .. m - 1
  <2>1. \A j \in 1 .. m - 1 : j \in C
    BY <1>3, <1>4
  <2>2. \A j \in C : j \in 1 .. m - 1
    BY <1>4, <1>5
  <2> QED
    BY <2>1, <2>2
<1>7. m - 1 \in Nat
  BY <1>4
<1>8. Cardinality(C) = m - 1
  <2>1. 1 \in Int /\ m - 1 \in Int
    BY <1>7
  <2>2. Cardinality(1 .. m - 1) = IF 1 > m - 1 THEN 0 ELSE (m - 1) - 1 + 1
    BY <2>1, FS_Interval, Zenon
  <2> HIDE DEF C
  <2> QED
    BY <1>6, <1>7, <2>2
<1>9. PlaceOf(q, p) = m
  BY <1>4, <1>8 DEF PlaceOf
<1> QED
  BY <1>4, <1>5, <1>6, <1>9

(* Elements of different positions stay sorted.                            *)
LEMMA EnqueueSorted ==
  ASSUME NEW S, \A x \in S : x.pos \in Position, NEW q \in Seq(S), NEW e \in S, Sorted(q),
         \A x \in ToSet(q) : x.pos # e.pos
  PROVE  Sorted(enqueue(q, e)) /\ ToSet(enqueue(q, e)) = ToSet(q) \cup {e}
<1> DEFINE n == Len(q)
           m == PlaceOf(q, e.pos)
           r == enqueue(q, e)
<1>1. n \in Nat /\ \A j \in 1 .. n : q[j] \in S /\ q[j] \in ToSet(q)
  BY ToSetOf
<1>2. /\ m \in 1 .. n + 1
      /\ \A j \in 1 .. n : j < m <=> pos_le(q[j].pos, e.pos)
  BY <1>1, PlaceSplits
<1>3. /\ r \in Seq(S) /\ Len(r) = n + 1
      /\ \A j \in 1 .. n + 1 : r[j] = IF j < m THEN q[j] ELSE IF j = m THEN e ELSE q[j - 1]
  <2>1. r \in Seq(S) /\ Inserted(r, q, m, e)
    BY EnqueueShape
  <2> HIDE DEF m, r
  <2> QED
    BY <2>1 DEF Inserted
<1> HIDE DEF m, r
<1>4. ASSUME NEW j \in 1 .. n PROVE (j < m => pos_lt(q[j].pos, e.pos)) /\ (~ j < m => pos_lt(e.pos, q[j].pos))
  <2>1. q[j].pos \in Position /\ e.pos \in Position /\ q[j].pos # e.pos
    BY <1>1
  <2> QED
    BY <1>2, <2>1, PosOrder
<1>5. ASSUME NEW j \in 1 .. n + 1, NEW k \in 1 .. n + 1, j < k PROVE pos_lt(r[j].pos, r[k].pos)
  <2>1. CASE j < m /\ k < m
    <3>1. j \in 1 .. n /\ k \in 1 .. n /\ r[j] = q[j] /\ r[k] = q[k]
      BY <1>1, <1>2, <1>3, <2>1
    <3> QED
      BY <1>5, <3>1 DEF Sorted
  <2>2. CASE j < m /\ k = m
    BY <1>1, <1>2, <1>3, <1>4, <2>2
  <2>3. CASE j < m /\ m < k
    <3>1. j \in 1 .. n /\ k - 1 \in 1 .. n /\ j < k - 1
      BY <1>1, <1>2, <2>3
    <3>2. r[j] = q[j] /\ r[k] = q[k - 1]
      BY <1>2, <1>3, <2>3
    <3> QED
      BY <3>1, <3>2 DEF Sorted
  <2>4. CASE j = m
    <3>1. k - 1 \in 1 .. n /\ ~ (k - 1 < m) /\ ~ (k < m) /\ k # m
      BY <1>1, <1>2, <1>5, <2>4
    <3>2. r[j] = e /\ r[k] = q[k - 1]
      BY <1>2, <1>3, <2>4, <3>1
    <3> QED
      BY <1>4, <3>1, <3>2
  <2>5. CASE m < j
    <3>1. j - 1 \in 1 .. n /\ k - 1 \in 1 .. n /\ j - 1 < k - 1 /\ ~ (j < m) /\ j # m /\ ~ (k < m) /\ k # m
      BY <1>1, <1>2, <1>5, <2>5
    <3>2. r[j] = q[j - 1] /\ r[k] = q[k - 1]
      BY <1>3, <3>1
    <3> QED
      BY <3>1, <3>2 DEF Sorted
  <2> QED
    BY <1>1, <1>2, <1>5, <2>1, <2>2, <2>3, <2>4, <2>5
<1>6. Sorted(r)
  BY <1>3, <1>5 DEF Sorted
<1>7. ToSet(r) = ToSet(q) \cup {e}
  BY EnqueuedSet DEF r
<1> QED
  BY <1>6, <1>7 DEF r

(* The head of a sorted queue is its least element, and leaves it alone.   *)
LEMMA DequeueSorted ==
  ASSUME NEW S, \A x \in S : x.pos \in Position, NEW q \in Seq(S), Sorted(q), q # <<>>
  PROVE  /\ peek(q) \in ToSet(q) /\ Sorted(dequeue(q))
         /\ ToSet(dequeue(q)) = ToSet(q) \ {peek(q)}
         /\ \A x \in ToSet(q) : pos_le(peek(q).pos, x.pos)
<1> DEFINE n == Len(q)
           r == dequeue(q)
<1>1. n \in Nat \ {0} /\ \A j \in 1 .. n : q[j] \in S
  BY ToSetOf
<1>2. r \in Seq(S) /\ Len(r) = n - 1 /\ peek(q) = q[1] /\ \A j \in 1 .. n - 1 : r[j] = q[j + 1]
  BY <1>1 DEF dequeue, peek
<1> HIDE DEF r
<1>3. \A x : x \in ToSet(q) <=> \E j \in 1 .. n : q[j] = x
  BY ToSetOf
<1>4. \A x : x \in ToSet(r) <=> \E j \in 1 .. n - 1 : r[j] = x
  BY <1>2, ToSetOf
<1>5. \A j \in 2 .. n : pos_lt(q[1].pos, q[j].pos) /\ q[1] # q[j]
  <2> SUFFICES ASSUME NEW j \in 2 .. n PROVE pos_lt(q[1].pos, q[j].pos) /\ q[1] # q[j]
    OBVIOUS
  <2>1. pos_lt(q[1].pos, q[j].pos)
    BY <1>1 DEF Sorted
  <2>2. q[1].pos \in Position
    BY <1>1
  <2> QED
    BY <2>1, <2>2, PosOrder
<1>6. Sorted(r)
  <2> SUFFICES ASSUME NEW j \in 1 .. n - 1, NEW k \in 1 .. n - 1, j < k PROVE pos_lt(r[j].pos, r[k].pos)
    BY <1>2 DEF Sorted
  <2>1. j + 1 \in 1 .. n /\ k + 1 \in 1 .. n /\ j + 1 < k + 1
    BY <1>1
  <2> QED
    BY <1>2, <2>1 DEF Sorted
<1>7. ToSet(r) = ToSet(q) \ {q[1]}
  <2>1. ASSUME NEW j \in 1 .. n - 1 PROVE r[j] \in ToSet(q) \ {q[1]}
    <3>1. j + 1 \in 2 .. n /\ j + 1 \in 1 .. n
      BY <1>1
    <3> QED
      BY <1>2, <1>3, <1>5, <3>1
  <2>2. ASSUME NEW j \in 1 .. n, q[j] # q[1] PROVE q[j] \in ToSet(r)
    <3>1. j - 1 \in 1 .. n - 1 /\ (j - 1) + 1 = j
      BY <1>1, <2>2
    <3> QED
      BY <1>2, <1>4, <3>1
  <2> QED
    BY <1>3, <1>4, <2>1, <2>2
<1>8. \A x \in ToSet(q) : pos_le(q[1].pos, x.pos)
  <2> SUFFICES ASSUME NEW j \in 1 .. n PROVE pos_le(q[1].pos, q[j].pos)
    BY <1>3
  <2>1. q[1].pos \in Position /\ q[j].pos \in Position
    BY <1>1
  <2> QED
    BY <1>5, <2>1, PosOrder
<1> QED
  BY <1>1, <1>2, <1>3, <1>6, <1>7, <1>8 DEF r
=============================================================================

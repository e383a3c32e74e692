-------------------------------- MODULE Bwt --------------------------------
(***************************************************************************)
(* The Burrows-Wheeler transform and its inverse.                          *)
(*                                                                         *)
(* divbwt.c sorts the rotations of a block T.  A rotation is of type B if  *)
(* it is before the one that starts a character later, else of type A, and *)
(* of type B-star if it is of type B and the next one is of type A.  Only  *)
(* those of type B-star are sorted; the order of all others is found from  *)
(* them, in two passes over the array SA.  sssort() and trsort(), which do *)
(* the sorting, are taken by what they promise.                            *)
(*                                                                         *)
(* Positions, in T and in SA, start at 0.  An element s of SA that is      *)
(* marked, in the code by its complement, is negative here too.            *)
(***************************************************************************)
EXTENDS Util

Mark(s) == - s - 1
Unmark(s) == - s - 1

Text(block) == [i \in 0 .. Len(block) - 1 |-> block[i + 1]]
After(T, i) == (i + 1) % Size(T)
Before(T, i) == (i - 1) % Size(T)

(***************************************************************************)
(* sort_typeBstar().                                                       *)
(***************************************************************************)
(* flag: the first character that differs from its neighbour is smaller.   *)
Ascends(T) ==
  \A i \in 1 .. Size(T) - 1 :
    (T[i - 1] > T[i]) => \E j \in 1 .. i - 1 : T[j - 1] # T[j]

(* Which positions are of type B; the others are of type A.                *)
TypeB(T) ==
  LET n == Size(T)
      B[i \in 0 .. n - 1] ==
        IF i = n - 1 THEN T[i] < T[0] \/ (T[i] = T[0] /\ Ascends(T))
        ELSE T[i] < T[i + 1] \/ (T[i] = T[i + 1] /\ B[i + 1])
  IN Value({i \in 0 .. n - 1 : B[i]})

TypeBstar(T, B) == {i \in B : After(T, i) \notin B}

(* The rotation at i is before that at j; equal ones in any order.         *)
Precedes(T, i, j) ==
  LET At(k, d) == T[(k + d) % Size(T)]
      differ == {d \in 0 .. Size(T) - 1 : At(i, d) # At(j, d)}
  IN IF differ = {} THEN i < j ELSE LET d == CHOOSE d \in differ : \A e \in differ : d <= e
                                   IN At(i, d) < At(j, d)

(* sssort() and trsort() together.                                         *)
Sorted(T, S) ==
  Value(SortSeq(SelectSeq([i \in 1 .. Size(T) |-> i - 1], LAMBDA i : i \in S),
                LAMBDA i, j : Precedes(T, i, j)))

(* The bucket of the rotations that begin with c0, and in it those of type *)
(* A, then those of type B with c0, then with each larger c1 those of type *)
(* B-star before the others.                                               *)
Begin(T, c0) == Cardinality({i \in DOMAIN T : T[i] < c0})
BeginB(T, B, c0) == Begin(T, c0) + Cardinality({i \in DOMAIN T \ B : T[i] = c0})
EndB(T, B, c0, c1) == BeginB(T, B, c0) + Cardinality({i \in B : T[i] = c0 /\ T[After(T, i)] <= c1}) - 1

(* SA when the rotations of type B-star are in their places.  The mark     *)
(* says that the rotation before is of type A.                             *)
sort_typeBstar(T, B) ==
  LET star == TypeBstar(T, B)
      sorted == Sorted(T, star)
      bucket(i) == <<T[i], T[After(T, i)]>>
      place(i) == EndB(T, B, bucket(i)[1], bucket(i)[2])
                    - Cardinality({j \in B \ star : bucket(j) = bucket(i)})
                    - Cardinality({k \in DOMAIN sorted : /\ bucket(sorted[k]) = bucket(i)
                                                         /\ \E l \in 1 .. k - 1 : sorted[l] = i})
      At(p) == CHOOSE i \in star : place(i) = p
  IN [p \in DOMAIN T |->
        IF \A i \in star : place(i) # p THEN 0
        ELSE IF Before(T, At(p)) \in B THEN At(p) ELSE Mark(At(p))]

(***************************************************************************)
(* construct_BWT().                                                        *)
(***************************************************************************)
(* From right to left: an element gives place to the rotation before it,   *)
(* of type B; what is left of it is the character before it.               *)
FromRight(T, a, j) ==
  LET s == a.SA[j]
      t == Before(T, s)
      k == a.end[T[t]]
  IN IF s < 0 THEN [a EXCEPT !.SA[j] = Unmark(s)]
     ELSE Value([
           SA |-> [a.SA EXCEPT ![j] = Mark(T[t]),
                               ![k] = IF T[Before(T, t)] > T[t] THEN Mark(t) ELSE t],
           end |-> [a.end EXCEPT ![T[t]] = k - 1],
           orig |-> IF s = 0 THEN j ELSE a.orig])

SortB(T, B, a, c1) ==
  LET from == BeginB(T, B, c1)
      to == Begin(T, c1 + 1) - 1
      end == Value([c0 \in 0 .. c1 |-> EndB(T, B, c0, c1)])
  IN FoldLeft(LAMBDA b, i : FromRight(T, b, to + from - i), [a EXCEPT !.end = end],
              [k \in 1 .. to - from + 1 |-> from + k - 1])

(* From left to right: the same for the rotations of type A.               *)
FromLeft(T, a, i) ==
  LET s == a.SA[i]
      t == Before(T, s)
      k == a.end[T[t]]
      c1 == T[Before(T, t)]
  IN IF s < 0 THEN [a EXCEPT !.SA[i] = Unmark(s)]
     ELSE Value([
           SA |-> [a.SA EXCEPT ![i] = T[t], ![k] = IF c1 < T[t] THEN Mark(c1) ELSE t],
           end |-> [a.end EXCEPT ![T[t]] = k + 1],
           orig |-> IF t = 0 THEN k ELSE IF s = 0 THEN i ELSE a.orig])

construct_BWT(T, SA, B) ==
  LET top == CHOOSE c \in Range(T) : \A d \in Range(T) : d <= c
      right == FoldLeft(LAMBDA a, i : SortB(T, B, a, top - i), [SA |-> SA, end |-> <<>>, orig |-> -10],
                        [i \in 1 .. top |-> i])
      left == FoldLeft(LAMBDA a, i : FromLeft(T, a, i - 1),
                       [right EXCEPT !.end = [c \in 0 .. top |-> Begin(T, c)]],
                       [i \in 1 .. Size(T) |-> i])
  IN [bwt |-> [i \in 1 .. Size(T) |-> left.SA[i - 1]], idx |-> left.orig]

divbwt(block) ==
  LET T == Value(Text(block))
      B == TypeB(T)
  IN IF TypeBstar(T, B) = {} THEN [bwt |-> [i \in DOMAIN block |-> block[1]], idx |-> 0]
     ELSE construct_BWT(T, Value(sort_typeBstar(T, B)), B)
=============================================================================

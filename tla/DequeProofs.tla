---------------------------- MODULE DequeProofs ----------------------------
(***************************************************************************)
(* The ring buffer of module Deque implements a sequence, for every        *)
(* capacity: proofs.                                                       *)
(***************************************************************************)
EXTENDS Deque, SequenceTheorems, TLAPS

(* min() on unsigned integers reduces an index that has run over the end.  *)
LEMMA Reduced ==
  ASSUME NEW m \in Moduli, NEW h \in 0 .. m - 1, NEW i \in 0 .. m
  PROVE  min(Wrap(h + i), Wrap(Wrap(h + i) - m)) = IF h + i < m THEN h + i ELSE h + i - m
  BY DequeAssumption DEF Wrap, min

(* The index of the i-th element, without the unsigned arithmetic; before  *)
(* and after a step.                                                       *)
LEMMA PlaceValue ==
  ASSUME TypeOK, NEW i \in 0 .. modulus
  PROVE  /\ Place(i) = IF head + i < modulus THEN head + i ELSE head + i - modulus
         /\ Place(i) \in 0 .. modulus - 1
<1>1. modulus \in Moduli /\ modulus \in Nat /\ head \in 0 .. modulus - 1
  BY DequeAssumption DEF TypeOK
<1>2. Place(i) = IF head + i < modulus THEN head + i ELSE head + i - modulus
  BY <1>1, Reduced DEF Place
<1> QED
  BY <1>1, <1>2

LEMMA PlaceValueNext ==
  ASSUME TypeOK', NEW i \in 0 .. modulus'
  PROVE  Place(i)' = IF head' + i < modulus' THEN head' + i ELSE head' + i - modulus'
<1>1. modulus' \in Moduli /\ head' \in 0 .. modulus' - 1
  BY DEF TypeOK
<1> QED
  BY <1>1, Reduced DEF Place

(* The place before the head.                                              *)
LEMMA PlaceBefore ==
  ASSUME TypeOK
  PROVE  min(Wrap(head - 1), Wrap(Wrap(head - 1) + modulus))
           = IF head = 0 THEN modulus - 1 ELSE head - 1
  BY DequeAssumption DEF TypeOK, Wrap, min

(* Two elements never share a place.                                       *)
LEMMA PlaceInjective ==
  ASSUME TypeOK, NEW i \in 1 .. modulus, NEW k \in 1 .. modulus, Place(i) = Place(k)
  PROVE  i = k
<1>1. modulus \in Nat /\ head \in 0 .. modulus - 1
  BY DequeAssumption DEF TypeOK
<1>2. /\ Place(i) = IF head + i < modulus THEN head + i ELSE head + i - modulus
      /\ Place(k) = IF head + k < modulus THEN head + k ELSE head + k - modulus
  BY <1>1, PlaceValue
<1>3. \A m \in Nat : \A h \in 0 .. m - 1 : \A x, y \in 1 .. m :
        (IF h + x < m THEN h + x ELSE h + x - m) = (IF h + y < m THEN h + y ELSE h + y - m)
          => x = y
  OBVIOUS
<1> QED
  BY <1>1, <1>2, <1>3, Zenon

LEMMA ContentsType ==
  ASSUME TypeOK
  PROVE  contents \in Seq(Elem) /\ Len(contents) = size
<1>1. size \in Nat /\ modulus \in Nat /\ 1 .. size \subseteq 0 .. modulus
  BY DequeAssumption DEF TypeOK
<1>2. ASSUME NEW i \in 1 .. size PROVE root[Place(i)] \in Elem
  <2>1. Place(i) \in 0 .. modulus - 1
    BY <1>1, PlaceValue
  <2> QED
    BY <2>1 DEF TypeOK
<1> QED
  BY <1>1, <1>2, IsASeq DEF contents

LEMMA NextType == TypeOK /\ [Next]_vars => TypeOK'
<1> SUFFICES ASSUME TypeOK, [Next]_vars PROVE TypeOK'
  OBVIOUS
<1> modulus \in Nat \ {0}
  BY DequeAssumption DEF TypeOK
<1>1. ASSUME NEW e \in Elem, unshift(e) PROVE TypeOK'
  BY <1>1, PlaceBefore DEF TypeOK, unshift
<1>2. ASSUME NEW e \in Elem, push(e) PROVE TypeOK'
  BY <1>2, PlaceValue DEF TypeOK, push
<1>3. ASSUME NEW i \in 0 .. modulus - 1, dq_get(i) PROVE TypeOK'
  <2>1. Place(i + 1) \in 0 .. modulus - 1
    BY PlaceValue
  <2> QED
    BY <1>3, <2>1 DEF TypeOK, dq_get
<1>4. ASSUME NEW i \in 0 .. modulus - 1, NEW e \in Elem, dq_set(i, e) PROVE TypeOK'
  BY <1>4 DEF TypeOK, dq_set
<1>5. CASE shift
  <2>1. Place(1) \in 0 .. modulus - 1
    BY PlaceValue
  <2> QED
    BY <1>5, <2>1 DEF TypeOK, shift
<1>6. CASE pop
  <2>1. size' + 1 \in 0 .. modulus
    BY <1>6 DEF TypeOK, pop
  <2>2. Place(size' + 1) \in 0 .. modulus - 1
    BY <2>1, PlaceValue
  <2> QED
    BY <1>6, <2>2 DEF TypeOK, pop
<1>7. CASE UNCHANGED vars
  BY <1>7 DEF TypeOK, vars
<1> QED
  BY <1>1, <1>2, <1>3, <1>4, <1>5, <1>6, <1>7 DEF Next

(***************************************************************************)
(* Each operation, on the sequence it stands for.                          *)
(***************************************************************************)
LEMMA PushStep ==
  ASSUME TypeOK, NEW e \in Elem, push(e)
  PROVE  Abstract!Insert
<1>1. /\ size \in Nat /\ modulus \in Nat /\ size < modulus /\ head \in 0 .. modulus - 1
      /\ root \in [0 .. modulus - 1 -> Elem]
  BY DequeAssumption DEF TypeOK, push
<1>2. TypeOK' /\ modulus' = modulus /\ head' = head /\ size' = size + 1 /\ got' = got
  BY NextType DEF Next, push
<1>3. \A i \in 1 .. size + 1 : Place(i)' = Place(i)
  BY <1>2 DEF Place
<1>4. /\ Place(size + 1) \in 0 .. modulus - 1
      /\ root' = [root EXCEPT ![Place(size + 1)] = e]
  <2>1. size + 1 \in 0 .. modulus
    BY <1>1
  <2> QED
    BY <2>1, <1>2, PlaceValue DEF push
<1>5. ASSUME NEW i \in 1 .. size PROVE root'[Place(i)] = root[Place(i)]
  <2>1. Place(i) \in 0 .. modulus - 1 /\ Place(i) # Place(size + 1)
    <3>1. i \in 1 .. modulus /\ size + 1 \in 1 .. modulus /\ i # size + 1 /\ i \in 0 .. modulus
      BY <1>1
    <3> QED
      BY <3>1, PlaceValue, PlaceInjective
  <2> QED
    BY <2>1, <1>1, <1>4
<1>6. contents' = Append(contents, e)
  <2>1. contents \in Seq(Elem) /\ Len(contents) = size
    BY ContentsType
  <2>2. contents' = [i \in 1 .. size + 1 |-> root'[Place(i)]]
    BY <1>2, <1>3 DEF contents
  <2>3. Append(contents, e) = [i \in 1 .. size + 1 |-> IF i = size + 1 THEN e ELSE contents[i]]
    BY <2>1, <1>1
  <2>4. ASSUME NEW i \in 1 .. size + 1
        PROVE  root'[Place(i)] = IF i = size + 1 THEN e ELSE contents[i]
    <3>1. CASE i = size + 1
      BY <3>1, <1>4, <1>1
    <3>2. CASE i \in 1 .. size
      BY <3>2, <1>5, <1>1 DEF contents
    <3> QED
      BY <3>1, <3>2, <1>1
  <2> QED
    BY <2>2, <2>3, <2>4
<1> QED
  BY <1>1, <1>2, <1>6, ContentsType DEF Abstract!Insert

LEMMA UnshiftStep ==
  ASSUME TypeOK, NEW e \in Elem, unshift(e)
  PROVE  Abstract!Insert
<1>1. /\ size \in Nat /\ modulus \in Nat /\ size < modulus /\ head \in 0 .. modulus - 1
      /\ root \in [0 .. modulus - 1 -> Elem]
  BY DequeAssumption DEF TypeOK, unshift
<1>2. /\ TypeOK' /\ modulus' = modulus /\ size' = size + 1 /\ got' = got
      /\ head' = (IF head = 0 THEN modulus - 1 ELSE head - 1)
      /\ root' = [root EXCEPT ![head] = e]
  BY NextType, PlaceBefore DEF Next, unshift
<1>3. ASSUME NEW i \in 1 .. size + 1
      PROVE  /\ i = 1 => Place(i)' = head
             /\ i # 1 => i - 1 \in 1 .. size /\ Place(i)' = Place(i - 1) /\ Place(i - 1) # head
                         /\ Place(i - 1) \in 0 .. modulus - 1
  <2>1. i \in 0 .. modulus' /\ i - 1 \in 0 .. modulus
    BY <1>1, <1>2
  <2>2. Place(i)' = IF head' + i < modulus' THEN head' + i ELSE head' + i - modulus'
    BY <1>2, <2>1, PlaceValueNext
  <2>3. /\ Place(i)' = IF head' + i < modulus THEN head' + i ELSE head' + i - modulus
        /\ Place(i - 1) = IF head + (i - 1) < modulus THEN head + (i - 1)
                                                     ELSE head + (i - 1) - modulus
    BY <1>2, <2>1, <2>2, PlaceValue
  <2> QED
    BY <1>1, <1>2, <2>3
<1>4. contents' = <<e>> \o contents
  <2>1. contents \in Seq(Elem) /\ Len(contents) = size
    BY ContentsType
  <2>2. contents' = [i \in 1 .. size + 1 |-> root'[Place(i)']]
    BY <1>2 DEF contents
  <2>3. <<e>> \o contents = [i \in 1 .. size + 1 |-> IF i = 1 THEN e ELSE contents[i - 1]]
    BY <2>1, <1>1
  <2>4. ASSUME NEW i \in 1 .. size + 1
        PROVE  root'[Place(i)'] = IF i = 1 THEN e ELSE contents[i - 1]
    BY <1>1, <1>2, <1>3 DEF contents
  <2> QED
    BY <2>2, <2>3, <2>4
<1> QED
  BY <1>1, <1>2, <1>4, ContentsType DEF Abstract!Insert

LEMMA TailShifts ==
  ASSUME NEW S, NEW s \in Seq(S), s # <<>>
  PROVE  Tail(s) = [i \in 1 .. Len(s) - 1 |-> s[i + 1]]
<1> DEFINE t == [i \in 1 .. Len(s) - 1 |-> s[i + 1]]
<1>1. /\ Tail(s) \in Seq(S) /\ Len(Tail(s)) = Len(s) - 1
      /\ \A i \in 1 .. Len(s) - 1 : Tail(s)[i] = s[i + 1]
  BY HeadTailProperties
<1>2. Len(s) - 1 \in Nat /\ \A i \in 1 .. Len(s) - 1 : s[i + 1] \in S
  OBVIOUS
<1>3. t \in Seq(S) /\ Len(t) = Len(s) - 1
  BY <1>2, IsASeq
<1>4. \A i \in 1 .. Len(s) - 1 : t[i] = s[i + 1]
  OBVIOUS
<1> QED
  BY <1>1, <1>3, <1>4, SeqEqual

LEMMA ShiftStep ==
  ASSUME TypeOK, shift
  PROVE  Abstract!RemoveFirst
<1>1. /\ size \in Nat /\ modulus \in Nat /\ 0 < size /\ size <= modulus
      /\ head \in 0 .. modulus - 1
  BY DequeAssumption DEF TypeOK, shift
<1>2. /\ TypeOK' /\ modulus' = modulus /\ size' = size - 1 /\ root' = root
      /\ head' = Place(1) /\ got' = root[Place(1)]
  BY NextType DEF Next, shift
<1>3. ASSUME NEW i \in 1 .. size - 1
      PROVE  i + 1 \in 1 .. size /\ Place(i)' = Place(i + 1)
  <2>1. i \in 0 .. modulus' /\ i + 1 \in 0 .. modulus /\ 1 \in 0 .. modulus
    BY <1>1, <1>2
  <2>2. Place(i)' = IF head' + i < modulus' THEN head' + i ELSE head' + i - modulus'
    BY <1>2, <2>1, PlaceValueNext
  <2>3. /\ Place(i)' = IF head' + i < modulus THEN head' + i ELSE head' + i - modulus
        /\ head' = IF head + 1 < modulus THEN head + 1 ELSE head + 1 - modulus
        /\ Place(i + 1) = IF head + (i + 1) < modulus THEN head + (i + 1)
                                                     ELSE head + (i + 1) - modulus
    BY <1>2, <2>1, <2>2, PlaceValue
  <2> QED
    BY <1>1, <2>3
<1>4. contents \in Seq(Elem) /\ Len(contents) = size /\ contents # <<>>
  BY <1>1, ContentsType
<1>5. contents' = Tail(contents)
  <2>1. contents' = [i \in 1 .. size - 1 |-> root[Place(i)']]
    BY <1>2 DEF contents
  <2>2. \A i \in 1 .. size - 1 : root[Place(i)'] = contents[i + 1]
    BY <1>3 DEF contents
  <2>3. contents' = [i \in 1 .. size - 1 |-> contents[i + 1]]
    BY <2>1, <2>2
  <2> QED
    BY <1>4, <2>3, TailShifts
<1>6. got' = contents[1]
  BY <1>1, <1>2 DEF contents
<1> QED
  BY <1>2, <1>4, <1>5, <1>6 DEF Abstract!RemoveFirst

LEMMA PopStep ==
  ASSUME TypeOK, pop
  PROVE  Abstract!RemoveLast
<1>1. /\ size \in Nat /\ modulus \in Nat /\ 0 < size /\ size <= modulus
  BY DequeAssumption DEF TypeOK, pop
<1>2. /\ modulus' = modulus /\ size' = size - 1 /\ root' = root /\ head' = head
      /\ got' = root[Place(size)]
  <2>1. size' = size - 1 /\ size' + 1 = size
    BY <1>1 DEF pop
  <2> QED
    BY <2>1 DEF pop
<1>3. contents \in Seq(Elem) /\ Len(contents) = size /\ contents # <<>>
  BY <1>1, ContentsType
<1>4. contents' = SubSeq(contents, 1, size - 1)
  <2>1. contents' = [i \in 1 .. size - 1 |-> root[Place(i)]]
    BY <1>2 DEF contents, Place
  <2>2. SubSeq(contents, 1, size - 1) = [i \in 1 .. size - 1 |-> contents[i]]
    BY <1>1, <1>3
  <2>3. \A i \in 1 .. size - 1 : root[Place(i)] = contents[i]
    BY <1>1 DEF contents
  <2> QED
    BY <2>1, <2>2, <2>3
<1>5. got' = contents[size]
  BY <1>1, <1>2 DEF contents
<1> QED
  BY <1>2, <1>3, <1>4, <1>5 DEF Abstract!RemoveLast

LEMMA GetStep ==
  ASSUME TypeOK, NEW k \in 0 .. modulus - 1, dq_get(k)
  PROVE  Abstract!Get
<1>1. size \in Nat /\ k < size /\ k + 1 \in 1 .. size
  BY DequeAssumption DEF TypeOK, dq_get
<1>2. Len(contents) = size /\ got' = contents[k + 1]
  BY <1>1, ContentsType DEF dq_get, contents
<1>3. contents' = contents /\ modulus' = modulus
  BY DEF dq_get, contents, Place
<1> QED
  BY <1>1, <1>2, <1>3 DEF Abstract!Get

LEMMA SetStep ==
  ASSUME TypeOK, NEW k \in 0 .. modulus - 1, NEW e \in Elem, dq_set(k, e)
  PROVE  Abstract!Set
<1>1. /\ size \in Nat /\ modulus \in Nat /\ size <= modulus /\ k + 1 \in 1 .. size
      /\ root \in [0 .. modulus - 1 -> Elem]
  BY DequeAssumption DEF TypeOK, dq_set
<1>2. contents \in Seq(Elem) /\ Len(contents) = size
  BY ContentsType
<1>3. contents' = [contents EXCEPT ![k + 1] = e]
  <2>1. contents' = [i \in 1 .. size |-> root'[Place(i)]]
    BY DEF contents, dq_set, Place
  <2>2. ASSUME NEW i \in 1 .. size
        PROVE  root'[Place(i)] = IF i = k + 1 THEN e ELSE root[Place(i)]
    <3>1. /\ i \in 1 .. modulus /\ i \in 0 .. modulus
          /\ k + 1 \in 1 .. modulus /\ k + 1 \in 0 .. modulus
      BY <1>1
    <3>2. /\ Place(i) \in 0 .. modulus - 1 /\ Place(k + 1) \in 0 .. modulus - 1
          /\ i # k + 1 => Place(i) # Place(k + 1)
      BY <3>1, PlaceValue, PlaceInjective
    <3> QED
      BY <3>2, <1>1 DEF dq_set
  <2>3. [contents EXCEPT ![k + 1] = e] = [i \in 1 .. size |-> IF i = k + 1 THEN e ELSE contents[i]]
    BY <1>1, <1>2 DEF contents
  <2> QED
    BY <2>1, <2>2, <2>3 DEF contents
<1>4. modulus' = modulus /\ got' = got
  BY DEF dq_set
<1> QED
  BY <1>1, <1>2, <1>3, <1>4 DEF Abstract!Set

(***************************************************************************)
(* The theorems.                                                           *)
(***************************************************************************)
(* No index of the ring buffer ever lies outside of it.                    *)
THEOREM DequeInRange == Spec => []TypeOK
<1>1. Init => TypeOK
  BY DequeAssumption DEF Init, TypeOK
<1> QED
  BY <1>1, NextType, PTL DEF Spec

(* The deque macros of process.h implement a sequence, for every capacity  *)
(* and wherever in the ring its head is.                                   *)
THEOREM DequeIsSequence == Spec => ImplementsSequence
<1>1. Init => Abstract!Init
  <2> SUFFICES ASSUME Init PROVE Abstract!Init
    OBVIOUS
  <2>1. contents = <<>>
    BY DEF Init, contents
  <2> QED
    BY <2>1, DequeAssumption DEF Init, Abstract!Init
<1>2. TypeOK /\ [Next]_vars => [Abstract!Next]_(Abstract!vars)
  <2> SUFFICES ASSUME TypeOK, [Next]_vars PROVE [Abstract!Next]_(Abstract!vars)
    OBVIOUS
  <2>1. CASE UNCHANGED vars
    BY <2>1 DEF vars, Abstract!vars, contents, Place
  <2> QED
    BY <2>1, PushStep, UnshiftStep, ShiftStep, PopStep, GetStep, SetStep DEF Next, Abstract!Next
<1> QED
  BY <1>1, <1>2, DequeInRange, PTL DEF Spec, ImplementsSequence
=============================================================================

------------------------------- MODULE Deque -------------------------------
(***************************************************************************)
(* The double-ended queue of process.h: a ring buffer whose head is the    *)
(* place before the first element.  The code never divides: an index that  *)
(* may have run over the end is reduced by                                 *)
(*                                                                         *)
(*      min(x, x - modulus)                                                *)
(*                                                                         *)
(* on unsigned integers, where a negative number is a very large one.      *)
(***************************************************************************)
EXTENDS Integers

CONSTANTS
  Elem,     \* what is queued
  Moduli,   \* the capacities considered
  Word      \* the number of values of an unsigned int

ASSUME DequeAssumption ==
  /\ Word \in Nat
  /\ Moduli \subseteq Nat \ {0}
  /\ \A m \in Moduli : 2 * m <= Word

VARIABLES
  root, size, modulus, head,
  got         \* the value of the last expression shift, pop or dq_get

vars == <<root, size, modulus, head, got>>

(* A sum or difference of two unsigned integers.                           *)
Wrap(x) == IF x < 0 THEN x + Word ELSE IF x >= Word THEN x - Word ELSE x

min(x, y) == IF x < y THEN x ELSE y

(* The index in root of the i-th element, counted from 1.                  *)
Place(i) == min(Wrap(head + i), Wrap(Wrap(head + i) - modulus))

(* malloc() does not initialise the elements.                              *)
Init ==
  /\ modulus \in Moduli
  /\ root \in [0 .. modulus - 1 -> Elem]
  /\ head = 0 /\ size = 0
  /\ got \in Elem

dq_get(i) ==
  /\ i < size
  /\ got' = root[Place(i + 1)]
  /\ UNCHANGED <<root, size, modulus, head>>

dq_set(i, e) ==
  /\ i < size
  /\ root' = [root EXCEPT ![Place(i + 1)] = e]
  /\ UNCHANGED <<size, modulus, head, got>>

shift ==
  /\ size > 0
  /\ size' = size - 1
  /\ head' = Place(1)
  /\ got' = root[head']
  /\ UNCHANGED <<root, modulus>>

(* Mutant of unshift: the head is moved before the element is stored.      *)
unshift_HeadFirst(e) ==
  /\ size < modulus
  /\ size' = size + 1
  /\ head' = min(Wrap(head - 1), Wrap(Wrap(head - 1) + modulus))
  /\ root' = [root EXCEPT ![head'] = e]
  /\ UNCHANGED <<modulus, got>>

unshift(e) ==
  /\ size < modulus
  /\ size' = size + 1
  /\ root' = [root EXCEPT ![head] = e]
  /\ head' = min(Wrap(head - 1), Wrap(Wrap(head - 1) + modulus))
  /\ UNCHANGED <<modulus, got>>

push(e) ==
  /\ size < modulus
  /\ size' = size + 1
  /\ root' = [root EXCEPT ![Place(size')] = e]
  /\ UNCHANGED <<modulus, head, got>>

pop ==
  /\ size > 0
  /\ size' = size - 1
  /\ got' = root[Place(size' + 1)]
  /\ UNCHANGED <<root, modulus, head>>

Next ==
  \/ \E e \in Elem : unshift(e) \/ push(e)
  \/ \E i \in 0 .. modulus - 1 : dq_get(i) \/ \E e \in Elem : dq_set(i, e)
  \/ shift \/ pop

Spec == Init /\ [][Next]_vars

(***************************************************************************)
(* What the users of the macros rely on.                                   *)
(***************************************************************************)
(* Every index that is formed lies inside the ring.                        *)
TypeOK ==
  /\ modulus \in Moduli
  /\ root \in [0 .. modulus - 1 -> Elem]
  /\ head \in 0 .. modulus - 1
  /\ size \in 0 .. modulus
  /\ got \in Elem

(* The sequence that the ring stands for.                                  *)
contents == [i \in 1 .. size |-> root[Place(i)]]

Abstract == INSTANCE Sequence WITH q <- contents, capacity <- modulus

(* The ring buffer behaves as a sequence, at every position of its head    *)
(* and across every wrap of its indices.                                   *)
ImplementsSequence == Abstract!Init /\ [][Abstract!Next]_(Abstract!vars)
=============================================================================

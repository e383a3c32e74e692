------------------------------ MODULE Sequence ------------------------------
(***************************************************************************)
(* A bounded sequence that is accessed at both ends and by index: what the *)
(* deque macros of process.h promise.                                      *)
(***************************************************************************)
EXTENDS Integers, Sequences

CONSTANT Elem

VARIABLES
  q, capacity,
  got           \* the result of the last operation that has one

vars == <<q, capacity, got>>

Init ==
  /\ q = <<>>
  /\ capacity \in Nat \ {0}
  /\ got \in Elem

Insert ==
  /\ Len(q) < capacity
  /\ \E e \in Elem : q' \in {Append(q, e), <<e>> \o q}
  /\ UNCHANGED <<capacity, got>>

RemoveFirst ==
  /\ q # <<>>
  /\ got' = q[1] /\ q' = Tail(q)
  /\ UNCHANGED capacity

RemoveLast ==
  /\ q # <<>>
  /\ got' = q[Len(q)] /\ q' = SubSeq(q, 1, Len(q) - 1)
  /\ UNCHANGED capacity

Get ==
  /\ \E i \in 1 .. Len(q) : got' = q[i]
  /\ UNCHANGED <<q, capacity>>

Set ==
  /\ \E i \in 1 .. Len(q), e \in Elem : q' = [q EXCEPT ![i] = e]
  /\ UNCHANGED <<capacity, got>>

Next == Insert \/ RemoveFirst \/ RemoveLast \/ Get \/ Set

Spec == Init /\ [][Next]_vars
=============================================================================

--------------------------- MODULE OrderedOutput ---------------------------
(***************************************************************************)
(* What the compressor promises to whoever reads its output, whatever the  *)
(* threads do: the stream is a sequence of blocks, each encodes a          *)
(* non-empty interval of the input, and it begins where the one before it  *)
(* ended.  The stream is closed once, when the blocks cover the whole      *)
(* input, by a trailer that combines the checksums of exactly these        *)
(* blocks, in their order.                                                 *)
(***************************************************************************)
EXTENDS Integers, Sequences

CONSTANT NULL

VARIABLES
  len,      \* the length of the input
  out,      \* the blocks written so far
  trailer   \* the blocks combined in the trailer, once it is written

vars == <<len, out, trailer>>

Init ==
  /\ len \in Nat
  /\ out = <<>>
  /\ trailer = NULL

(* How much of the input the blocks of s cover.                            *)
Covered(s) == IF s = <<>> THEN 0 ELSE s[Len(s)].hi

Emit ==
  /\ trailer = NULL
  /\ \E hi \in Covered(out) + 1 .. len :
       out' = Append(out, [lo |-> Covered(out), hi |-> hi])
  /\ UNCHANGED <<len, trailer>>

Close ==
  /\ trailer = NULL
  /\ Covered(out) = len
  /\ trailer' = out
  /\ UNCHANGED <<len, out>>

Next == Emit \/ Close

Spec == Init /\ [][Next]_vars /\ WF_vars(Next)
=============================================================================

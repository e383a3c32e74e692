-------------------------------- MODULE Util --------------------------------
(***************************************************************************)
(* Operators that the models of the block codec share.                     *)
(***************************************************************************)
EXTENDS Integers, SequencesExt, TLC

(* x; the model checker evaluates it once, not at every use.               *)
Value(x) == CHOOSE v \in {x} : v = v

SumOf(f) == FoldFunction(+, 0, f)
Greatest(x, y) == IF x < y THEN y ELSE x
Distance(x, y) == Greatest(x - y, y - x)

Up(n) == [i \in 1 .. n |-> i]
Down(n) == [i \in 1 .. n |-> n + 1 - i]

(* How many arguments a function has.                                      *)
Size(f) == Cardinality(DOMAIN f)
=============================================================================

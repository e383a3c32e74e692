---------------------------- MODULE BlockEmitter ----------------------------
(***************************************************************************)
(* decode() and emit() of decode.c, as operators.                          *)
(*                                                                         *)
(* tt is the block as it was retrieved; decode() makes a linked list of    *)
(* it, the entries of which have a pointer and a character.  emit() takes  *)
(* a entries from there and expands the runs, until the buffer is full; it *)
(* goes on in the state where it has stopped.                              *)
(***************************************************************************)
EXTENDS Util

CONSTANTS
  Chars,         \* 0 .. 255
  RAND_THRESH,   \* 617
  rand_table     \* 512 numbers

(***************************************************************************)
(* decode().                                                               *)
(***************************************************************************)
Flipped(c) == IF c % 2 = 0 THEN c + 1 ELSE c - 1

(* Where the characters above c begin among the sorted characters; it is   *)
(* what ftab[c] is after the list has been built.                          *)
Ftab(tt) == [c \in Chars |-> Cardinality({i \in DOMAIN tt : tt[i] <= c})]

(* The i-th smallest of the characters, equal ones in order: the list.     *)
Linked(tt) ==
  LET order == Value(SortSeq(Up(Len(tt)), LAMBDA i, j : tt[i] < tt[j] \/ (tt[i] = tt[j] /\ i < j)))
  IN [i \in 0 .. Len(tt) - 1 |-> [p |-> order[i + 1] - 1, c |-> tt[i + 1]]]

(* The j-th of the sorted characters, by bisection.                        *)
Search(ftab, j) ==
  LET steps == SelectSeq(Down(Cardinality(Chars)), LAMBDA s : \E e \in 0 .. 8 : s = 2 ^ e)
  IN FoldLeft(LAMBDA k, s : IF j >= ftab[k + s - 1] THEN k + s ELSE k, 0, Tail(steps))

(* The places that are flipped in a randomized block of n characters.      *)
RECURSIVE Flips(_, _, _)
Flips(j, i, n) ==
  IF j >= n THEN {} ELSE {j} \cup Flips(j + rand_table[((i + 1) % Len(rand_table)) + 1],
                                        (i + 1) % Len(rand_table), n)

(* The text of a randomized block is found, derandomized and linked again. *)
Derandomized(tt, idx) ==
  LET list == Value(Linked(tt))
      ftab == Value(Ftab(tt))
      at[i \in DOMAIN list] == IF i = 0 THEN idx ELSE list[at[i - 1]].p
      flips == Flips(RAND_THRESH, 0, Len(tt))
  IN [i \in DOMAIN list |->
        [p |-> i + 1, c |-> LET k == Search(ftab, at[i]) IN IF i \in flips THEN Flipped(k) ELSE k]]

decode(tt, rand, idx) ==
  LET list == Value(IF rand = 1 THEN Derandomized(tt, idx) ELSE Linked(tt))
  IN [list |-> list, state |-> 0, p |-> IF rand = 1 THEN 0 ELSE list[idx].p,
      avail |-> Len(tt), char |-> 0, prev |-> 0, out |-> <<>>, rv |-> "MORE"]

(***************************************************************************)
(* emit(), with room for m characters.                                     *)
(***************************************************************************)
Suspend(d, state) == [d EXCEPT !.state = state, !.rv = "MORE"]
Finished(d) == [d EXCEPT !.rv = "OK"]
MissingCount(d) == [d EXCEPT !.rv = "ERR_RUNLEN"]

Fetch(d) == [d EXCEPT !.avail = @ - 1, !.char = d.list[d.p].c, !.p = d.list[d.p].p]
PutChar(d) == [d EXCEPT !.out = Append(@, d.char)]
PutPrev(d, n) == [d EXCEPT !.out = @ \o [i \in 1 .. n |-> d.prev]]

RECURSIVE Another(_, _), First(_, _), Second(_, _), Third(_, _), Count(_, _), Next0(_, _), Fresh(_, _)

(* The next character, when the one before it may begin a run.             *)
Another(d, m) ==
  IF d.avail = 0 THEN Finished(d) ELSE First(Value([Fetch(d) EXCEPT !.prev = d.char]), m)

First(d, m) ==
  IF m = 0 THEN Suspend(d, 1)
  ELSE IF d.char # d.prev THEN Another(Value(PutChar(d)), m - 1)
  ELSE IF d.avail = 0 THEN Finished(PutChar(d))
  ELSE Second(Value(Fetch(PutChar(d))), m - 1)

Second(d, m) ==
  IF m = 0 THEN Suspend(d, 2)
  ELSE IF d.char # d.prev THEN Another(Value(PutChar(d)), m - 1)
  ELSE IF d.avail = 0 THEN Finished(PutChar(d))
  ELSE Third(Value(Fetch(PutChar(d))), m - 1)

Third(d, m) ==
  IF m = 0 THEN Suspend(d, 3)
  ELSE IF d.char # d.prev THEN Another(Value(PutChar(d)), m - 1)
  ELSE IF d.avail = 0 THEN MissingCount(PutChar(d))
  ELSE Count(Value(Fetch(PutChar(d))), m - 1)

(* Mutant of Count: what has been written is not taken off.                *)
Count_Restarts(d, m) ==
  IF m < d.char THEN Suspend(PutPrev(d, m), 4)
  ELSE Next0(Value(PutPrev(d, d.char)), m - d.char)

(* char is how many more characters of the run there are.                  *)
Count(d, m) ==
  IF m < d.char THEN Suspend([PutPrev(d, m) EXCEPT !.char = @ - m], 4)
  ELSE Next0(Value(PutPrev(d, d.char)), m - d.char)

Next0(d, m) == IF d.avail = 0 THEN Finished(d) ELSE Fresh(Value(Fetch(d)), m)

(* The first character of all, or after the count of a run.                *)
Fresh(d, m) == IF m = 0 THEN Suspend(d, 5) ELSE Another(Value(PutChar(d)), m - 1)

emit(d, m) ==
  CASE d.state = 0 -> Next0(d, m)
    [] d.state = 1 -> First(d, m)
    [] d.state = 2 -> Second(d, m)
    [] d.state = 3 -> Third(d, m)
    [] d.state = 4 -> Count(d, m)
    [] d.state = 5 -> Fresh(d, m)
=============================================================================

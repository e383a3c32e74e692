---------------------------- MODULE BlockEncoder ----------------------------
(***************************************************************************)
(* encode.c: from input to the bits of a block, as operators.              *)
(*                                                                         *)
(* An encoder is a record of the fields of struct encoder_state.  The      *)
(* checksum of a block is the sequence of the characters that went into    *)
(* it.  collect() works on what is left of the input, as a record that has *)
(* the input too.                                                          *)
(***************************************************************************)
EXTENDS Bwt, PrefixCode, Bitwise

CONSTANTS
  Chars,            \* 0 .. 255
  max_block_size,
  MAX_RUN_LENGTH    \* 4 + 255

ASSUME BlockEncoderAssumption ==
  /\ \E k \in 1 .. 16 : Chars = 0 .. 16 * k - 1
  /\ max_block_size \in Nat \ {0}
  /\ MAX_RUN_LENGTH - 4 \in Chars

encoder_init == [block |-> <<>>, cmap |-> {}, rle_state |-> 0, rle_character |-> 0, crc |-> <<>>]

(***************************************************************************)
(* collect().  A run of four or more characters is stored as four and the  *)
(* number of those that follow.  rle_state is the length of the run that   *)
(* is not finished yet, or -1 when the block is full.                      *)
(***************************************************************************)
Full(a) == Len(a.block) >= max_block_size

Same(a, ch) == a.in # <<>> /\ Head(a.in) = ch
Read(a) == [a EXCEPT !.in = Tail(@), !.crc = Append(@, Head(a.in))]
Put(a, ch) == [a EXCEPT !.block = Append(@, ch)]
PutNew(a, ch) == [Put(a, ch) EXCEPT !.cmap = @ \cup {ch}]
Done(a) == [a EXCEPT !.rle_state = -1]
Hold(a, run, ch) == [a EXCEPT !.rle_state = run, !.rle_character = ch]

(* One more of a run would not fit with its count.                         *)
Crowded(a, run, ch) ==
  Full(a) \/ (Len(a.block) = max_block_size - 1 /\ run = 3 /\ Same(a, ch))

RECURSIVE State0(_), Single(_, _, _), Counted(_, _, _), Resume(_)

(* State 0: a new run.                                                     *)
State0(a) ==
  IF Full(a) THEN Done(a)
  ELSE IF a.in = <<>> THEN [a EXCEPT !.rle_state = 0]
  ELSE Single(Value(Read(a)), 1, Head(a.in))

(* States 1 to 3: ch, which has been read, is the character number run of  *)
(* its run.                                                                *)
Single(a, run, ch) ==
  LET b == Value(IF run = 1 THEN PutNew(a, ch) ELSE Put(a, ch))
  IN IF Crowded(b, run, ch) THEN Done(b)
     ELSE IF b.in = <<>> THEN Hold(b, run, ch)
     ELSE IF Head(b.in) # ch THEN Single(Value(Read(b)), 1, Head(b.in))
     ELSE IF run < 3 THEN Single(Value(Read(b)), run + 1, ch)
     ELSE Counted(Value(Put(Read(b), ch)), 4, ch)

(* Mutant of Counted: the character is not given back.                     *)
Counted_NoUnget(a, run, ch) ==
  IF run = MAX_RUN_LENGTH THEN State0(Value(PutNew(a, run - 4)))
  ELSE IF a.in = <<>> THEN Hold(a, run, ch)
  ELSE IF Same(a, ch) THEN Counted(Value(Read(a)), run + 1, ch)
  ELSE LET b == Value(Read(PutNew(a, run - 4)))
       IN IF Full(b) THEN Done(b) ELSE Single(b, 1, Head(a.in))

(* State 4: the character that ends the run is read, and given back when   *)
(* there is no room for it.                                                *)
Counted(a, run, ch) ==
  IF run = MAX_RUN_LENGTH THEN State0(Value(PutNew(a, run - 4)))
  ELSE IF a.in = <<>> THEN Hold(a, run, ch)
  ELSE IF Same(a, ch) THEN Counted(Value(Read(a)), run + 1, ch)
  ELSE LET b == Value(PutNew(a, run - 4))
       IN IF Full(b) THEN Done(b) ELSE Single(Value(Read(b)), 1, Head(b.in))

(* finish_run: the run that an earlier call has not finished.              *)
Resume(a) ==
  LET ch == a.rle_character
      run == a.rle_state
  IN IF Crowded(a, run, ch) THEN Done(a)
     ELSE IF run = MAX_RUN_LENGTH THEN State0(Value(PutNew(a, run - 4)))
     ELSE IF a.in = <<>> THEN a
     ELSE IF Head(a.in) # ch THEN State0(Value(IF run >= 4 THEN PutNew(a, run - 4) ELSE a))
     ELSE Resume(Value([Read(IF run < 4 THEN Put(a, ch) ELSE a) EXCEPT !.rle_state = run + 1]))

collect(s, inbuf) ==
  LET a == s @@ [in |-> inbuf]
  IN IF s.rle_state = 0 THEN State0(a) ELSE Resume(a)

(***************************************************************************)
(* encode().                                                               *)
(***************************************************************************)
(* The count of the run that the input has ended in.                       *)
Finalized(s) == IF s.rle_state >= 4 THEN PutNew(s, s.rle_state - 4) ELSE s

(* make_map_e(): characters are replaced by their ranks.                   *)
make_map_e(inuse) == [c \in inuse |-> Cardinality({d \in inuse : d < c})]

(* Digits of the length of a run of what is in front, RUN-A being 0.       *)
RECURSIVE RunDigits(_)
RunDigits(k) == IF k = 0 THEN <<>> ELSE <<(k - 1) % 2>> \o RunDigits((k - 1) \div 2)

(* do_mtf().                                                               *)
do_mtf(bwt, cmap) ==
  LET eob == Size(cmap) + 1
      MTF(a, ch) ==
        LET i == CHOOSE i \in DOMAIN a.order : a.order[i] = cmap[ch]
        IN IF i = 1 THEN [a EXCEPT !.k = @ + 1]
           ELSE Value([order |-> <<a.order[i]>> \o RemoveAt(a.order, i), k |-> 0,
                       mtfv |-> a.mtfv \o RunDigits(a.k) \o <<i>>])
      final == FoldLeft(MTF, [order |-> [i \in 1 .. Size(cmap) |-> i - 1], k |-> 0, mtfv |-> <<>>],
                        bwt)
  IN final.mtfv \o RunDigits(final.k) \o <<eob>>

(* Move-to-front of the selectors on one integer of six digits: x is what  *)
(* is left of a digit c when c is taken from all, and only a digit that    *)
(* becomes zero does not get its highest bit when 15 is added.             *)
Digits == 16777216    \* 16 ^ 6
Ones == Digits - 1

SelectorMTF(p, c) ==
  LET v == p ^^ (1118481 * c)
      z == ((v + 15658735) & 8947848) % Digits
      l == z ^^ (z - 1)
      h == l ^^ Ones
      next == (p | l) & ((((p % (Digits \div 16)) * 16) | h) | c)
      j == CHOOSE j \in 0 .. 5 : l = 16 ^ (j + 1) - 1
  IN [p |-> next, j |-> j]

selectorMTF(selector) ==
  FoldLeft(LAMBDA a, t : LET m == SelectorMTF(a.p, t - 1)
                         IN Value([p |-> m.p, mtf |-> Append(a.mtf, m.j)]),
           [p |-> 5517840, mtf |-> <<>>], selector).mtf

(* Sixteen characters have a bitmap of their own if one of them is used.   *)
Bitmaps(cmap) == {c \div 16 : c \in cmap}

(* What the header, the trees, the selectors and the text take.            *)
Cost(code, smtf) ==
  48 + 32 + 1 + 24 + 3 + 15 + code.cost + SumOf([i \in DOMAIN smtf |-> smtf[i] + 1])

(* The block is padded to whole bytes with bits that mean nothing: up to   *)
(* three pairs in the first tree, and one selector that is not used.       *)
PaddedBlock(f, idx, code, smtf, cost) ==
  LET pad == (0 - cost) % 8
  IN [cmap |-> f.cmap, block |-> f.block, crc |-> f.crc, bwt_idx |-> idx,
      code |-> code, selectorMTF |-> smtf \o [i \in 1 .. pad % 2 |-> 0],
      tree_pad |-> pad \div 2,
      out_expect_len |-> (cost + pad + 16 * Cardinality(Bitmaps(f.cmap)) + 16) \div 8]

WithSelectors(f, idx, code) ==
  LET smtf == Value(selectorMTF(code.selector))
  IN PaddedBlock(f, idx, code, smtf, Cost(code, smtf))

encode(s) ==
  LET f == Value(Finalized(s))
      bwt == Value(divbwt(f.block))
  IN WithSelectors(f, bwt.idx,
                   Value(generate_prefix_code(Value(do_mtf(bwt.bwt, make_map_e(f.cmap))))))

(***************************************************************************)
(* transmit(): the bits of the block, the most significant first.          *)
(***************************************************************************)
Bits(n, v) == [i \in 1 .. n |-> (v \div 2 ^ (n - i)) % 2]

Bitmap(cmap) ==
  Bits(16, SumOf([b \in Bitmaps(cmap) |-> 2 ^ (15 - b)]))
    \o FlattenSeq([k \in 1 .. 16 |->
          IF k - 1 \notin Bitmaps(cmap) THEN <<>>
          ELSE [i \in 1 .. 16 |-> IF 16 * (k - 1) + i - 1 \in cmap THEN 1 ELSE 0]])

Selectors(smtf) == FlattenSeq([i \in DOMAIN smtf |-> Bits(smtf[i] + 1, 2 ^ (smtf[i] + 1) - 2)])

(* The steps from a to c, up or down, and the end of them.                 *)
Delta(a, c) ==
  FlattenSeq([i \in 1 .. Distance(a, c) |-> IF a < c THEN <<1, 0>> ELSE <<1, 1>>]) \o <<0>>

Padded(a, pad) == IF a < 4 THEN a + pad ELSE a - pad

TreeBits(length, pad) ==
  LET from(v) == IF v = 0 THEN Padded(length[0], pad) ELSE length[v - 1]
  IN Bits(5, from(0)) \o FlattenSeq([i \in 1 .. Size(length) |-> Delta(from(i - 1), length[i - 1])])

GroupBits(tree, group) ==
  FlattenSeq([i \in DOMAIN group |->
    IF group[i] \in DOMAIN tree.code THEN Bits(tree.length[group[i]], tree.code[group[i]]) ELSE <<>>])

(* The magic and the CRC in front, which the parser takes, are left out.   *)
transmit(s) ==
  LET code == s.code
  IN Bits(1, 0) \o Bits(24, s.bwt_idx) \o Bitmap(s.cmap)
       \o Bits(3, Len(code.lengths)) \o Bits(15, Len(s.selectorMTF)) \o Selectors(s.selectorMTF)
       \o FlattenSeq([t \in DOMAIN code.lengths |->
                        TreeBits(code.lengths[t], IF t = 1 THEN s.tree_pad ELSE 0)])
       \o FlattenSeq([g \in DOMAIN code.groups |->
                        GroupBits(code.trees[code.selector[g]], code.groups[g])])
=============================================================================

------------------------------ MODULE Scanner ------------------------------
(***************************************************************************)
(* parse.c: the bitstream that the parser and the scanners read, and       *)
(* scan(), which looks for the magic number of a block.                    *)
(*                                                                         *)
(* A bitstream b has loaded data words of the bits out of limit; live bits *)
(* of these are left.  What is in buff is known from that.                 *)
(***************************************************************************)
EXTENDS Util

WORD == 32

(* Bits that have been consumed, and the n bits behind them.               *)
Consumed(b) == WORD * b.data - b.live
bits_peek(bits, b, n) == SubSeq(bits, Consumed(b) + 1, Consumed(b) + n)
bits_dump(b, n) == [b EXCEPT !.live = @ - n]

(* bits_need(), which loads a word if there is one and it must.            *)
bits_need(b, n) ==
  IF n <= b.live THEN "OK" ELSE IF b.data < b.limit THEN "OK" ELSE IF b.eof THEN "FINISH" ELSE "MORE"

Loaded(b, n) == IF n <= b.live THEN b ELSE [b EXCEPT !.live = @ + WORD, !.data = @ + 1]

bits_align(b) == bits_dump(b, b.live % 8)
bits_consume(b) == [b EXCEPT !.live = 0, !.data = b.limit]

Number(s) == FoldLeft(LAMBDA n, x : 2 * n + x, 0, s)

(***************************************************************************)
(* The automata of scantab.h.                                              *)
(***************************************************************************)
ACCEPT == 48

mini_dfa == <<
  <<1, 0>>, <<2, 0>>, <<2, 3>>, <<1, 4>>, <<5, 0>>, <<6, 0>>, <<7, 3>>, <<2, 8>>, <<9, 4>>,
  <<2, 10>>, <<11, 0>>, <<12, 0>>, <<13, 3>>, <<14, 3>>, <<15, 3>>, <<2, 16>>, <<17, 4>>,
  <<2, 18>>, <<19, 0>>, <<2, 20>>, <<1, 21>>, <<22, 0>>, <<23, 0>>, <<2, 24>>, <<25, 4>>,
  <<26, 0>>, <<2, 27>>, <<28, 4>>, <<29, 0>>, <<2, 30>>, <<1, 31>>, <<32, 0>>, <<33, 0>>,
  <<7, 34>>, <<35, 4>>, <<2, 36>>, <<37, 0>>, <<38, 0>>, <<2, 39>>, <<1, 40>>, <<41, 0>>,
  <<6, 42>>, <<43, 0>>, <<2, 44>>, <<1, 45>>, <<46, 0>>, <<47, 0>>, <<2, 48>> >>

(* Mutant of OneBit: after a mismatch the search starts from scratch.      *)
OneBit_FromScratch(state, bit) ==
  LET next == mini_dfa[state + 1][bit + 1] IN IF next = state + 1 THEN next ELSE 0

OneBit(state, bit) == mini_dfa[state + 1][bit + 1]

(* A transition of big_dfa for a byte is eight of mini_dfa, or fewer if    *)
(* the pattern is found before; so are the four for a word.                *)
BigStep(state, bit) == IF state = ACCEPT THEN ACCEPT ELSE OneBit(state, bit)

big_dfa(state, byte) == FoldLeft(BigStep, state, byte)

(***************************************************************************)
(* scan().                                                                 *)
(***************************************************************************)
(* Bits to be skipped beyond those that are live are rounded up to words.  *)
Skipped(b, skip) ==
  IF skip <= b.live THEN b
  ELSE LET data == b.data + (skip - b.live + WORD - 1) \div WORD
       IN [b EXCEPT !.live = 0, !.data = IF data <= b.limit THEN data ELSE b.limit]

(* Behind the magic number the CRC must be there.                          *)
Accepted(b) ==
  IF bits_need(b, WORD) = "OK" THEN [rv |-> "OK", bs |-> bits_dump(Loaded(b, WORD), WORD)]
  ELSE [rv |-> "MORE", bs |-> bits_consume(b)]

RECURSIVE ScanBits(_, _, _), ScanWords(_, _, _)

(* again: what is live, bit by bit.                                        *)
ScanBits(bits, b, state) ==
  IF b.live = 0 THEN ScanWords(bits, b, state)
  ELSE LET next == OneBit(state, bits_peek(bits, b, 1)[1])
           rest == bits_dump(b, 1)
       IN IF next = ACCEPT THEN Accepted(rest) ELSE ScanBits(bits, rest, next)

(* Whole words; the one in which the pattern ends is scanned again.        *)
ScanWords(bits, b, state) ==
  IF b.data = b.limit THEN [rv |-> "MORE", bs |-> b]
  ELSE LET word == Loaded(b, 1)
           next == FoldLeft(LAMBDA s, i : big_dfa(s, SubSeq(bits_peek(bits, word, WORD), 8 * i - 7, 8 * i)),
                            state, Up(4))
       IN IF next = ACCEPT THEN ScanBits(bits, word, state)
          ELSE ScanWords(bits, bits_dump(word, WORD), next)

scan(bits, b, skip) == ScanBits(bits, Skipped(b, skip), 0)
=============================================================================

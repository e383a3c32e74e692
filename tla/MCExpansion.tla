---------------------------- MODULE MCExpansion ----------------------------
(***************************************************************************)
(* The decompressor for TLC: small streams, constants and symmetry.        *)
(***************************************************************************)
EXTENDS ExpansionProps

CONSTANTS w1, w2, w3

MCTwoWorkers == {w1, w2}
MCThreeWorkers == {w1, w2, w3}
MCSymmetry == Permutations(Workers)

Block(base, stop, need, chunks) ==
  [base |-> base, stop |-> stop, need |-> need, chunks |-> chunks, defect |-> "none"]

WithDefect(b, defect) == [b EXCEPT !.defect = defect]

Stream(blocks, bogus, stop, len) ==
  [blocks |-> blocks, bogus |-> bogus, stop |-> stop, len |-> len,
   garbage |-> 1, intact |-> TRUE]

(* Two blocks in two buffers of 16 units; a scanner sees the header of the *)
(* second block, which ends in the next buffer.  Padding behind the end.   *)
Plain == Stream(<<Block(5, 9, 5, 1), Block(14, 22, 12, 2)>>, {}, 27, 27)

(* The header of the second block lies across buffers: it is not scanned.  *)
(* The file ends with a full buffer.                                       *)
Across == Stream(<<Block(5, 13, 8, 1), Block(18, 27, 14, 1)>>, {}, 32, 32)

(* Three blocks in three buffers, and something like a block in the        *)
(* garbage behind the end.  The header of the second block ends with the   *)
(* first buffer, that of the third one within the second.                  *)
Long == Stream(<<Block(5, 11, 6, 1), Block(16, 24, 12, 1), Block(29, 38, 19, 1)>>,
               {Block(48, 49, 25, 1)}, 43, 50)

(* A block of three buffers with a bogus pattern in the first one, whose   *)
(* bits can be taken for a block that ends in the second one.              *)
Guessed == Stream(<<Block(5, 36, 18, 1)>>, {Block(12, 22, 11, 1)}, 41, 41)

(* A bogus pattern that cannot be retrieved, and a block behind it.        *)
Refuted == Stream(<<Block(5, 13, 7, 1), Block(18, 22, 12, 1)>>,
                  {WithDefect(Block(11, 12, 7, 1), "retrieve")}, 27, 27)

(* Files that are damaged: a block that cannot be retrieved, one whose     *)
(* checksum is wrong, one that is too large; a trailer that does not fit   *)
(* the blocks; a file that ends in the last word of the trailer.           *)
BrokenBlock == Stream(<<Block(5, 9, 5, 1), WithDefect(Block(14, 22, 12, 1), "retrieve")>>,
                      {}, 27, 27)
WrongSum == Stream(<<WithDefect(Block(5, 9, 5, 2), "crc")>>, {}, 14, 14)
TooLarge == Stream(<<WithDefect(Block(5, 9, 5, 2), "overflow")>>, {}, 14, 14)
WrongTrailer == [Stream(<<Block(5, 9, 5, 1)>>, {}, 14, 14) EXCEPT !.intact = FALSE]
Short == Stream(<<Block(5, 9, 5, 1)>>, {}, 14, 13)
VeryShort == Stream(<<Block(5, 9, 5, 1)>>, {}, 14, 10)

(* Three blocks, of which the last one decodes to several chunks, and a    *)
(* bogus pattern in the first one.                                         *)
Crowded == Stream(<<Block(5, 13, 7, 1), Block(18, 22, 12, 1), Block(27, 29, 15, 4)>>,
                  {Block(11, 12, 7, 1)}, 34, 34)
MCCrowded == {Crowded}

(* A block of eight buffers, with bogus patterns in every other one that   *)
(* can be taken for blocks.                                                *)
Riddled == Stream(<<Block(5, 122, 61, 1)>>,
                  {Block(12, 34, 17, 1), Block(44, 66, 33, 1), Block(76, 98, 49, 1),
                   Block(108, 110, 55, 1)}, 127, 127)
MCRiddled == {Riddled}

(* Small blocks of one, two and three chunks, several in a buffer.         *)
Small == Stream([i \in 1 .. 3 |-> Block(6 * i, 6 * i + 1, 3 * i + 1, i)], {}, 24, 24)

MCDamaged == {Refuted, BrokenBlock, WrongSum, TooLarge, WrongTrailer, Short, VeryShort}
MCGuessed == {Guessed}
MCSound == {Plain, Across, Long}
MCComplete == MCSound \cup MCDamaged
MCAll == MCComplete \cup MCGuessed \cup {Small}
MCFileLens == {s.len : s \in Streams}
=============================================================================

------------------------------ MODULE MCCodec ------------------------------
(***************************************************************************)
(* The format for TLC: the block codec on small blocks, and the parser and *)
(* the scanner on small files.  They have nothing to do with each other;   *)
(* while one of them works the other stands where it started.              *)
(***************************************************************************)
EXTENDS BlockProps

CONSTANTS Files, Buffers

VARIABLES
  file, file_bits, ps, bs, hds, stage, garbage    \* of module Parser

C == INSTANCE Container
P == INSTANCE ParserProps WITH bits <- file_bits, phase <- stage

parserVars == <<file, file_bits, ps, bs, hds, stage, garbage>>

(***************************************************************************)
(* Blocks: all short inputs over three characters, of which the first is   *)
(* also a count and the last is in another bitmap, and longer ones.  A run *)
(* is at most six characters, a block sixteen.                             *)
(***************************************************************************)
MCChars == 0 .. 31
MCThresholds == <<4, 8>>
MCrand == <<2, 1, 3>>

Letters == {0, 1, 17}
Short == UNION {[1 .. n -> Letters] : n \in 1 .. 5}

Rep(n, c) == [i \in 1 .. n |-> c]
Long == {
  Rep(6, 17), Rep(7, 1), Rep(14, 1) \o <<0>>, <<17>> \o Rep(9, 0) \o <<1>>, Rep(9, 0) \o Rep(4, 1),
  <<0, 1, 2, 3, 4, 5, 6>>, <<6, 5, 4, 3, 2, 1, 0, 6, 5>>,
  <<1, 17, 1, 17, 1, 17>>, <<0, 1, 17, 0, 1, 17, 0, 1, 17, 0, 1, 17, 0>>,
  <<17, 0, 17, 1, 1, 0, 0>>,
  \* Runs at the end of the block.
  Rep(13, 1) \o Rep(13, 0), [i \in 1 .. 11 |-> i % 2] \o Rep(5, 17) \o <<1, 1>>,
  [i \in 1 .. 12 |-> i % 2] \o Rep(5, 17) \o <<1, 1>>, [i \in 1 .. 14 |-> i % 2] \o Rep(5, 17),
  [i \in 1 .. 12 |-> i % 2] \o Rep(4, 17), [i \in 1 .. 13 |-> i % 2] \o Rep(5, 17)}

(* Of several trees; these come damaged too.                               *)
MCFaulty == {
  <<0, 0, 0, 1, 17, 0, 1, 2, 17, 3, 17, 0, 17, 0, 2, 0, 1>>,
  <<1, 1, 0, 17, 1, 1, 0, 17, 0, 1, 2, 2, 2>>}

MCInputs == Short \cup Long \cup MCFaulty

(***************************************************************************)
(* Files of one to three streams, with blocks that end at various bits:    *)
(* sound ones with various tails, each of them cut anywhere, and with a    *)
(* flipped bit in each field.                                              *)
(***************************************************************************)
Crcs == <<C!Bytes(<<128, 0, 0, 1>>), C!Bytes(<<255, 1, 0, 0>>), C!Zeros(32)>>

Block(crc, body) == [crc |-> Crcs[crc], body |-> body]
Stream(level, blocks) == [level |-> level, blocks |-> blocks]
OneBits(n) == [i \in 1 .. n |-> 1]

One == Block(1, OneBits(3))
Two == Block(2, C!Zeros(40))
Three == Block(3, OneBits(29))

Sound ==
  {<<Stream(1, list)>> : list \in {<<>>, <<One>>, <<Two>>, <<One, Two>>, <<Two, One, Three>>}}
    \cup {<<Stream(9, <<One>>), Stream(2, <<Two>>)>>, <<Stream(3, <<>>), Stream(4, <<>>)>>,
          <<Stream(5, <<>>), Stream(6, <<One, Three>>)>>, <<Stream(9, <<Three>>), Stream(1, <<>>)>>,
          <<Stream(1, <<Two>>), Stream(1, <<>>), Stream(9, <<One>>)>>}

File(streams, tail, cut, damage) ==
  [streams |-> streams, tail |-> tail, cut |-> cut, damage |-> damage]

(* None of these starts a stream.                                          *)
Tails == {<<0>>, <<66, 90>>, <<66, 90, 104>>, <<66, 90, 104, 48>>, <<66, 90, 104, 58, 23, 114>>,
          <<66, 91, 104, 49>>, <<0, 0, 66, 90, 104, 49>>}

(* All bytes may be missing that do not belong to the first header.        *)
Cuts(streams) == 0 .. C!End(File(streams, <<>>, 0, C!Undamaged), Len(streams)) \div 8 - 4

(* The first bit and the last one of each field.                           *)
Damages(streams) ==
  UNION {UNION {{[stream |-> k, field |-> i, bit |-> b] :
                    b \in {1, Len(C!Fields(streams[k])[i].bits)}} : i \in DOMAIN C!Fields(streams[k])}
         : k \in DOMAIN streams} \ [stream : {1}, field : {1}, bit : {1, 32}]

(* In front of a header there is a part of the pattern.                    *)
Beginnings == {<<Stream(1, <<Block(1, SubSeq(C!BlockMagic, 1, k)), Two>>)>> : k \in 1 .. 47}

MCFiles ==
  {File(s, t, 0, C!Undamaged) : s \in Sound, t \in Tails}
    \cup UNION {{File(s, <<>>, c, C!Undamaged) : c \in Cuts(s)} : s \in Sound}
    \cup UNION {{File(s, <<>>, 0, dm) : dm \in Damages(s)} : s \in Sound}
    \cup {File(s, <<>>, 0, C!Undamaged) : s \in Beginnings}

(***************************************************************************)
(* A block, or a file: the other one is a fixed one.                       *)
(***************************************************************************)
AnInput == CHOOSE i \in Short : Len(i) = 1
AFile == File(<<Stream(1, <<One>>)>>, <<>>, 1, C!Undamaged)

MCInit ==
  \/ input = AnInput /\ Init /\ P!Init
  \/ file = AFile /\ P!Init /\ Init

MCNext ==
  \/ Next /\ file = AFile /\ UNCHANGED parserVars
  \/ P!Next /\ input = AnInput /\ UNCHANGED vars

MCSpec == MCInit /\ [][MCNext]_<<vars, parserVars>>

(* parse() accepts the files it should and no others (module ParserProps). *)
ParsesFormat == P!ParsesFormat

(* scan() finds the first header (module ParserProps).                     *)
ScanFinds == P!ScanFinds
=============================================================================

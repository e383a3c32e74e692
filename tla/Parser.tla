------------------------------- MODULE Parser -------------------------------
(***************************************************************************)
(* parse() of parse.c, one iteration of its loop per step, as do_parse()   *)
(* and the master retriever call it: on input that arrives word by word,   *)
(* suspended wherever a word is missing, with the bodies of blocks         *)
(* consumed in between.                                                    *)
(*                                                                         *)
(* work() has consumed and checked the first header of the file.           *)
(***************************************************************************)
EXTENDS Container, Scanner

CONSTANTS Files, Buffers    \* lengths of input buffers, in words

VARIABLES
  file,      \* the file
  bits,      \* its bits, behind the first header and padded to words
  ps,        \* struct parser_state
  bs,        \* the bitstream
  hds,       \* the headers that have been found
  phase,     \* "parse", "body" or, at the end, what do_parse() makes of it
  garbage    \* bits that were read behind the last stream

vars == <<file, bits, ps, bs, hds, phase, garbage>>

Words == Len(bits) \div WORD

(* eof_missing: bytes that the last word lacks.                            *)
eof_missing == ((0 - Len(FileBits(file))) % WORD) \div 8

parser_init(bs100k) ==
  [state |-> "BLOCK_MAGIC_1", bs100k |-> bs100k, stored_crc |-> <<>>, computed_crc |-> Zeros(32)]

Init ==
  /\ file \in Files
  /\ bits = PaddedTo(WORD, SubSeq(FileBits(file), 33, Len(FileBits(file))))
  /\ ps = parser_init(file.streams[1].level)
  /\ bs = [live |-> 0, data |-> 0, limit |-> 0, eof |-> FALSE]
  /\ hds = <<>> /\ phase = "parse" /\ garbage = 0

(* The loop takes 16 bits in state s.                                      *)
Takes(s) ==
  /\ phase = "parse" /\ ps.state = s
  /\ bits_need(bs, 16) = "OK"

word == bits_peek(bits, Loaded(bs, 16), 16)
Rest == bits_dump(Loaded(bs, 16), 16)

Goto(s) == ps' = [ps EXCEPT !.state = s]

(* The code fails the job with ERR_HEADER, ERR_STRMCRC or ERR_EOF.         *)
Fail(err) ==
  /\ phase' = err
  /\ UNCHANGED <<file, bits, ps, hds, garbage>>

(* parse() returns FINISH, and do_parse() tells whether all of the bits    *)
(* were of the file: left are those that are live and the garbage.         *)
Finish(rest, n) ==
  LET left == rest.live + n
      offset == IF left >= WORD THEN rest.data - 1 ELSE rest.data
  IN /\ Goto("ACCEPT")
     /\ garbage' = n
     /\ phase' = IF offset = Words /\ left % WORD < 8 * eof_missing THEN "ERR_EOF" ELSE "FINISH"
     /\ UNCHANGED <<file, bits, hds>>

(* The header of one more stream, or the end.                              *)
StreamMagic1 ==
  /\ Takes("STREAM_MAGIC_1")
  /\ bs' = Rest
  /\ IF Number(word) # 16986 THEN Finish(Rest, 16)
     ELSE Goto("STREAM_MAGIC_2") /\ UNCHANGED <<file, bits, hds, phase, garbage>>

StreamMagic2 ==
  /\ Takes("STREAM_MAGIC_2")
  /\ bs' = Rest
  /\ IF Number(word) \notin 26673 .. 26681 THEN Finish(Rest, 32)
     ELSE /\ ps' = [ps EXCEPT !.state = "BLOCK_MAGIC_1", !.bs100k = Number(word) % 16]
          /\ UNCHANGED <<file, bits, hds, phase, garbage>>

(* The words of magic numbers but the first.                               *)
Expects(s, value, next) ==
  /\ Takes(s)
  /\ bs' = Rest
  /\ IF Number(word) # value THEN Fail("ERR_HEADER")
     ELSE Goto(next) /\ UNCHANGED <<file, bits, hds, phase, garbage>>

BlockMagic1 ==
  /\ Takes("BLOCK_MAGIC_1")
  /\ bs' = Rest
  /\ CASE Number(word) = 6002  -> Goto("EOS_2") /\ UNCHANGED <<file, bits, hds, phase, garbage>>
       [] Number(word) = 12609 -> Goto("BLOCK_MAGIC_2") /\ UNCHANGED <<file, bits, hds, phase, garbage>>
       [] OTHER                -> Fail("ERR_HEADER")

BlockMagic2 == Expects("BLOCK_MAGIC_2", 22822, "BLOCK_MAGIC_3")
BlockMagic3 == Expects("BLOCK_MAGIC_3", 21337, "BLOCK_CRC_1")
Eos2 == Expects("EOS_2", 17720, "EOS_3")
Eos3 == Expects("EOS_3", 20624, "EOS_CRC_1")

CrcHigh(s, next) ==
  /\ Takes(s)
  /\ bs' = Rest
  /\ ps' = [ps EXCEPT !.state = next, !.stored_crc = word]
  /\ UNCHANGED <<file, bits, hds, phase, garbage>>

BlockCrc1 == CrcHigh("BLOCK_CRC_1", "BLOCK_CRC_2")
EosCrc1 == CrcHigh("EOS_CRC_1", "EOS_CRC_2")

(* A block is found; parse() returns OK.                                   *)
BlockCrc2 ==
  LET crc == ps.stored_crc \o word
  IN /\ Takes("BLOCK_CRC_2")
     /\ bs' = Rest
     /\ hds' = Append(hds, [bs100k |-> ps.bs100k, crc |-> crc])
     /\ ps' = [ps EXCEPT !.state = "BLOCK_MAGIC_1",
                         !.computed_crc = combine_crc(@, crc)]
     /\ phase' = "body"
     /\ UNCHANGED <<file, bits, garbage>>

(* Mutant of StreamEnds: the next stream starts with the CRC of this one.  *)
StreamEnds_KeepsCrc ==
  /\ bs' = bits_align(Rest)
  /\ ps' = [ps EXCEPT !.state = "STREAM_MAGIC_1"]
  /\ UNCHANGED <<file, bits, hds, phase, garbage>>

StreamEnds ==
  /\ bs' = bits_align(Rest)
  /\ ps' = [ps EXCEPT !.state = "STREAM_MAGIC_1", !.computed_crc = Zeros(32)]
  /\ UNCHANGED <<file, bits, hds, phase, garbage>>

EosCrc2 ==
  /\ Takes("EOS_CRC_2")
  /\ IF ps.stored_crc \o word # ps.computed_crc THEN bs' = Rest /\ Fail("ERR_STRMCRC")
     ELSE StreamEnds

(* There are no words left.                                                *)
AtEof ==
  /\ phase = "parse" /\ bits_need(bs, 16) = "FINISH"
  /\ UNCHANGED bs
  /\ CASE ps.state = "STREAM_MAGIC_1" -> Finish(bs, 0)
       [] ps.state = "STREAM_MAGIC_2" -> Finish(bs, 16)
       [] OTHER                       -> Fail("ERR_EOF")

(* parse() returns MORE and is called again with the next buffer; behind   *)
(* the last one, attach() says that there is no more.                      *)
More ==
  /\ phase = "parse" /\ bits_need(bs, 16) = "MORE"
  /\ IF bs.limit = Words THEN bs' = [bs EXCEPT !.eof = TRUE]
     ELSE \E n \in Buffers : bs' = [bs EXCEPT !.limit = IF bs.limit + n < Words THEN @ + n ELSE Words]
  /\ UNCHANGED <<file, bits, ps, hds, phase, garbage>>

(* The retriever consumes the body of the block, and may have loaded a     *)
(* word more than it needs; the block may be cut off.                      *)
BodyOf(f, i) ==
  FlattenSeq([k \in DOMAIN f.streams |->
    [j \in DOMAIN f.streams[k].blocks |-> f.streams[k].blocks[j].body]])[i]

Body ==
  /\ phase = "body"
  /\ LET stop == Consumed(bs) + Len(BodyOf(file, Len(hds)))
         need == (stop + WORD - 1) \div WORD
     IN IF need > Words THEN UNCHANGED bs /\ Fail("ERR_EOF")
        ELSE /\ \E data \in {need, need + 1} :
                  /\ data <= Words /\ data >= bs.data
                  /\ bs' = [bs EXCEPT !.data = data, !.live = WORD * data - stop,
                                      !.limit = IF data > @ THEN data ELSE @]
             /\ phase' = "parse"
             /\ UNCHANGED <<file, bits, ps, hds, garbage>>

Over ==
  /\ phase \notin {"parse", "body"}
  /\ UNCHANGED vars

Next ==
  \/ StreamMagic1 \/ StreamMagic2
  \/ BlockMagic1 \/ BlockMagic2 \/ BlockMagic3 \/ BlockCrc1 \/ BlockCrc2
  \/ Eos2 \/ Eos3 \/ EosCrc1 \/ EosCrc2
  \/ AtEof \/ More \/ Body \/ Over

Spec == Init /\ [][Next]_vars
=============================================================================

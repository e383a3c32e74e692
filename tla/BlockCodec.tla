----------------------------- MODULE BlockCodec -----------------------------
(***************************************************************************)
(* A block on its way from the input of a compressor to the output of a    *)
(* decompressor: the calls that the jobs make of encode.c and decode.c, on *)
(* input that is cut into buffers, bits that are cut into buffers, and     *)
(* output buffers, all of any length.                                      *)
(*                                                                         *)
(* The first buffer of bits begins behind the header of the block, which   *)
(* the parser has consumed, with some bits live.  What the parser takes is *)
(* left out; Trailing bits follow the block in any stream.                 *)
(*                                                                         *)
(* Not all blocks arrive as they were sent: fault says what has been done  *)
(* to the bits.  A randomized block, which only old compressors make, is   *)
(* one of the cases, as it is the same but for its first bit.              *)
(***************************************************************************)
EXTENDS BlockEncoder

CONSTANTS
  HUFF_START_WIDTH, ROW_WIDTH, SLIDE_LENGTH, MAX_BLOCK_SIZE, MAX_SELECTORS_USED, FAST_WORDS,
  RAND_THRESH, rand_table,
  Inputs,          \* what is compressed
  InputBuffers,    \* lengths of input buffers
  BitBuffers,      \* lengths of buffers of bits, in words
  OutputBuffers,   \* lengths of output buffers
  LiveBits,        \* bits that are live behind the header
  Faulty           \* inputs the blocks of which may be damaged

D == INSTANCE BlockDecoder
E == INSTANCE BlockEmitter

Trailing == 80

ASSUME BlockCodecAssumption ==
  /\ HUFF_START_WIDTH \in 1 .. MAX_CODE_LENGTH
  /\ SLIDE_LENGTH > Cardinality(Chars) /\ Cardinality(Chars) % ROW_WIDTH = 0
  /\ GROUP_SIZE * MAX_CODE_LENGTH <= 32 * FAST_WORDS
  /\ max_block_size <= MAX_BLOCK_SIZE
  /\ LiveBits \subseteq 0 .. 31

VARIABLES
  input,   \* what is to be compressed
  phase,   \* which component has the block
  enc,     \* struct encoder_state
  fault,   \* what has been done to the bits
  bits,    \* the bits of the block
  words,   \* how many words there are to load
  r,       \* the retriever and the bitstream
  d        \* the emitter

vars == <<input, phase, enc, fault, bits, words, r, d>>

Nothing == [rv |-> "NONE"]

Init ==
  /\ input \in Inputs
  /\ phase = "collect"
  /\ enc = encoder_init
  /\ fault = <<"none">> /\ bits = <<>> /\ words = 0 /\ r = Nothing /\ d = Nothing

(* How much of the input is in the block.                                  *)
Consumed == Len(enc.crc)

Collect ==
  /\ phase = "collect" /\ Consumed < Len(input)
  /\ \E n \in InputBuffers :
       LET end == IF Consumed + n < Len(input) THEN Consumed + n ELSE Len(input)
           a == collect(enc, SubSeq(input, Consumed + 1, end))
       IN /\ enc' = [f \in DOMAIN enc |-> a[f]]
          /\ phase' = IF a.rle_state < 0 \/ Len(a.crc) = Len(input) THEN "encode" ELSE "collect"
  /\ UNCHANGED <<input, fault, bits, words, r, d>>

Encode ==
  /\ phase = "encode"
  /\ enc' = encode(enc)
  /\ phase' = "transmit"
  /\ UNCHANGED <<input, fault, bits, words, r, d>>

(* The bits are sent, and may be damaged.                                  *)
WithBit(b, i) == [b EXCEPT ![i] = 1 - @]

(* The bits of the bitmaps that are not there if there are few characters  *)
(* are left as they are.                                                   *)
MayFlip(b) == {i \in DOMAIN b : i <= 25 + Cardinality(Chars) \div 16 \/ i > 41}

Transmit ==
  /\ phase = "transmit"
  /\ \E w \in LiveBits :
       LET sent == Value(transmit(enc))
           all == (Len(sent) + Trailing - w + 31) \div 32
       IN \/ /\ fault' = <<"none">> /\ bits' = sent /\ words' = all
             /\ r' = D!decoder_init(w)
          \/ /\ fault' = <<"rand">> /\ bits' = WithBit(sent, 1) /\ words' = all
             /\ r' = D!decoder_init(w)
          \/ /\ input \in Faulty
             /\ \E i \in MayFlip(sent) : bits' = WithBit(sent, i) /\ fault' = <<"flip", i>>
             /\ words' = all /\ r' = D!decoder_init(w)
          \/ /\ input \in Faulty
             /\ words' \in 0 .. all - 1 /\ fault' = <<"truncate">> /\ bits' = sent
             /\ r' = D!decoder_init(w)
  /\ phase' = "retrieve"
  /\ enc' = [block |-> enc.block, crc |-> enc.crc]
  /\ UNCHANGED <<input, d>>

(* retrieve() has asked for more words; or they are at an end.             *)
Deliver ==
  /\ phase = "retrieve" /\ D!Starved(r) /\ r.limit < words
  /\ \E n \in BitBuffers :
       r' = [r EXCEPT !.limit = IF r.limit + n < words THEN r.limit + n ELSE words]
  /\ UNCHANGED <<input, phase, enc, fault, bits, words, d>>

EndOfInput ==
  /\ phase = "retrieve" /\ D!Starved(r) /\ r.limit = words
  /\ r' = D!Return(r, "ERR_EOF")
  /\ phase' = "done"
  /\ UNCHANGED <<input, enc, fault, bits, words, d>>

Retrieve ==
  /\ phase = "retrieve" /\ ~ D!Starved(r)
  /\ r' = D!retrieve(bits, r)
  /\ phase' = CASE r'.rv = "MORE" -> "retrieve" [] r'.rv = "OK" -> "decode" [] OTHER -> "done"
  /\ UNCHANGED <<input, enc, fault, bits, words, d>>

Decode ==
  /\ phase = "decode"
  /\ d' = E!decode(r.tt, r.rand, r.bwt_idx)
  /\ phase' = "emit"
  /\ UNCHANGED <<input, enc, fault, bits, words, r>>

Emit ==
  /\ phase = "emit"
  /\ \E m \in OutputBuffers : d' = E!emit(d, m)
  /\ phase' = IF d'.rv = "MORE" THEN "emit" ELSE "done"
  /\ UNCHANGED <<input, enc, fault, bits, words, r>>

Finished == phase = "done" /\ UNCHANGED vars

Next ==
  \/ Collect \/ Encode \/ Transmit \/ Deliver \/ EndOfInput \/ Retrieve \/ Decode \/ Emit
  \/ Finished

Spec == Init /\ [][Next]_vars
=============================================================================

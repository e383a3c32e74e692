----------------------------- MODULE Bitstream -----------------------------
(***************************************************************************)
(* The compressed input as the expansion job sees it, and its three        *)
(* readers as operators: parse() and scan() of parse.c, retrieve() of      *)
(* decode.c.                                                               *)
(*                                                                         *)
(* Positions are counted in units of 16 bits.  The input is read in 32-bit *)
(* words, two units each; the last word is padded with zeros.  A detached  *)
(* bitstream is the word it loads next (offset) and its position in the    *)
(* stream (pos); what lies between them is live, loaded but not consumed.  *)
(* Blocks are taken to start and end at units.                             *)
(*                                                                         *)
(* What is in a stream is data:                                            *)
(*   blocks  - its blocks in order,                                        *)
(*   bogus   - what looks like a block to scan() and to retrieve(), but is *)
(*             none: the magic number inside the bits of a block,          *)
(*   stop    - where the trailer ends, intact whether its checksum fits,   *)
(*   garbage - how many units parse() reads behind the trailer to see that *)
(*             no stream header follows,                                   *)
(*   len     - the length of the file.                                     *)
(* A block starts at base, behind its header, and ends at stop; retrieve() *)
(* has loaded need words when it is done; chunks output buffers are filled *)
(* with what it decodes to; defect says what is wrong with it.             *)
(***************************************************************************)
EXTENDS PQueue

HeaderUnits == 5     \* 48 bits of magic, 32 bits of CRC

Defects == {"none", "retrieve", "crc", "overflow"}

(* The words that hold u units, and the bitstream at unit u when the word  *)
(* of index offset is the next to be loaded.                               *)
Words(u) == (u + 1) \div 2

BitsAt(u, offset) == [pos |-> <<u, 0>>, offset |-> offset]

bits_init(offset) == BitsAt(2 * offset, offset)

live(bs) == 2 * bs.offset - bs.pos[1]

max(x, y) == IF x < y THEN y ELSE x

Patterns(s) == ToSet(s.blocks) \cup s.bogus

Pattern(s, base) == CHOOSE b \in Patterns(s) : b.base = base

(* Where the header of block i begins, that of the first one being 0.  The *)
(* trailer begins where the header of one more block would.                *)
From(s, i) == IF i = 1 THEN 0 ELSE s.blocks[i - 1].stop

TrailerFrom(s) == From(s, Len(s.blocks) + 1)

PatternType == [base : Nat, stop : Nat, need : Nat, chunks : Nat, defect : Defects]

BlockOK(b) ==
  /\ b \in PatternType
  /\ b.stop > b.base /\ b.chunks > 0
  /\ b.need \in Words(b.stop) .. Words(b.stop) + 1
  /\ b.defect = "retrieve" => b.chunks = 1

(* The streams that are considered: blocks follow each other, headers and  *)
(* trailers have their sizes, no two patterns share a base, and retrieve() *)
(* gets all the words of a block that it can decode.                       *)
StreamOK(s) ==
  /\ s.blocks \in Seq(PatternType) /\ s.stop \in Nat /\ s.len \in Nat
  /\ \A i, j \in 1 .. Len(s.blocks) : i < j => s.blocks[i].stop <= From(s, j)
  /\ \A b \in Patterns(s) : BlockOK(b) /\ (b.need > Words(s.len) => b.defect = "retrieve")
  /\ \A i \in 1 .. Len(s.blocks) : s.blocks[i].base >= From(s, i) + HeaderUnits
  /\ s.stop >= TrailerFrom(s) + HeaderUnits /\ s.garbage \in 1 .. 2
  /\ \A b, c \in Patterns(s) : b.base = c.base => b = c
  /\ \A b \in s.bogus : b.base >= HeaderUnits

(* The file is complete and none of its parts is damaged.                  *)
Sound(s) ==
  /\ s.intact /\ s.stop <= s.len
  /\ \A b \in ToSet(s.blocks) : b.defect = "none"

(***************************************************************************)
(* parse().                                                                *)
(***************************************************************************)
(* What the parser meets next when it stands at unit u: the start of a     *)
(* block, the end of the stream, or an error, at once if there is no       *)
(* header where it stands.                                                 *)
Landmark(s, u) ==
  IF \E i \in 1 .. Len(s.blocks) : From(s, i) <= u /\ u < s.blocks[i].base
  THEN LET i == CHOOSE i \in 1 .. Len(s.blocks) : From(s, i) <= u /\ u < s.blocks[i].base
       IN [rv |-> "OK", at |-> s.blocks[i].base]
  ELSE IF TrailerFrom(s) <= u /\ u < s.stop /\ ~ s.intact THEN [rv |-> "ERR", at |-> s.stop]
  ELSE IF TrailerFrom(s) <= u /\ u < s.stop + s.garbage
  THEN [rv |-> "FINISH", at |-> s.stop + s.garbage]
  ELSE [rv |-> "ERR", at |-> u + 1]

(* parse() from bs when the words before limit are there; done: and there  *)
(* will be no more.                                                        *)
Parse(s, bs, limit, done) ==
  LET mark == Landmark(s, bs.pos[1])
      end == 2 * limit
      at == IF mark.at <= end THEN mark.at ELSE end
      rv == IF mark.at <= end THEN mark.rv
            ELSE IF ~ done THEN "MORE"
            ELSE IF mark.rv = "FINISH" /\ end >= s.stop THEN "FINISH" ELSE "ERR"
  IN [rv |-> rv, bs |-> BitsAt(at, max(bs.offset, Words(at)))]

(***************************************************************************)
(* retrieve() of the block (or what looks like one) b.                     *)
(***************************************************************************)
(* An error may leave the bitstream where this call found it.              *)
Retrieve(b, bs, limit, done) ==
  IF done THEN {[rv |-> "OVER", bs |-> bs]}
  ELSE IF b.need > limit
  THEN {[rv |-> "MORE", bs |-> BitsAt(min(2 * limit, b.stop), limit)]}
  ELSE {[rv |-> "OVER", bs |-> BitsAt(b.stop, b.need)]}
         \cup (IF b.defect = "retrieve" THEN {[rv |-> "OVER", bs |-> bs]} ELSE {})

(***************************************************************************)
(* scan().                                                                 *)
(***************************************************************************)
(* Skipping is by whole words; what is live is skipped or scanned as one.  *)
SkipTo(bs, skip, limit) ==
  IF skip > live(bs) THEN 2 * min(limit, bs.offset + Words(skip - live(bs))) ELSE bs.pos[1]

(* Headers that lie between what is skipped and the end of the words.      *)
Found(s, bs, skip, limit) ==
  {b.base : b \in {c \in Patterns(s) : /\ c.base - HeaderUnits >= SkipTo(bs, skip, limit)
                                       /\ c.base <= 2 * limit}}

Scan(s, bs, skip, limit) ==
  LET found == Found(s, bs, skip, limit)
      first == CHOOSE u \in found : \A v \in found : u <= v
  IN IF found = {} THEN [rv |-> "MORE", bs |-> BitsAt(2 * limit, limit)]
     ELSE [rv |-> "OK", bs |-> BitsAt(first, Words(first))]
=============================================================================

----------------------------- MODULE Container -----------------------------
(***************************************************************************)
(* What a compressed file looks like: as compress.c and encode.c write it, *)
(* and as other compressors do and cat makes of several files.             *)
(*                                                                         *)
(* A file is a record.  Its streams have a level and blocks; a block has a *)
(* CRC, of 32 bits, and a body, which is opaque here.  Behind the streams  *)
(* there is a tail that is none.  A file may have been damaged - one bit   *)
(* of one field of a stream is flipped - or cut, by a number of bytes.     *)
(***************************************************************************)
EXTENDS Util

Bytes(s) == FlattenSeq([i \in DOMAIN s |-> [k \in 1 .. 8 |-> (s[i] \div 2 ^ (8 - k)) % 2]])

Xor(s, t) == [i \in DOMAIN s |-> (s[i] + t[i]) % 2]
Zeros(n) == [i \in 1 .. n |-> 0]
Flipped(s, i) == [s EXCEPT ![i] = 1 - @]

StreamMagic == Bytes(<<66, 90, 104>>)
BlockMagic == Bytes(<<49, 65, 89, 38, 83, 89>>)
TrailerMagic == Bytes(<<23, 114, 69, 56, 80, 144>>)

(* combine_crc() on the CRC as it is transmitted: to the left in a circle. *)
combine_crc(cc, crc) == Xor([i \in 1 .. 32 |-> cc[(i % 32) + 1]], crc)

combined_crc(blocks) == FoldLeft(LAMBDA cc, b : combine_crc(cc, b.crc), Zeros(32), blocks)

(* The fields of a stream: write_header(), the head of transmit() and its  *)
(* rest for each block, write_trailer().                                   *)
write_header(st) == <<[name |-> "header", bits |-> StreamMagic \o Bytes(<<48 + st.level>>)]>>

transmitted(b) ==
  <<[name |-> "block magic", bits |-> BlockMagic], [name |-> "block crc", bits |-> b.crc],
    [name |-> "body", bits |-> b.body]>>

write_trailer(st) ==
  <<[name |-> "trailer magic", bits |-> TrailerMagic],
    [name |-> "stream crc", bits |-> combined_crc(st.blocks)]>>

Fields(st) ==
  write_header(st) \o FlattenSeq([i \in DOMAIN st.blocks |-> transmitted(st.blocks[i])])
    \o write_trailer(st)

Joined(fields) == FlattenSeq([i \in DOMAIN fields |-> fields[i].bits])
PaddedTo(n, s) == s \o Zeros((0 - Len(s)) % n)

(* A stream is padded to whole bytes.                                      *)
StreamBits(st) == PaddedTo(8, Joined(Fields(st)))

(* damage: bit number bit of a field number field of stream number stream. *)
Undamaged == [stream |-> 0, field |-> 0, bit |-> 0]

Damaged(fields, damage) ==
  [fields EXCEPT ![damage.field].bits = Flipped(@, damage.bit)]

Contents(f) ==
  FlattenSeq([k \in DOMAIN f.streams |->
    LET fields == Fields(f.streams[k])
    IN PaddedTo(8, Joined(IF f.damage.stream = k THEN Damaged(fields, f.damage) ELSE fields))])
  \o Bytes(f.tail)

(* The bits of the file; those of the last word that are not of the file,  *)
(* which on_input_avail() clears, are not among them.                      *)
FileBits(f) == LET c == Contents(f) IN SubSeq(c, 1, Len(c) - 8 * f.cut)

(***************************************************************************)
(* What is to be made of a file.                                           *)
(***************************************************************************)
(* Where stream k ends.                                                    *)
RECURSIVE End(_, _)
End(f, k) == IF k = 0 THEN 0 ELSE End(f, k - 1) + Len(StreamBits(f.streams[k]))

DamagedField(f, k) ==
  IF f.damage.stream = k THEN Fields(f.streams[k])[f.damage.field].name ELSE "none"

(* The header of stream k, as it is in the file.                           *)
HeaderOf(f, k) ==
  LET h == write_header(f.streams[k])
  IN IF DamagedField(f, k) = "header" THEN Damaged(h, f.damage)[1].bits ELSE h[1].bits

LevelOf(f, k) == CHOOSE l \in 1 .. 9 \cup {0} :
  IF \E m \in 1 .. 9 : HeaderOf(f, k) = write_header([level |-> m])[1].bits
  THEN l > 0 /\ HeaderOf(f, k) = write_header([level |-> l])[1].bits
  ELSE l = 0

(* Stream k is there, if not as a whole: the first one always is, as       *)
(* work() has seen its header.  Else, what follows is ignored.             *)
Begun(f, k) ==
  /\ k \in DOMAIN f.streams
  /\ k > 1 => LevelOf(f, k) > 0 /\ Len(FileBits(f)) >= End(f, k - 1) + 32

(* The streams that count.                                                 *)
Streams(f) == {k \in DOMAIN f.streams : \A j \in 1 .. k : Begun(f, j)}

Whole(f, k) ==
  /\ Len(FileBits(f)) >= End(f, k)
  /\ DamagedField(f, k) \in {"none", "header", "body"}

Valid(f) == \A k \in Streams(f) : Whole(f, k)

Headers(f, k) ==
  LET st == f.streams[k]
  IN [i \in DOMAIN st.blocks |->
        [bs100k |-> IF k = 1 THEN st.level ELSE LevelOf(f, k), crc |-> st.blocks[i].crc]]

(* The blocks of a valid file.                                             *)
Blocks(f) == FlattenSeq([k \in 1 .. Cardinality(Streams(f)) |-> Headers(f, k)])
=============================================================================

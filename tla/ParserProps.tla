----------------------------- MODULE ParserProps -----------------------------
(***************************************************************************)
(* What must hold of parse() and scan() (modules Parser and Scanner).      *)
(***************************************************************************)
EXTENDS Parser

(* parse() finds the blocks of every stream, in order and with their CRCs  *)
(* and levels, wherever its input is cut into buffers.  It accepts the     *)
(* file if and only if all streams that count are whole and their CRCs     *)
(* fit - no file that is cut off in a stream, not even in the zeros at the *)
(* end of a CRC, which look like the padding of the last word - and knows  *)
(* where they end.  What follows them, including what only begins like a   *)
(* stream, is ignored.                                                     *)
ParsesFormat ==
  phase \notin {"parse", "body"} =>
    IF Valid(file)
    THEN /\ phase = "FINISH" /\ hds = Blocks(file)
         /\ 32 + Consumed(bs) - garbage = End(file, Cardinality(Streams(file)))
    ELSE phase \in {"ERR_HEADER", "ERR_STRMCRC", "ERR_EOF"}

(* scan() returns the first header of a block, at whichever bit it starts  *)
(* and whatever part of the pattern is in front of it, provided that all   *)
(* of it is in the words given; without one it consumes these words.  It   *)
(* may miss one that starts in the bits skip is rounded up by.             *)
Hits(limit) ==
  {p \in 0 .. WORD * limit - 80 : SubSeq(bits, p + 1, p + 48) = BlockMagic}

FindsIn(b, skip) ==
  LET found == Value(scan(bits, b, skip))
      at == Consumed(found.bs)
      from == Consumed(b) + (IF skip = 0 THEN 0 ELSE skip + WORD - 1)
      before(p) == {q \in Hits(b.limit) : from <= q /\ q < p}
  IN IF found.rv = "OK" THEN at - 80 \in Hits(b.limit) /\ at - 80 >= Consumed(b) /\ before(at - 80) = {}
     ELSE at = WORD * b.limit /\ before(at) = {}

(* Files that are as they should be are searched when parsing starts.      *)
Started == hds = <<>> /\ bs.limit = 0 /\ file.cut = 0 /\ file.damage = Undamaged

ScanFinds ==
  Started =>
    \A data \in 0 .. 2, live \in {0, 1, 31}, skip \in {0, 20, 100}, short \in 0 .. 2 :
      data + short <= Words /\ live <= WORD * data =>
        FindsIn([live |-> live, data |-> data, limit |-> Words - short, eof |-> FALSE], skip)
=============================================================================

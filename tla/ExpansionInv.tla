---------------------------- MODULE ExpansionInv ----------------------------
(***************************************************************************)
(* Why the decompressor has one master, finds the input it needs, has room *)
(* in its queues, ends with nothing left over and writes what a decoder of *)
(* one block after the other would: the inductive invariants of module     *)
(* Expansion that OneMaster and InputAvailable (MasterInv), QueuesFit      *)
(* (ChunkInv), AtExitClean (EndInv) and ImplementsSequentialDecoder        *)
(* (FaithInv) follow from.                                                 *)
(***************************************************************************)
EXTENDS ExpansionProps, PQueueProofs

(* struct detached_bitstream, retr_blk and unord_blk.  Blocks start and    *)
(* end at units, and the link of a retriever is the base of its entry in   *)
(* ublk.                                                                   *)
UnitPos == Nat \X {0}
Bits == [pos : UnitPos, offset : Nat]
RetrBlk == [pos : UnitPos, offset : Nat, base : Nat, link : Nat \cup {NULL}]
UnordBlk == [end_pos : Bits, complete : BOOLEAN, legitimate : BOOLEAN]

PatternBases(s) == {b.base : b \in Patterns(s)}
RealBases(s) == {b.base : b \in ToSet(s.blocks)}

(* A bitstream at unit u, with less than two words live, and all that is   *)
(* loaded was there to be loaded.                                          *)
Loaded(u, offset, tail) == Words(u) <= offset /\ offset <= Words(u) + 1 /\ offset <= tail

(***************************************************************************)
(* The input.                                                              *)
(***************************************************************************)
(* Input blocks are full, until the last one.                              *)
Aligned(offset) == \E k \in Nat : 2 * offset = InGranul * k

SourceSteady ==
  /\ stream \in Streams
  /\ head_offs \in Nat /\ tail_offs \in Nat /\ file_len \in Nat
  /\ ispec_total \in 0 .. file_len
  /\ source = "deliver" => avail \in 1 .. InGranul
  /\ source \in {"top", "stalled", "read", "deliver"} => Aligned(tail_offs)
  /\ eof => source = "done"

Chain(q, head, tail) ==
  /\ q \in Seq(InBlk)
  /\ \A i \in 1 .. Len(q) :
       /\ q[i].offset = IF i = 1 THEN head ELSE End(q[i - 1])
       /\ Aligned(q[i].offset) /\ 2 * q[i].size <= InGranul
       /\ head <= q[i].offset /\ End(q[i]) <= tail
  /\ \A i, j \in 1 .. Len(q) : i < j => End(q[i]) <= q[j].offset
  /\ tail = IF q = <<>> THEN head ELSE End(q[Len(q)])

Apart(b, c) == b = c \/ End(b) <= c.offset \/ End(c) <= b.offset

Readers3 == {"parse", "retrieve", "scan"}

(* Who reads, reads from a block that is kept, or behind the head.         *)
Held ==
  /\ blk \in [Workers -> InBlk \cup {NULL}] /\ DOMAIN job = Workers
  /\ \A w \in Workers : blk[w] # NULL =>
       /\ End(blk[w]) <= tail_offs
       /\ blk[w] \in ToSet(input_q) \/ End(blk[w]) <= head_offs
       /\ pc[w] \in Readers3
  /\ \A v, w \in Workers : blk[v] # NULL /\ blk[w] # NULL => Apart(blk[v], blk[w])

Referred ==
  /\ \A b \in ToSet(input_q) : b.offset \in DOMAIN ref_count
  /\ \A w \in Workers : blk[w] # NULL => blk[w].offset \in DOMAIN ref_count
  /\ \A o \in DOMAIN ref_count :
       ref_count[o] = Slots(InQueue(o)) + Cardinality(Readers(o)) /\ ref_count[o] > 0

ReadsFrom(j, b, tail) ==
  IF b = NULL THEN eof /\ j.offset = tail
  ELSE b.offset <= j.offset /\ j.offset < End(b)

InputInHand ==
  /\ \A w \in Workers : pc[w] \in {"parse", "retrieve"} => ReadsFrom(job[w], blk[w], tail_offs)
  /\ \A w \in Workers : pc[w] = "scan" => blk[w] # NULL

(***************************************************************************)
(* The parser.                                                             *)
(***************************************************************************)
(* Where the parser may stand: it is not ahead of the block it will find.  *)
PlaceOK(s, bs, tail) ==
  /\ bs \in Bits /\ Loaded(bs.pos[1], bs.offset, tail)
  /\ \A u \in RealBases(s) : bs.pos[1] < u => bs.offset <= Words(u)

ParserPlaced ==
  /\ PlaceOK(stream, parser_bs, tail_offs) /\ head_offs <= parser_bs.offset
  /\ input_q # <<>> => parser_bs.offset < End(input_q[1])
  /\ \A w \in Workers : pc[w] = "parse" => job[w] = parser_bs

(***************************************************************************)
(* The retrievers: their jobs, the bases in unord_q, the entries of ublk,  *)
(* and where the parser is.                                                *)
(***************************************************************************)
Jobs == ToSet(retr_q) \cup InHand

JobOK(s, rb, tail) ==
  /\ rb \in RetrBlk /\ rb.base \in PatternBases(s)
  /\ rb.base <= rb.pos[1] /\ rb.pos[1] <= Pattern(s, rb.base).stop
  /\ Loaded(rb.pos[1], rb.offset, tail) /\ rb.offset <= Pattern(s, rb.base).need
  /\ rb.link \in {NULL, rb.base}

(* The parser has not come to the base yet.                                *)
Pending(rb, B, ub) ==
  /\ rb.base \in B /\ rb.link = rb.base
  /\ ~ ub[rb.base].complete /\ ub[rb.base].end_pos = BitsAt(rb.pos[1], rb.offset)

(* The parser has, and has told those who began before.                    *)
Judged(s, rb, B, ub, p) ==
  /\ rb.base <= p /\ rb.base \notin B
  /\ IF rb.link = NULL THEN rb.base \in RealBases(s)
     ELSE /\ rb.base \in DOMAIN ub /\ ub[rb.base].complete
          /\ ub[rb.base].legitimate <=> rb.base \in RealBases(s)

EndOK(s, u, e, tail) ==
  u <= e.pos[1] /\ e.pos[1] <= Pattern(s, u).stop /\ Loaded(e.pos[1], e.offset, tail)

PatternOK(s, u, J, ub, p, tail) ==
  /\ u \in DOMAIN ub /\ u \in PatternBases(s) /\ EndOK(s, u, ub[u].end_pos, tail)
  /\ ub[u].complete => \A rb \in J : rb.base # u
  /\ u \in RealBases(s) => p < u /\ (ub[u].complete \/ \E rb \in J : rb.base = u)

Work(s, J, B, ub, p, tail) ==
  /\ \A rb \in J : JobOK(s, rb, tail) /\ (Pending(rb, B, ub) \/ Judged(s, rb, B, ub, p))
  /\ \A u \in DOMAIN ub : u \in Nat /\ ub[u] \in UnordBlk /\ (u \in B \/ u <= p)
  /\ \A u \in B : PatternOK(s, u, J, ub, p, tail)

(* Nobody works on the same pattern twice.                                 *)
NoRepeats(q) == \A i, j \in 1 .. Len(q) : q[i].base = q[j].base => i = j

OnePerPattern ==
  /\ NoRepeats(retr_q)
  /\ \A v, w \in At({"retrieve"}) : job[v].base = job[w].base => v = w
  /\ \A rb \in ToSet(retr_q), w \in At({"retrieve"}) : rb.base # job[w].base

Retrievers ==
  /\ retr_q \in Seq(RetrBlk) /\ OnePerPattern
  /\ unord_q \in Seq([pos : UnitPos]) /\ Sorted(unord_q)
  /\ Work(stream, Jobs, Bases(unord_q), ublk, parser_bs.pos[1], tail_offs)

(***************************************************************************)
(* Mastership.                                                             *)
(***************************************************************************)
(* The jobs on blocks of the stream that the parser has come to.           *)
Reached(s, J, p) == {rb \in J : rb.base \in RealBases(s) /\ rb.base <= p}

(* Of the jobs J, the parser at bs, its token and the workers who parse.   *)
Exclusive(s, J, bs, token, parsers) ==
  LET M == Reached(s, J, bs.pos[1])
  IN /\ token \/ parsers # {} \/ M # {}
     /\ token => parsers = {} /\ M = {}
     /\ \A w \in parsers : parsers = {w} /\ M = {}
     /\ \A rb \in M : M = {rb} /\ bs = BitsAt(rb.pos[1], rb.offset)

Mastered == Exclusive(stream, Jobs, parser_bs, parse_token, At({"parse"}))

(***************************************************************************)
(* The scanners.                                                           *)
(***************************************************************************)
(* An input block is scanned once: what was found is behind the scanner.   *)
ScansIn(x, b) ==
  /\ x.pos \in UnitPos /\ x.offset = Words(x.pos[1])
  /\ 2 * b.offset <= x.pos[1] /\ x.offset < End(b)

FoundBehind(x, b, B) == \A u \in B : u <= x.pos[1] \/ u > 2 * End(b)

Scanners ==
  /\ scan_q \in Seq(Bits) /\ Sorted(scan_q)
  /\ \A x \in ToSet(scan_q) :
       \E b \in ToSet(input_q) : ScansIn(x, b) /\ FoundBehind(x, b, Bases(unord_q))
  /\ \A w \in At({"scan"}) :
       /\ ScansIn(job[w], blk[w]) /\ FoundBehind(job[w], blk[w], Bases(unord_q))
       /\ job[w].skip \in Nat
  /\ \A b \in ToSet(input_q) :
       /\ \A x, y \in ToSet(scan_q) : ScansIn(x, b) /\ ScansIn(y, b) => x = y
       /\ \A x \in ToSet(scan_q), w \in At({"scan"}) : ScansIn(x, b) => blk[w] # b
  /\ \A v, w \in At({"scan"}) : blk[v] = blk[w] => v = w

(* The stream has ended.                                                   *)
Finished ==
  /\ input_q = <<>> /\ scan_q = <<>> /\ retr_q = <<>> /\ unord_q = <<>>
  /\ parse_token /\ At({"parse"}) = {}

MasterInv ==
  /\ SourceSteady /\ Chain(input_q, head_offs, tail_offs) /\ Held /\ Referred /\ InputInHand
  /\ IF parsing_done THEN Finished
     ELSE ParserPlaced /\ Retrievers /\ Mastered /\ Scanners

(***************************************************************************)
(* The chunks, on their way from the retrievers to the sink.               *)
(***************************************************************************)
ChunkAt == [pos : Nat \X Nat]

ChunkTypes ==
  /\ emit_q \in Seq(ChunkAt) /\ reord_q \in Seq(ChunkAt) /\ order_q \in Seq(ChunkAt)
  /\ \A w \in At({"decode", "emit"}) : job[w] \in ChunkAt

(* The patterns that are read, those that are retrieved but not emitted to  *)
(* the end, and those whose last chunk is waiting.                         *)
Handed == {job[w].pos[1] : w \in At({"decode", "emit"})}
Lasts == {e.pos[1] : e \in {x \in ToSet(reord_q) : IsLast(x.pos)}}
Carried == Bases(emit_q) \cup Handed \cup Lasts
JobBases == {rb.base : rb \in Jobs}

(* The blocks that the parser has found, in order.                         *)
InOrder(q) == \A i, j \in 1 .. Len(q) : i < j => q[i].pos[1] < q[j].pos[1]

Expected(s, q) ==
  \A i \in 1 .. Len(q) :
    q[i].pos[1] \in RealBases(s) /\ q[i].pos[2] < Pattern(s, q[i].pos[1]).chunks

(* The blocks that have been read before the parser has come to them.      *)
ReadAhead == {u \in Bases(unord_q) \cap RealBases(stream) : ublk[u].complete}

(* A block that is expected is worked on or waits; so is a block that has  *)
(* been read ahead of the parser, which will expect it.                    *)
ChunkInv ==
  /\ ChunkTypes /\ InOrder(order_q) /\ Expected(stream, order_q)
  /\ Bases(order_q) \cup ReadAhead \subseteq JobBases \cup Carried
  /\ IF parsing_done THEN \A w \in At({"retrieve"}) : job[w].base \notin Bases(order_q)
     ELSE \A u \in Bases(order_q) : u <= parser_bs.pos[1]

(***************************************************************************)
(* The end: nobody leaves the loop, and nobody is joined, before the job   *)
(* is finished, and then it stays finished.                                *)
(***************************************************************************)
EndInv ==
  /\ \A w \in Workers : pc[w] = "done" => can_terminate
  /\ shutdown \in {"draining", "done"} => \A w \in Workers : pc[w] = "done"

(***************************************************************************)
(* What is written: a block at a time.                                     *)
(***************************************************************************)
(* All that is read is delivered; until a buffer is not full, or empty,    *)
(* there is more.                                                          *)
Delivered == ispec_total - (IF source = "deliver" THEN avail ELSE 0)

ReadInv ==
  /\ file_len = stream.len /\ (request_close => parsing_done)
  /\ ~ parsing_done =>
       /\ eof_missing \in 0 .. 1 /\ 2 * tail_offs = Delivered + eof_missing
       /\ eof_missing = 1 => source \in {"eof", "done"}
       /\ (source = "deliver" /\ avail < InGranul) \/ source \in {"eof", "done"} =>
            ispec_total = file_len

(* Unit p belongs to a header, or to the trailer and what is read behind   *)
(* it: parse() does not fail there.                                        *)
Stands(s, p) ==
  \/ \E i \in 1 .. Len(s.blocks) : From(s, i) <= p /\ p < s.blocks[i].base
  \/ TrailerFrom(s) <= p /\ p < s.stop + s.garbage

(* What was read ahead was read to the end.                                *)
AheadEnds == \A u \in ReadAhead : ublk[u].end_pos.pos[1] = Pattern(stream, u).stop

(* The parser of a sound stream stands where it can go on, and will be     *)
(* where it can when it takes over what was read ahead.                    *)
ParseInv ==
  IF parsing_done
  THEN /\ stream.intact /\ stream.stop <= stream.len /\ parser_bs.pos[1] = stream.stop
       /\ \A u \in RealBases(stream) : u <= stream.stop
  ELSE /\ stream.intact \/ parser_bs.pos[1] < stream.stop
       /\ Sound(stream) =>
            /\ parse_token \/ At({"parse"}) # {} => Stands(stream, parser_bs.pos[1])
            /\ AheadEnds

FailInv == failed => ~ Sound(stream)

(***************************************************************************)
(* The chunks that have gone to the sink are those of the blocks the       *)
(* parser has come to, up to where order_q says.                           *)
(***************************************************************************)
Out == written \o (IF sink = "write" THEN <<block>> ELSE <<>>) \o output_q

ComeTo(s, p) == {u \in RealBases(s) : u <= p}

(* The chunks of block u that are before the one expected next.            *)
SentOf(s, q, u) ==
  {k \in 0 .. Pattern(s, u).chunks - 1 :
     \A i \in 1 .. Len(q) : q[i].pos[1] = u => k < q[i].pos[2]}

SentOnly(s, p, q, out) ==
  \A e \in ToSet(out) : e.pos[1] \in ComeTo(s, p) /\ e.pos[2] \in SentOf(s, q, e.pos[1])

SentAll(s, p, q, out) ==
  \A u \in ComeTo(s, p) : \A k \in SentOf(s, q, u) : [pos |-> <<u, k>>] \in ToSet(out)

(* Only the first block expected has been begun, and no block that follows *)
(* it is missing.                                                          *)
NextInOrder(s, p, q) ==
  /\ Bases(q) \subseteq ComeTo(s, p)
  /\ \A i \in 2 .. Len(q) : q[i].pos[2] = 0
  /\ q # <<>> => \A u \in ComeTo(s, p) : u < q[1].pos[1] \/ u \in Bases(q)

OutOf(s, p, q, out) ==
  /\ out \in Seq(ChunkAt) /\ Sorted(out)
  /\ SentOnly(s, p, q, out) /\ SentAll(s, p, q, out) /\ NextInOrder(s, p, q)

OutInv ==
  /\ written \in Seq(ChunkAt) /\ output_q \in Seq(ChunkAt) /\ (sink = "write" => block \in ChunkAt)
  /\ OutOf(stream, parser_bs.pos[1], order_q, Out)
  /\ \A e \in ToSet(Out) : ~ Damaged(e.pos)

FaithInv == ReadInv /\ ParseInv /\ FailInv /\ OutInv
=============================================================================

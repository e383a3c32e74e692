----------------------------- MODULE Expansion -----------------------------
(***************************************************************************)
(* expand.c: the decompression job, on the machinery of module Process.    *)
(*                                                                         *)
(* One thread of control is certain: the parser finds a block, a worker    *)
(* retrieves it, and where the block ends the parser goes on.  Whoever has *)
(* the mastership of this chain (the parser, or the retriever of the block *)
(* it found last) moves parser_bs and releases the input behind it.        *)
(* Everybody else speculates: scanners look for bit patterns that seem to  *)
(* start a block, and each pattern gets a retriever of its own, ahead of   *)
(* the parser.  When the parser reaches the pattern it takes over what the *)
(* retriever has done so far; when it has passed it, the work was in vain. *)
(*                                                                         *)
(* Retrieved blocks wait in emit_q for an output slot for each chunk they  *)
(* decode to; chunks wait in reord_q until order_q, where the parser notes *)
(* the blocks it found, says that they are next - or that they are bogus.  *)
(*                                                                         *)
(* Input blocks are counted references: one for input_q, one for each      *)
(* worker that reads the block.  Their buffers hold the input slots.       *)
(***************************************************************************)
EXTENDS Process, Bitstream

CONSTANTS
  Streams,    \* the streams that are considered
  ultra       \* --sequential: do not speculate

ASSUME ExpansionAssumption ==
  /\ InGranul % 2 = 0 /\ Workers # {} /\ ultra \in BOOLEAN
  /\ \A s \in Streams : StreamOK(s) /\ s.len \in FileLens

(* struct in_blk, by the words it holds.                                   *)
InBlk == [offset : Nat, size : Nat \ {0}]

ASSUME NullAssumption == NULL \notin Nat /\ NULL \notin InBlk

(* Units and slots that are not for speculation.                           *)
SCAN_THRESH == 1
EMIT_THRESH == 2
UNORD_THRESH == SCAN_THRESH + EMIT_THRESH

VARIABLES
  stream,                            \* what is in the file
  input_q, head_offs, tail_offs,     \* the input blocks, and their limits
  ref_count,                         \* references to each input block, by its offset
  eof_missing,                       \* units of padding in the last input block
  scan_q, retr_q, emit_q, reord_q,   \* by position
  order_q,                           \* the chunk to be written next, the blocks behind it
  unord_q, ublk,                     \* patterns the parser has not reached, and their state
  parse_token, parsing_done, parser_bs,
  job, blk,                          \* what each worker has in its hands, and the input it reads
  failed                             \* a worker has called failf()

inputVars == <<input_q, head_offs, tail_offs, ref_count, eof_missing>>
queueVars == <<scan_q, retr_q, emit_q, reord_q, order_q>>
unordVars == <<unord_q, ublk>>
parserVars == <<parse_token, parsing_done, parser_bs>>
handVars == <<job, blk>>
jobVars == <<stream, inputVars, queueVars, unordVars, parserVars, handVars, failed>>
vars == <<procVars, jobVars>>

Init ==
  /\ ProcessInit
  /\ stream \in Streams /\ file_len = stream.len
  /\ input_q = <<>> /\ head_offs = 0 /\ tail_offs = 0
  /\ ref_count = <<>> /\ eof_missing = 0
  /\ scan_q = <<>> /\ retr_q = <<>> /\ emit_q = <<>> /\ reord_q = <<>> /\ order_q = <<>>
  /\ unord_q = <<>> /\ ublk = <<>>
  /\ parse_token = TRUE /\ parsing_done = FALSE /\ parser_bs = bits_init(0)
  /\ job = [w \in Workers |-> NULL] /\ blk = [w \in Workers |-> NULL]
  /\ failed = FALSE

(***************************************************************************)
(* The tasks, by priority, and the end of the job.                         *)
(***************************************************************************)
(* can_attach() asserts that nobody wants to read what was released.       *)
Released(bs) == bs.offset < head_offs

can_attach(bs) == bs.offset < tail_offs \/ (eof /\ bs.offset = tail_offs)

(* Mutant of can_reorder: any chunk may be written next.                   *)
can_reorder_Unordered == reord_q # <<>>

can_reorder ==
  /\ reord_q # <<>>
  /\ IF order_q = <<>> THEN parsing_done ELSE pos_le(peek(reord_q).pos, order_q[1].pos)

can_parse == ~ parsing_done /\ parse_token /\ work_units > 0 /\ can_attach(parser_bs)

(* Mutant of can_emit: not even the next block gets the last slots.        *)
can_emit_AboveReserve == emit_q # <<>> /\ out_slots > EMIT_THRESH

can_emit ==
  /\ emit_q # <<>>
  /\ \/ out_slots > EMIT_THRESH
     \/ out_slots > 0 /\ order_q # <<>> /\ pos_eq(peek(emit_q).pos, order_q[1].pos)

can_retrieve == retr_q # <<>> /\ can_attach(peek(retr_q))

can_scan ==
  /\ work_units > SCAN_THRESH \/ (work_units > 0 /\ ~ parse_token)
  /\ ~ ultra /\ scan_q # <<>> /\ can_attach(peek(scan_q))

can_terminate ==
  /\ eof /\ parsing_done /\ parse_token
  /\ work_units = num_worker /\ out_slots = TotalOutSlots

(* select_task() asked can_retrieve(), and its assertion failed: this ends *)
(* the process, with the monitor locked.                                   *)
Abort == "abort"

SelectTask ==
  IF can_reorder THEN "reorder"
  ELSE IF can_parse THEN "parse"
  ELSE IF can_emit THEN "emit"
  ELSE IF retr_q # <<>> /\ Released(peek(retr_q)) THEN Abort
  ELSE IF can_retrieve THEN "retrieve"
  ELSE IF can_scan THEN "scan"
  ELSE NoTask

Unlock(p) ==
  IF SelectTask' = Abort
  THEN next_task' = Abort /\ pc' = p /\ sched_mutex' = Abort
  ELSE SchedUnlock(p, SelectTask', can_terminate')

(* The process is gone: it has ended, well or not, or was aborted.         *)
Gone == shutdown \in {"done", "killed"} \/ next_task = Abort

Return(w) == BackInLoop(w, SelectTask')

(***************************************************************************)
(* Input blocks.                                                           *)
(***************************************************************************)
End(b) == b.offset + b.size

(* The input block that bs reads from; none at the end of the input.       *)
InBlkAt(bs) ==
  IF bs.offset = tail_offs THEN NULL
  ELSE CHOOSE b \in ToSet(input_q) : b.offset <= bs.offset /\ bs.offset < End(b)

(* attach(): worker w is going to read from bs.                            *)
Attach(w, bs) ==
  LET b == InBlkAt(bs)
  IN /\ blk' = [blk EXCEPT ![w] = b]
     /\ ref_count' = IF b = NULL THEN ref_count ELSE [ref_count EXCEPT ![b.offset] = @ + 1]

(* How far worker w can read, and whether it knows that this is the end.   *)
Limit(w, bs) == IF blk[w] = NULL THEN bs.offset ELSE End(blk[w])
Eof(w, bs) == blk[w] = NULL /\ live(bs) < 2

(* References left when input_q gives up the blocks gone and worker w      *)
(* the block it reads; what has none is freed.                             *)
RefsWithout(gone, w) ==
  LET lost(o) == (IF \E b \in gone : b.offset = o THEN 1 ELSE 0)
                   + (IF blk[w] # NULL /\ blk[w].offset = o THEN 1 ELSE 0)
  IN [o \in {p \in DOMAIN ref_count : ref_count[p] > lost(p)} |-> ref_count[o] - lost(o)]

(* source_release_buffer() of every input block that is freed, followed by *)
(* source_close() if close; the source thread may be waiting for either.   *)
ReleaseRefs(gone, w, close) ==
  /\ ref_count' = RefsWithout(gone, w)
  /\ in_slots' = in_slots + Cardinality(DOMAIN ref_count \ DOMAIN ref_count')
  /\ request_close' = (request_close \/ close)
  /\ source' = IF source = "stalled" /\ in_slots = 0 /\ (in_slots' > 0 \/ close)
               THEN "top" ELSE source
  /\ blk' = [blk EXCEPT ![w] = NULL]
  /\ UNCHANGED <<file_len, ispec_total, avail, tail_offs, eof_missing, stream>>

(* detach() by somebody who is not the master.                             *)
Detach(w) ==
  /\ ReleaseRefs({}, w, FALSE)
  /\ UNCHANGED <<input_q, head_offs, parser_bs>>

(* How many elements of q are taken off its front before the first one     *)
(* whose index is in I, and what remains when n have been.                 *)
Before(q, I) == IF I = {} THEN Len(q) ELSE Min(I) - 1
Without(q, n) == SubSeq(q, n + 1, Len(q))

(* Mutant of Passed: an input block that is still needed counts as passed. *)
Passed_Early(bs) == Before(input_q, {i \in 1 .. Len(input_q) : End(input_q[i]) > bs.offset + 1})

(* The number of input blocks that bs has passed.                          *)
Passed(bs) == Before(input_q, {i \in 1 .. Len(input_q) : End(input_q[i]) > bs.offset})

(* What remains of retr_q and scan_q: released input is looked for at the  *)
(* head only.                                                              *)
Kept(q) == Without(q, Before(q, {i \in 1 .. Len(q) : q[i].offset >= head_offs'}))

(* detach() and advance(): the master has come to bs.  The sizes of the    *)
(* blocks it has passed, which are contiguous, are added to head_offs;     *)
(* work units of the retrieve jobs that are dropped are given back, and    *)
(* more besides.                                                           *)
Advance(w, bs, more) ==
  /\ ReleaseRefs({input_q[i] : i \in 1 .. Passed(bs)}, w, FALSE)
  /\ input_q' = Without(input_q, Passed(bs))
  /\ head_offs' = IF Passed(bs) = 0 THEN head_offs
                  ELSE head_offs + (End(input_q[Passed(bs)]) - input_q[1].offset)
  /\ parser_bs' = bs
  /\ scan_q' = Kept(scan_q)
  /\ work_units' = work_units + Len(retr_q) - Len(Kept(retr_q)) + more

(***************************************************************************)
(* The parser.                                                             *)
(***************************************************************************)
DoParse(w) ==
  /\ AtTask(w, "parse")
  /\ parse_token' = FALSE
  /\ work_units' = work_units - 1
  /\ job' = [job EXCEPT ![w] = parser_bs]
  /\ Attach(w, parser_bs)
  /\ UNCHANGED <<sourceVars, sinkVars, eof, out_slots, shutdown, stream,
                 input_q, head_offs, tail_offs, eof_missing, queueVars, unordVars,
                 parsing_done, parser_bs, failed>>
  /\ Unlock([pc EXCEPT ![w] = "parse"])

(* What parse() returns to worker w, which locks the monitor in detach().  *)
Parsed(w) == Parse(stream, job[w], Limit(w, job[w]), Eof(w, job[w]))

ParseReturns(w, rv) == pc[w] = "parse" /\ MonitorFree /\ Parsed(w).rv = rv

(* The trailer ends in the padding: the file is cut off.                   *)
CutOff ==
  /\ Words(stream.stop) = tail_offs
  /\ 2 * tail_offs - stream.stop < eof_missing

(* failf() by worker w: its thread ends with the monitor locked, so nobody *)
(* sees what it changed last.  The I/O threads go on until the main thread *)
(* ends the process.                                                       *)
Fail(w) ==
  /\ failed' = TRUE
  /\ sched_mutex' = w
  /\ UNCHANGED <<sourceVars, sinkVars, next_task, slotVars, shutdown,
                 stream, inputVars, queueVars, unordVars, parserVars, handVars>>

Killed ==
  /\ failed /\ ~ Gone
  /\ shutdown' = "killed"
  /\ UNCHANGED <<sourceVars, sinkVars, schedVars, slotVars, jobVars>>

ParseMore(w) ==
  /\ ParseReturns(w, "MORE")
  /\ Advance(w, Parsed(w).bs, 1)
  /\ retr_q' = Kept(retr_q)
  /\ parse_token' = TRUE
  /\ job' = [job EXCEPT ![w] = NULL]
  /\ UNCHANGED <<sinkVars, eof, out_slots, shutdown, emit_q, reord_q, order_q,
                 unordVars, parsing_done, failed>>
  /\ Return(w)

ParseFail(w) ==
  /\ pc[w] = "parse" /\ MonitorFree
  /\ Parsed(w).rv \in (IF CutOff THEN {"ERR", "FINISH"} ELSE {"ERR"})
  /\ Fail(w)
  /\ UNCHANGED pc

(* The patterns of unord_q that are not to be taken: whoever still works   *)
(* on one is told so, the others are done with.                            *)
Rejected(bases) ==
  [u \in {v \in DOMAIN ublk : ~ (v \in bases /\ ublk[v].complete)} |->
    IF u \in bases THEN [ublk[u] EXCEPT !.complete = TRUE, !.legitimate = FALSE] ELSE ublk[u]]

Bases(q) == {e.pos[1] : e \in ToSet(q)}

(* Mutant of RejectAll: unord_q is not emptied.                            *)
RejectAll_Forgotten == UNCHANGED unordVars

RejectAll == unord_q' = <<>> /\ ublk' = Rejected(Bases(unord_q))

(* The stream ends.  All input and all work on it is released; what the    *)
(* source thread still reads will be refused.                              *)
ParseFinish(w) ==
  /\ ParseReturns(w, "FINISH") /\ ~ CutOff
  /\ ReleaseRefs(ToSet(input_q), w, TRUE)
  /\ input_q' = <<>> /\ head_offs' = tail_offs
  /\ parser_bs' = BitsAt(stream.stop, Words(stream.stop))
  /\ scan_q' = <<>> /\ retr_q' = <<>>
  /\ work_units' = work_units + Len(retr_q) + 1
  /\ RejectAll
  /\ parse_token' = TRUE /\ parsing_done' = TRUE
  /\ job' = [job EXCEPT ![w] = NULL]
  /\ UNCHANGED <<sinkVars, eof, out_slots, shutdown, emit_q, reord_q, order_q, failed>>
  /\ Return(w)

(* A block is found.  Patterns before it are bogus.                        *)
Overtaken(q, pos) == SubSeq(q, 1, Before(q, {i \in 1 .. Len(q) : ~ pos_lt(q[i].pos, pos)}))
Remaining(q, pos) == Without(q, Before(q, {i \in 1 .. Len(q) : pos_lt(pos, q[i].pos)}))

BlockParsed(w) ==
  LET pos == Parsed(w).bs.pos
  IN /\ ParseReturns(w, "OK")
     /\ order_q' = Append(order_q, [pos |-> pos])
     /\ unord_q' = Remaining(unord_q, pos)
     /\ job' = [job EXCEPT ![w] = NULL]
     /\ UNCHANGED <<sinkVars, eof, out_slots, shutdown, emit_q, reord_q, parsing_done, failed>>

(* Nobody works on the block yet: a retriever is queued for it, with the   *)
(* parser's work unit.                                                     *)
ParseUnique(w) ==
  LET bs == Parsed(w).bs
  IN /\ BlockParsed(w) /\ bs.pos[1] \notin Bases(unord_q)
     /\ Advance(w, bs, 0)
     /\ retr_q' = enqueue(Kept(retr_q), [pos |-> bs.pos, offset |-> bs.offset,
                                         base |-> bs.pos[1], link |-> NULL])
     /\ ublk' = Rejected(Bases(Overtaken(unord_q, bs.pos)))
     /\ UNCHANGED parse_token
     /\ Return(w)

(* The block is one that a scanner had found: the parser goes on where its *)
(* retriever is, or has ended.                                             *)
ParseTaken(w) ==
  LET pos == Parsed(w).bs.pos
      base == pos[1]
      judged == Rejected(Bases(Overtaken(unord_q, pos)))
  IN /\ BlockParsed(w) /\ base \in Bases(unord_q)
     /\ Advance(w, ublk[base].end_pos, 1)
     /\ retr_q' = Kept(retr_q)
     /\ IF ublk[base].complete
        THEN /\ parse_token' = TRUE
             /\ ublk' = [u \in DOMAIN judged \ {base} |-> judged[u]]
        ELSE /\ ublk' = [judged EXCEPT ![base].complete = TRUE, ![base].legitimate = TRUE]
             /\ UNCHANGED parse_token
     /\ Return(w)

(***************************************************************************)
(* The retrievers.                                                         *)
(***************************************************************************)
DoRetrieve(w) ==
  LET rb == peek(retr_q)
  IN /\ AtTask(w, "retrieve")
     /\ retr_q' = dequeue(retr_q)
     /\ job' = [job EXCEPT ![w] = rb]
     /\ Attach(w, rb)
     /\ UNCHANGED <<sourceVars, sinkVars, slotVars, shutdown, stream,
                    input_q, head_offs, tail_offs, eof_missing,
                    scan_q, emit_q, reord_q, order_q, unordVars, parserVars, failed>>
     /\ Unlock([pc EXCEPT ![w] = "retrieve"])

(* Possible results of retrieve() for worker w.                            *)
Retrieved(w) ==
  Retrieve(Pattern(stream, job[w].base), BitsAt(job[w].pos[1], job[w].offset),
           Limit(w, job[w]), Eof(w, job[w]))

(* The pattern was overtaken by the parser, or the stream has ended.       *)
InVain(rb) ==
  parsing_done \/ (rb.link # NULL /\ ublk[rb.link].complete /\ ~ ublk[rb.link].legitimate)

(* Mutant of IsMaster: only a retriever queued by the parser is one.       *)
IsMaster_Queued(rb) == rb.link = NULL

(* The parser waits for this block.                                        *)
IsMaster(rb) == rb.link # NULL => ublk[rb.link].complete

RetrieveReturns(w) == pc[w] = "retrieve" /\ MonitorFree

(* Mutant of RetrieveAbort: the work unit is not given back.               *)
RetrieveAbort_KeepsUnit(w) ==
  /\ RetrieveReturns(w) /\ InVain(job[w])
  /\ Detach(w)
  /\ job' = [job EXCEPT ![w] = NULL]
  /\ UNCHANGED <<sinkVars, slotVars, shutdown, queueVars, unordVars,
                 parse_token, parsing_done, failed>>
  /\ Return(w)

RetrieveAbort(w) ==
  /\ RetrieveReturns(w) /\ InVain(job[w])
  /\ Detach(w)
  /\ work_units' = work_units + 1
  /\ job' = [job EXCEPT ![w] = NULL]
  /\ UNCHANGED <<sinkVars, eof, out_slots, shutdown, queueVars, unordVars,
                 parse_token, parsing_done, failed>>
  /\ Return(w)

MovedTo(rb, bs) == [rb EXCEPT !.pos = bs.pos, !.offset = bs.offset]

RetrieveMoreAsMaster(w) ==
  /\ RetrieveReturns(w) /\ ~ InVain(job[w]) /\ IsMaster(job[w])
  /\ \E r \in Retrieved(w) :
    /\ r.rv = "MORE"
    /\ Advance(w, r.bs, 0)
    /\ retr_q' = enqueue(Kept(retr_q), MovedTo(job[w], r.bs))
    /\ job' = [job EXCEPT ![w] = NULL]
    /\ UNCHANGED <<sinkVars, eof, out_slots, shutdown, emit_q, reord_q, order_q,
                   unordVars, parse_token, parsing_done, failed>>
    /\ Return(w)

(* Ahead of the parser, the retriever notes how far it has come.           *)
RetrieveMoreAhead(w) ==
  /\ RetrieveReturns(w) /\ ~ InVain(job[w]) /\ ~ IsMaster(job[w])
  /\ \E r \in Retrieved(w) :
    /\ r.rv = "MORE"
    /\ Detach(w)
    /\ ublk' = [ublk EXCEPT ![job[w].link].end_pos = r.bs]
    /\ retr_q' = enqueue(retr_q, MovedTo(job[w], r.bs))
    /\ job' = [job EXCEPT ![w] = NULL]
    /\ UNCHANGED <<sinkVars, slotVars, shutdown, scan_q, emit_q, reord_q, order_q,
                   unord_q, parse_token, parsing_done, failed>>
    /\ Return(w)

ToDecode(w) ==
  /\ job' = [job EXCEPT ![w] = [pos |-> <<job[w].base, 0>>]]
  /\ Unlock([pc EXCEPT ![w] = "decode"])

(* The block is read, and mastership passes to the parser.                 *)
RetrieveOverAsMaster(w) ==
  /\ RetrieveReturns(w) /\ ~ InVain(job[w]) /\ IsMaster(job[w])
  /\ \E r \in Retrieved(w) :
    /\ r.rv = "OVER"
    /\ Advance(w, r.bs, 0)
    /\ retr_q' = Kept(retr_q)
    /\ parse_token' = TRUE
    /\ ublk' = [u \in DOMAIN ublk \ {job[w].link} |-> ublk[u]]
    /\ UNCHANGED <<sinkVars, eof, out_slots, shutdown, emit_q, reord_q, order_q,
                   unord_q, parsing_done, failed>>
    /\ ToDecode(w)

RetrieveOverAhead(w) ==
  /\ RetrieveReturns(w) /\ ~ InVain(job[w]) /\ ~ IsMaster(job[w])
  /\ \E r \in Retrieved(w) :
    /\ r.rv = "OVER"
    /\ Detach(w)
    /\ ublk' = [ublk EXCEPT ![job[w].link].end_pos = r.bs, ![job[w].link].complete = TRUE]
    /\ UNCHANGED <<sinkVars, slotVars, shutdown, queueVars, unord_q,
                   parse_token, parsing_done, failed>>
    /\ ToDecode(w)

Decoded(w) ==
  /\ pc[w] = "decode"
  /\ emit_q' = enqueue(emit_q, job[w])
  /\ job' = [job EXCEPT ![w] = NULL]
  /\ UNCHANGED <<sourceVars, sinkVars, slotVars, shutdown, stream, inputVars,
                 scan_q, retr_q, reord_q, order_q, unordVars, parserVars, blk, failed>>
  /\ Return(w)

(***************************************************************************)
(* Emitting and reordering.                                                *)
(***************************************************************************)
DoEmit(w) ==
  /\ AtTask(w, "emit")
  /\ out_slots' = out_slots - 1
  /\ job' = [job EXCEPT ![w] = peek(emit_q)]
  /\ emit_q' = dequeue(emit_q)
  /\ UNCHANGED <<sourceVars, sinkVars, eof, work_units, shutdown, stream, inputVars,
                 scan_q, retr_q, reord_q, order_q, unordVars, parserVars, blk, failed>>
  /\ Unlock([pc EXCEPT ![w] = "emit"])

(* The chunk at pos completes its block, and the chunk behind pos.         *)
IsLast(pos) == pos[2] + 1 = Pattern(stream, pos[1]).chunks
After(pos) == <<pos[1], pos[2] + 1>>

Emitted(w) ==
  LET pos == job[w].pos
  IN /\ pc[w] = "emit"
     /\ IF IsLast(pos)
        THEN work_units' = work_units + 1 /\ UNCHANGED emit_q
        ELSE emit_q' = enqueue(emit_q, [pos |-> After(pos)]) /\ UNCHANGED work_units
     /\ reord_q' = enqueue(reord_q, job[w])
     /\ job' = [job EXCEPT ![w] = NULL]
     /\ UNCHANGED <<sourceVars, sinkVars, eof, out_slots, shutdown, stream, inputVars,
                    scan_q, retr_q, order_q, unordVars, parserVars, blk, failed>>
     /\ Return(w)

(* What can be reordered first is no part of the block expected next.      *)
Bogus(pos) == order_q # <<>> => pos_lt(pos, order_q[1].pos)

RejectBogus(w) ==
  /\ AtTask(w, "reorder")
  /\ Bogus(peek(reord_q).pos)
  /\ reord_q' = dequeue(reord_q)
  /\ out_slots' = out_slots + 1
  /\ UNCHANGED <<sourceVars, sinkVars, sched_mutex, pc, eof, work_units, shutdown, stream,
                 inputVars, scan_q, retr_q, emit_q, order_q, unordVars, parserVars, handVars,
                 failed>>
  /\ next_task' = SelectTask'

(* do_reorder() finds that the chunk is in error: a block that is too      *)
(* large at its first chunk, other errors at the last one.                 *)
Damaged(pos) ==
  LET defect == Pattern(stream, pos[1]).defect
  IN defect = "overflow" \/ (defect # "none" /\ IsLast(pos))

ReorderFail(w) ==
  /\ AtTask(w, "reorder")
  /\ ~ Bogus(peek(reord_q).pos) /\ Damaged(peek(reord_q).pos)
  /\ Fail(w)
  /\ pc' = [pc EXCEPT ![w] = "dead"]

DoReorder(w) ==
  LET oblk == peek(reord_q)
  IN /\ AtTask(w, "reorder")
     /\ ~ Bogus(oblk.pos) /\ ~ Damaged(oblk.pos)
     /\ reord_q' = dequeue(reord_q)
     /\ order_q' = IF IsLast(oblk.pos) THEN Tail(order_q)
                   ELSE <<[pos |-> After(oblk.pos)]>> \o Tail(order_q)
     /\ SinkWriteBuffer(oblk)
     /\ UNCHANGED <<sourceVars, sched_mutex, pc, slotVars, shutdown, stream, inputVars,
                    scan_q, retr_q, emit_q, unordVars, parserVars, handVars, failed>>
     /\ next_task' = SelectTask'

(***************************************************************************)
(* The scanners.                                                           *)
(***************************************************************************)
(* The major position of unit u: the input block it is in.                 *)
Major(u) == u \div InGranul

(* What the parser has passed need not be scanned.                         *)
Skip(bs) ==
  IF Major(bs.pos[1]) = Major(parser_bs.pos[1]) /\ bs.pos[1] < parser_bs.pos[1]
  THEN parser_bs.pos[1] - bs.pos[1] ELSE 0

DoScan(w) ==
  LET bs == peek(scan_q)
  IN /\ AtTask(w, "scan")
     /\ work_units' = work_units - 1
     /\ scan_q' = dequeue(scan_q)
     /\ job' = [job EXCEPT ![w] = [pos |-> bs.pos, offset |-> bs.offset, skip |-> Skip(bs)]]
     /\ Attach(w, bs)
     /\ UNCHANGED <<sourceVars, sinkVars, eof, out_slots, shutdown, stream,
                    input_q, head_offs, tail_offs, eof_missing,
                    retr_q, emit_q, reord_q, order_q, unordVars, parserVars, failed>>
     /\ Unlock([pc EXCEPT ![w] = "scan"])

Scanned(w) == Scan(stream, job[w], job[w].skip, Limit(w, job[w]))

(* Mutant of ScanOn: a scanner that has come to the end of its input block *)
(* queues itself again although the next block has a place of its own.     *)
ScanOn_IntoNext(w, bs) ==
  scan_q' = IF ~ Released(bs) THEN enqueue(scan_q, bs) ELSE scan_q

(* The rest of the input block is worth scanning.                          *)
ScanOn(w, bs) ==
  scan_q' = IF bs.offset # Limit(w, job[w]) /\ ~ Released(bs) THEN enqueue(scan_q, bs)
            ELSE scan_q

ScanReturns(w) ==
  /\ pc[w] = "scan" /\ MonitorFree
  /\ Detach(w)
  /\ job' = [job EXCEPT ![w] = NULL]
  /\ UNCHANGED <<sinkVars, eof, out_slots, shutdown, emit_q, reord_q, order_q,
                 parse_token, parsing_done, failed>>

ScanNothing(w) ==
  /\ ScanReturns(w)
  /\ Scanned(w).rv # "OK" \/ parsing_done
  /\ work_units' = work_units + 1
  /\ UNCHANGED <<scan_q, retr_q, unordVars>>
  /\ Return(w)

ScanKnown(w) ==
  LET bs == Scanned(w).bs
  IN /\ ScanReturns(w)
     /\ Scanned(w).rv = "OK" /\ ~ parsing_done /\ pos_le(bs.pos, parser_bs.pos)
     /\ work_units' = work_units + 1
     /\ ScanOn(w, bs)
     /\ UNCHANGED <<retr_q, unordVars>>
     /\ Return(w)

(* A pattern ahead of the parser gets a retriever, with the scanner's unit.*)
ScanUnique(w) ==
  LET bs == Scanned(w).bs
      base == bs.pos[1]
  IN /\ ScanReturns(w)
     /\ Scanned(w).rv = "OK" /\ ~ parsing_done /\ ~ pos_le(bs.pos, parser_bs.pos)
     /\ unord_q' = enqueue(unord_q, [pos |-> bs.pos])
     /\ ublk' = [u \in DOMAIN ublk \cup {base} |->
                   IF u = base THEN [end_pos |-> bs, complete |-> FALSE, legitimate |-> FALSE]
                   ELSE ublk[u]]
     /\ retr_q' = enqueue(retr_q, [pos |-> bs.pos, offset |-> bs.offset,
                                   base |-> base, link |-> base])
     /\ ScanOn(w, bs)
     /\ UNCHANGED work_units
     /\ Return(w)

(***************************************************************************)
(* The callbacks of the source and the sink thread.                        *)
(***************************************************************************)
NewInBlk == [offset |-> tail_offs, size |-> Words(avail)]

OnInputAvail ==
  /\ source = "deliver" /\ MonitorFree /\ ~ parsing_done
  /\ eof_missing' = avail % 2
  /\ tail_offs' = tail_offs + Words(avail)
  /\ input_q' = Append(input_q, NewInBlk)
  /\ ref_count' = [o \in DOMAIN ref_count \cup {tail_offs} |->
                     IF o = tail_offs THEN 1 ELSE ref_count[o]]
  /\ scan_q' = enqueue(scan_q, bits_init(tail_offs))
  /\ source' = AfterDelivery
  /\ UNCHANGED <<file_len, ispec_total, avail, in_slots, request_close, sinkVars, slotVars,
                 shutdown, stream, head_offs, retr_q, emit_q, reord_q, order_q, unordVars,
                 parserVars, handVars, failed>>
  /\ Unlock(pc)

(* The stream has ended before the file: the buffer is released.  This is  *)
(* done outside the monitor, but only the source thread looks at in_slots. *)
InputRefused ==
  /\ source = "deliver" /\ MonitorFree /\ parsing_done
  /\ in_slots' = in_slots + 1
  /\ source' = AfterDelivery
  /\ UNCHANGED <<file_len, ispec_total, avail, request_close, sinkVars, slotVars,
                 shutdown, jobVars>>
  /\ Unlock(pc)

(* SourceSetsEof() of module Process, leaving the monitor by way of Unlock.*)
InputEnds ==
  /\ source = "eof" /\ MonitorFree
  /\ eof' = TRUE
  /\ source' = "done"
  /\ UNCHANGED <<file_len, ispec_total, avail, in_slots, request_close,
                 sinkVars, work_units, out_slots, shutdown, jobVars>>
  /\ Unlock(pc)

OnWriteComplete ==
  /\ sink = "release" /\ MonitorFree
  /\ block' = NULL
  /\ out_slots' = out_slots + 1
  /\ sink' = "top"
  /\ UNCHANGED <<output_q, finish, written, sourceVars, eof, work_units, shutdown, jobVars>>
  /\ Unlock(pc)

(***************************************************************************)
(* The threads.                                                            *)
(***************************************************************************)
Parsing(w) == DoParse(w) \/ ParseMore(w) \/ ParseFail(w) \/ ParseFinish(w)
                \/ ParseUnique(w) \/ ParseTaken(w)

Retrieving(w) ==
  \/ DoRetrieve(w) \/ RetrieveAbort(w)
  \/ RetrieveMoreAsMaster(w) \/ RetrieveMoreAhead(w)
  \/ RetrieveOverAsMaster(w) \/ RetrieveOverAhead(w) \/ Decoded(w)

Worker(w) ==
  \/ /\ WorkerEnter(w) \/ WorkerWait(w, can_terminate) \/ WorkerExit(w, can_terminate)
     /\ UNCHANGED jobVars
  \/ Parsing(w) \/ Retrieving(w)
  \/ DoEmit(w) \/ Emitted(w)
  \/ RejectBogus(w) \/ ReorderFail(w) \/ DoReorder(w)
  \/ DoScan(w) \/ ScanNothing(w) \/ ScanKnown(w) \/ ScanUnique(w)

Source ==
  \/ OnInputAvail \/ InputRefused \/ InputEnds
  \/ /\ UNCHANGED jobVars
     /\ ~ Gone /\ SourceOnly

Sink == OnWriteComplete \/ (~ Gone /\ SinkOnly /\ UNCHANGED jobVars)

Primary == Killed \/ (PrimaryOnly /\ UNCHANGED jobVars)

Spurious == ~ Gone /\ SpuriousWakeup /\ UNCHANGED jobVars

Over == Gone /\ UNCHANGED vars

Next == (\E w \in Workers : Worker(w)) \/ Source \/ Sink \/ Primary \/ Spurious \/ Over

Spec == Init /\ [][Next]_vars

(* The operating system runs every thread that can take a step, as long as *)
(* there is a process.                                                     *)
Fairness ==
  /\ \A w \in Workers : WF_vars(Worker(w))
  /\ WF_vars(Source) /\ WF_vars(Sink) /\ WF_vars(Primary)

FairSpec == Spec /\ Fairness
=============================================================================

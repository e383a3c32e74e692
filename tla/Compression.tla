---------------------------- MODULE Compression ----------------------------
(***************************************************************************)
(* compress.c: the compression job, on the machinery of module Process.    *)
(*                                                                         *)
(* An input block waits in coll_q for a worker to collect its bytes into   *)
(* the block of an encoder.  The encoder may fill up first; what is left   *)
(* of the input goes back to coll_q under a later position.  Encoded       *)
(* blocks wait in trans_q for an output slot, transmitted ones in reord_q  *)
(* for their turn: order is the position of the block to be written next,  *)
(* and each block carries in next the position of the one after it.        *)
(*                                                                         *)
(* With ultra the blocks are filled to the brim: one worker at a time, the *)
(* owner of collect_token, collects, and an encoder that is not full when  *)
(* the input block ends is kept in unfinished_work.                        *)
(*                                                                         *)
(* Data is abstracted to intervals of input bytes: a block holds the bytes *)
(* lo .. hi-1.  How many bytes collect() takes before the encoder is full  *)
(* depends on the data, so it is chosen.                                   *)
(***************************************************************************)
EXTENDS Process

CONSTANT ultra

ASSUME CompressionAssumption == ultra \in BOOLEAN /\ Workers # {}

(* Mutant of TRANSM_THRESH: no slot is kept for the next block.            *)
NoReserve == 0

(* Output slots kept for the block that is to be written next.             *)
TRANSM_THRESH == 2

VARIABLES
  coll_q,           \* input blocks to be collected
  trans_q,          \* encoded blocks waiting for an output slot
  reord_q,          \* transmitted blocks waiting for their turn
  order,            \* position of the next block to be written
  next_id,          \* major position of the next input buffer
  combined_crc,     \* the blocks whose CRC has been combined, in order
  collect_token, unfinished_work,
  iblk, wblk        \* the input and work block in the hands of each worker

jobVars == <<coll_q, trans_q, reord_q, order, next_id, combined_crc,
             collect_token, unfinished_work>>
vars == <<procVars, jobVars, iblk, wblk>>

(* struct in_blk: the bytes next .. next+left-1 are still to be collected. *)
InBlk == [pos : Position, next : Nat, left : Nat]

(* struct work_blk.                                                        *)
WorkBlk == [pos : Position, next : Position, lo : Nat, hi : Nat]

ASSUME InHandAssumption == NULL \notin InBlk /\ NULL \notin WorkBlk

(* What is written of a block: struct block, and the bytes it encodes.     *)
Output(b) == [lo |-> b.lo, hi |-> b.hi]

Init ==
  /\ ProcessInit
  /\ coll_q = <<>> /\ trans_q = <<>> /\ reord_q = <<>>
  /\ order = <<0, 0>> /\ next_id = 0
  /\ combined_crc = <<>>
  /\ collect_token = TRUE /\ unfinished_work = NULL
  /\ iblk = [w \in Workers |-> NULL]
  /\ wblk = [w \in Workers |-> NULL]

(***************************************************************************)
(* The tasks, by priority, and the end of the job.                         *)
(***************************************************************************)
can_collect_seq ==
  /\ ultra /\ collect_token
  /\ coll_q # <<>> \/ (eof /\ unfinished_work # NULL)
  /\ work_units > 0 \/ unfinished_work # NULL

(* Mutant of can_reorder: blocks are written as they come.                 *)
can_reorder_Unordered == reord_q # <<>>

can_reorder == reord_q # <<>> /\ pos_eq(peek(reord_q).pos, order)

can_transmit ==
  /\ trans_q # <<>>
  /\ \/ out_slots > TRANSM_THRESH
     \/ out_slots > 0 /\ pos_eq(peek(trans_q).pos, order)

(* Mutant of can_collect: the work units are not looked at.                *)
can_collect_AnyUnits == ~ ultra /\ coll_q # <<>>

can_collect == ~ ultra /\ coll_q # <<>> /\ work_units > 0

(* Mutant of can_terminate: the end of the input is not waited for.        *)
can_terminate_IgnoresEof ==
  coll_q = <<>> /\ work_units = num_worker /\ out_slots = TotalOutSlots

can_terminate ==
  /\ eof /\ coll_q = <<>>
  /\ work_units = num_worker /\ out_slots = TotalOutSlots

SelectTask ==
  IF can_collect_seq THEN "collect_seq"
  ELSE IF can_reorder THEN "reorder"
  ELSE IF can_transmit THEN "transmit"
  ELSE IF can_collect THEN "collect"
  ELSE NoTask

(* sched_unlock() and the end of a task, with this job's tasks.            *)
Unlock(p) == SchedUnlock(p, SelectTask', can_terminate')

Return(w) == BackInLoop(w, SelectTask')

(***************************************************************************)
(* Collecting.  wblk[w] grows by the n bytes that collect() takes from the *)
(* input block of worker w.                                                *)
(***************************************************************************)
NewWorkBlk(b) == [pos |-> b.pos, next |-> b.pos, lo |-> b.next, hi |-> b.next]

(* Mutant of TakePart: the rest keeps its position and its first bytes.    *)
TakePart_SameRest(w, n) ==
  /\ MonitorFree
  /\ wblk' = [wblk EXCEPT ![w].next = <<@[1], @[2] + 1>>, ![w].hi = @ + n]
  /\ iblk' = [iblk EXCEPT ![w] = NULL]
  /\ coll_q' = enqueue(coll_q, iblk[w])
  /\ UNCHANGED <<trans_q, reord_q, order, next_id, combined_crc,
                 collect_token, unfinished_work,
                 sourceVars, sinkVars, slotVars, shutdown>>

(* collect() stops inside the input block, which goes back to coll_q.      *)
TakePart(w, n) ==
  LET b == iblk[w]
      rest == [pos |-> <<b.pos[1], b.pos[2] + 1>>, next |-> b.next + n, left |-> b.left - n]
  IN /\ MonitorFree
     /\ wblk' = [wblk EXCEPT ![w].next = <<@[1], @[2] + 1>>, ![w].hi = @ + n]
     /\ iblk' = [iblk EXCEPT ![w] = NULL]
     /\ coll_q' = enqueue(coll_q, rest)
     /\ UNCHANGED <<trans_q, reord_q, order, next_id, combined_crc,
                    collect_token, unfinished_work,
                    sourceVars, sinkVars, slotVars, shutdown>>

(* Mutant of TakeAll: the minor position is not reset.                     *)
TakeAll_KeepsMinor(w, then) ==
  /\ wblk' = [wblk EXCEPT ![w].next = <<@[1] + 1, @[2]>>, ![w].hi = @ + iblk[w].left]
  /\ iblk' = [iblk EXCEPT ![w] = NULL]
  /\ SourceReleaseBuffer
  /\ pc' = [pc EXCEPT ![w] = then]
  /\ UNCHANGED <<file_len, ispec_total, avail, request_close, jobVars,
                 sinkVars, sched_mutex, next_task, slotVars, shutdown>>

(* collect() takes all of the input block, whose buffer is released.       *)
TakeAll(w, then) ==
  /\ wblk' = [wblk EXCEPT ![w].next = <<@[1] + 1, 0>>, ![w].hi = @ + iblk[w].left]
  /\ iblk' = [iblk EXCEPT ![w] = NULL]
  /\ SourceReleaseBuffer
  /\ pc' = [pc EXCEPT ![w] = then]
  /\ UNCHANGED <<file_len, ispec_total, avail, request_close, jobVars,
                 sinkVars, sched_mutex, next_task, slotVars, shutdown>>

(* Mutant of DoCollect: the queue is served last in, first out.            *)
DoCollect_Newest(w) ==
  /\ AtTask(w, "collect")
  /\ iblk' = [iblk EXCEPT ![w] = Last(coll_q)]
  /\ wblk' = [wblk EXCEPT ![w] = NewWorkBlk(Last(coll_q))]
  /\ coll_q' = Front(coll_q)
  /\ work_units' = work_units - 1
  /\ UNCHANGED <<trans_q, reord_q, order, next_id, combined_crc,
                 collect_token, unfinished_work, eof, out_slots,
                 sourceVars, sinkVars, shutdown>>
  /\ Unlock([pc EXCEPT ![w] = "collect"])

DoCollect(w) ==
  /\ AtTask(w, "collect")
  /\ iblk' = [iblk EXCEPT ![w] = peek(coll_q)]
  /\ wblk' = [wblk EXCEPT ![w] = NewWorkBlk(peek(coll_q))]
  /\ coll_q' = dequeue(coll_q)
  /\ work_units' = work_units - 1
  /\ UNCHANGED <<trans_q, reord_q, order, next_id, combined_crc,
                 collect_token, unfinished_work, eof, out_slots,
                 sourceVars, sinkVars, shutdown>>
  /\ Unlock([pc EXCEPT ![w] = "collect"])

CollectPart(w) ==
  /\ pc[w] = "collect"
  /\ \E n \in 1 .. iblk[w].left - 1 : TakePart(w, n)
  /\ Unlock([pc EXCEPT ![w] = "encode"])

CollectAll(w) == pc[w] = "collect" /\ TakeAll(w, "encode")

(* Mutant of Encoded: the work unit is given back before transmission.     *)
Encoded_FreesUnit(w) ==
  /\ pc[w] = "encode"
  /\ trans_q' = enqueue(trans_q, wblk[w])
  /\ wblk' = [wblk EXCEPT ![w] = NULL]
  /\ work_units' = work_units + 1
  /\ UNCHANGED <<coll_q, reord_q, order, next_id, combined_crc,
                 collect_token, unfinished_work, iblk, eof, out_slots,
                 sourceVars, sinkVars, shutdown>>
  /\ Return(w)

(* encode(), and the end of do_collect() and do_collect_seq().             *)
Encoded(w) ==
  /\ pc[w] = "encode"
  /\ trans_q' = enqueue(trans_q, wblk[w])
  /\ wblk' = [wblk EXCEPT ![w] = NULL]
  /\ UNCHANGED <<coll_q, reord_q, order, next_id, combined_crc,
                 collect_token, unfinished_work, iblk,
                 sourceVars, sinkVars, slotVars, shutdown>>
  /\ Return(w)

(***************************************************************************)
(* Collecting with ultra.                                                  *)
(***************************************************************************)
(* The worker resumes the unfinished encoder or starts a new one.  At the  *)
(* end of the input there may be nothing more for it, and it is done.      *)
DoCollectSeq(w) ==
  LET fresh == unfinished_work = NULL
      more == coll_q # <<>>
  IN /\ AtTask(w, "collect_seq")
     /\ work_units' = IF fresh THEN work_units - 1 ELSE work_units
     /\ wblk' = [wblk EXCEPT ![w] = IF fresh THEN NewWorkBlk(peek(coll_q))
                                             ELSE unfinished_work]
     /\ unfinished_work' = NULL
     /\ iblk' = [iblk EXCEPT ![w] = IF more THEN peek(coll_q) ELSE NULL]
     /\ coll_q' = IF more THEN dequeue(coll_q) ELSE coll_q
     /\ collect_token' = FALSE
     /\ UNCHANGED <<trans_q, reord_q, order, next_id, combined_crc,
                    eof, out_slots, sourceVars, sinkVars, shutdown>>
     /\ Unlock([pc EXCEPT ![w] = IF more THEN "collect_seq" ELSE "full"])

(* Only an encoder that already holds bytes can be full at once.           *)
CollectSeqPart(w) ==
  /\ pc[w] = "collect_seq"
  /\ \E n \in 0 .. iblk[w].left - 1 :
       /\ n = 0 => wblk[w].lo < wblk[w].hi
       /\ TakePart(w, n)
  /\ Unlock([pc EXCEPT ![w] = "full"])

CollectSeqAll(w) ==
  /\ pc[w] = "collect_seq"
  /\ \E then \in {"full", "unfinished"} : TakeAll(w, then)

(* The encoder is not full: it is kept for the next input block.           *)
KeepUnfinished(w) ==
  /\ pc[w] = "unfinished"
  /\ collect_token' = TRUE
  /\ unfinished_work' = wblk[w]
  /\ wblk' = [wblk EXCEPT ![w] = NULL]
  /\ UNCHANGED <<coll_q, trans_q, reord_q, order, next_id, combined_crc, iblk,
                 sourceVars, sinkVars, slotVars, shutdown>>
  /\ Return(w)

PassToken(w) ==
  /\ pc[w] = "full" /\ MonitorFree
  /\ collect_token' = TRUE
  /\ UNCHANGED <<coll_q, trans_q, reord_q, order, next_id, combined_crc,
                 unfinished_work, iblk, wblk,
                 sourceVars, sinkVars, slotVars, shutdown>>
  /\ Unlock([pc EXCEPT ![w] = "encode"])

(***************************************************************************)
(* Transmitting and reordering.                                            *)
(***************************************************************************)
DoTransmit(w) ==
  /\ AtTask(w, "transmit")
  /\ wblk' = [wblk EXCEPT ![w] = peek(trans_q)]
  /\ trans_q' = dequeue(trans_q)
  /\ out_slots' = out_slots - 1
  /\ UNCHANGED <<coll_q, reord_q, order, next_id, combined_crc,
                 collect_token, unfinished_work, iblk, eof, work_units,
                 sourceVars, sinkVars, shutdown>>
  /\ Unlock([pc EXCEPT ![w] = "transmit"])

Transmitted(w) ==
  /\ pc[w] = "transmit"
  /\ work_units' = work_units + 1
  /\ reord_q' = enqueue(reord_q, wblk[w])
  /\ wblk' = [wblk EXCEPT ![w] = NULL]
  /\ UNCHANGED <<coll_q, trans_q, order, next_id, combined_crc,
                 collect_token, unfinished_work, iblk, eof, out_slots,
                 sourceVars, sinkVars, shutdown>>
  /\ Return(w)

(* The worker stays in the monitor; sink_write_buffer() locks sink_mutex   *)
(* while sched_mutex is held.                                              *)
DoReorder(w) ==
  LET b == peek(reord_q)
  IN /\ AtTask(w, "reorder")
     /\ reord_q' = dequeue(reord_q)
     /\ order' = b.next
     /\ SinkWriteBuffer(Output(b))
     /\ combined_crc' = Append(combined_crc, Output(b))
     /\ UNCHANGED <<coll_q, trans_q, next_id, collect_token, unfinished_work,
                    iblk, wblk, sched_mutex, pc, slotVars, sourceVars, shutdown>>
     /\ next_task' = SelectTask'

(***************************************************************************)
(* The callbacks of the source and the sink thread.                        *)
(***************************************************************************)
NewInBlk == [pos |-> <<next_id, 0>>, next |-> ispec_total - avail, left |-> avail]

OnInputAvail ==
  /\ source = "deliver" /\ MonitorFree
  /\ next_id' = next_id + 1
  /\ coll_q' = enqueue(coll_q, NewInBlk)
  /\ source' = AfterDelivery
  /\ UNCHANGED <<file_len, ispec_total, avail, in_slots, request_close,
                 trans_q, reord_q, order, combined_crc,
                 collect_token, unfinished_work, iblk, wblk,
                 sinkVars, slotVars, shutdown>>
  /\ Unlock(pc)

OnWriteComplete ==
  /\ sink = "release" /\ MonitorFree
  /\ block' = NULL
  /\ out_slots' = out_slots + 1
  /\ sink' = "top"
  /\ UNCHANGED <<output_q, finish, written, sourceVars, eof, work_units, shutdown,
                 jobVars, iblk, wblk>>
  /\ Unlock(pc)

(***************************************************************************)
(* The threads.                                                            *)
(***************************************************************************)
Worker(w) ==
  \/ /\ WorkerEnter(w) \/ WorkerWait(w, can_terminate) \/ WorkerExit(w, can_terminate)
     /\ UNCHANGED <<jobVars, iblk, wblk>>
  \/ DoCollect(w) \/ CollectPart(w) \/ CollectAll(w)
  \/ DoCollectSeq(w) \/ CollectSeqPart(w) \/ CollectSeqAll(w)
  \/ KeepUnfinished(w) \/ PassToken(w)
  \/ Encoded(w) \/ DoTransmit(w) \/ Transmitted(w) \/ DoReorder(w)

Source ==
  \/ OnInputAvail
  \/ /\ UNCHANGED <<jobVars, iblk, wblk>>
     /\ SourceOnly \/ SourceSetsEof(SelectTask', can_terminate')

Sink ==
  \/ OnWriteComplete
  \/ SinkOnly /\ UNCHANGED <<jobVars, iblk, wblk>>

Primary == PrimaryOnly /\ UNCHANGED <<jobVars, iblk, wblk>>

Spurious == SpuriousWakeup /\ UNCHANGED <<jobVars, iblk, wblk>>

(* The job is over and its threads are gone.                               *)
Over == shutdown = "done" /\ UNCHANGED vars

Next == (\E w \in Workers : Worker(w)) \/ Source \/ Sink \/ Primary \/ Spurious \/ Over

Spec == Init /\ [][Next]_vars

(* The operating system runs every thread that can take a step.            *)
Fairness ==
  /\ \A w \in Workers : WF_vars(Worker(w))
  /\ WF_vars(Source) /\ WF_vars(Sink) /\ WF_vars(Primary)

FairSpec == Spec /\ Fairness
=============================================================================

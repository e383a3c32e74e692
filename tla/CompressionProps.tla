-------------------------- MODULE CompressionProps --------------------------
(***************************************************************************)
(* What must hold of the compressor (module Compression).                  *)
(***************************************************************************)
EXTENDS Compression

(***************************************************************************)
(* Types.                                                                  *)
(***************************************************************************)
WorkerStates == {"enter", "waiting", "loop", "done", "collect", "collect_seq",
                 "unfinished", "full", "encode", "transmit"}

Tasks == {"collect_seq", "reorder", "transmit", "collect"}

SourceTypeOK ==
  /\ file_len \in Nat /\ ispec_total \in Nat /\ avail \in Nat
  /\ source \in {"top", "stalled", "read", "deliver", "eof", "done"}
  /\ in_slots \in Nat /\ request_close \in BOOLEAN

SinkTypeOK ==
  /\ output_q \in Seq(OutBlk) /\ finish \in BOOLEAN
  /\ sink \in {"top", "stalled", "write", "release", "done"}
  /\ block \in OutBlk \cup {NULL} /\ written \in Seq(OutBlk)

MonitorTypeOK ==
  /\ sched_mutex \in Workers \cup {NULL}
  /\ pc \in [Workers -> WorkerStates]
  /\ next_task \in Tasks \cup {NoTask}
  /\ eof \in BOOLEAN
  /\ shutdown \in {"running", "draining", "done"}

QueueTypeOK ==
  /\ coll_q \in Seq(InBlk) /\ trans_q \in Seq(WorkBlk) /\ reord_q \in Seq(WorkBlk)
  /\ order \in Position /\ next_id \in Nat
  /\ combined_crc \in Seq(OutBlk)

InHandTypeOK ==
  /\ collect_token \in BOOLEAN /\ unfinished_work \in WorkBlk \cup {NULL}
  /\ iblk \in [Workers -> InBlk \cup {NULL}]
  /\ wblk \in [Workers -> WorkBlk \cup {NULL}]

(* No count of free slots or units ever drops below zero (they are         *)
(* unsigned in the code), and every queue holds what its users put there.  *)
TypeOK ==
  /\ SourceTypeOK /\ SinkTypeOK /\ MonitorTypeOK
  /\ work_units \in Nat /\ out_slots \in Nat
  /\ QueueTypeOK /\ InHandTypeOK

(***************************************************************************)
(* Resources.                                                              *)
(***************************************************************************)
Holding(f) == {w \in Workers : f[w] # NULL}

(* What the unfinished block, the sink and the source thread hold.         *)
UnitsUnfinished == IF unfinished_work # NULL THEN 1 ELSE 0
SlotsInSink == Len(output_q) + (IF block # NULL THEN 1 ELSE 0)
SlotsInSource == IF source \in {"read", "deliver"} THEN 1 ELSE 0

AllWorkUnits == work_units + Cardinality(Holding(wblk)) + Len(trans_q) + UnitsUnfinished
AllOutSlots == out_slots + Cardinality(At({"transmit"})) + Len(reord_q) + SlotsInSink
AllInSlots == in_slots + SlotsInSource + Len(coll_q) + Cardinality(Holding(iblk))

(* Every work unit is free or held by exactly one block that has been      *)
(* dequeued for collecting and not been transmitted yet; so trans_q, which *)
(* is allocated for num_worker blocks, never overflows.                    *)
WorkUnitsConserved == AllWorkUnits = num_worker

(* Every output slot is free or held by a block between do_transmit() and  *)
(* on_write_complete(); so neither reord_q nor output_q, both allocated    *)
(* for total_out_slots blocks, overflows.                                  *)
OutSlotsConserved == AllOutSlots = TotalOutSlots

(* Every input slot is free or held by a buffer that is being read, waits  *)
(* in coll_q or is being collected; so coll_q does not overflow, and a     *)
(* buffer is not released twice or forgotten on any path through           *)
(* do_collect() and do_collect_seq().                                      *)
InSlotsConserved == AllInSlots = TotalInSlots

(* Nothing that is counted is ever lost, shared or made up.                *)
ResourcesConserved == WorkUnitsConserved /\ OutSlotsConserved /\ InSlotsConserved

(***************************************************************************)
(* The scheduler.                                                          *)
(***************************************************************************)
(* Whenever a thread could enter the monitor, next_task is what            *)
(* select_task() would find: no state that a task's readiness depends on   *)
(* changes without the task being selected anew.                           *)
NextTaskFresh == next_task = SelectTask

(* A waiting worker is never forgotten while there is a task to run or the *)
(* end of the job to announce: one worker at least is on its way into the  *)
(* monitor.  Every thread signals a single waiter, and may be overtaken.   *)
NoLostWakeup ==
  (next_task # NoTask \/ can_terminate) /\ Waiting(pc) # {} => At({"enter", "loop"}) # {}

(***************************************************************************)
(* The data: where each byte of the input is, and under which position.    *)
(***************************************************************************)
InItem(b) == [pos |-> b.pos, lo |-> b.next, hi |-> b.next + b.left]
WorkItem(b) == [pos |-> b.pos, lo |-> b.lo, hi |-> b.hi]

WorkBlks ==
  ToSet(trans_q) \cup ToSet(reord_q) \cup {wblk[w] : w \in Holding(wblk)}
    \cup ({unfinished_work} \ {NULL})

InBlks ==
  ToSet(coll_q) \cup {iblk[w] : w \in Holding(iblk)}
    \cup (IF source = "deliver" THEN {NewInBlk} ELSE {})

(* Blocks in flight.                                                       *)
Items == {InItem(b) : b \in InBlks} \cup {WorkItem(b) : b \in WorkBlks}

Emitted == ToSet(combined_crc)

(* Each byte read is in exactly one place: an input block, a work block or *)
(* a block handed to the sink.  No interleaving of the workers that share  *)
(* an input block drops or repeats a byte.                                 *)
EveryByteOnce ==
  \A i \in 0 .. ispec_total - 1 :
    Cardinality({x \in Items : x.lo <= i /\ i < x.hi})
      + Cardinality({o \in Emitted : o.lo <= i /\ i < o.hi}) = 1

(* Positions order the blocks in flight as their bytes are ordered in the  *)
(* input; an encoder and the rest of the input block it was filled from    *)
(* may start at the same byte only while the encoder is empty.  No queue   *)
(* holds two elements of one position, which the heap would not keep in    *)
(* order, and nothing is left behind the position to be written next.      *)
PositionsFollowBytes ==
  /\ \A x, y \in Items :
       /\ x.lo < x.hi /\ y.lo < y.hi /\ x.lo < y.lo => pos_lt(x.pos, y.pos)
       /\ ~ pos_lt(x.pos, order)
  /\ \A q \in {coll_q, trans_q, reord_q} :
       \A i \in 1 .. Len(q) - 1 : pos_lt(q[i].pos, q[i + 1].pos)

(* The chain that do_reorder() follows: behind a complete work block, next *)
(* is the position of the item that holds the byte after it (or of the     *)
(* buffer to be delivered next).  So no block is ever waited for in vain.  *)
Complete(b) == \A w \in Workers : wblk[w] = b => pc[w] \in {"full", "encode", "transmit"}

NextIsSuccessor ==
  \A b \in WorkBlks :
    Complete(b) /\ b # unfinished_work =>
      IF \E x \in Items : x.lo = b.hi /\ x.lo < x.hi
      THEN \E x \in Items : x.lo = b.hi /\ x.pos = b.next
      ELSE b.next = <<next_id, 0>>

(***************************************************************************)
(* Progress of the pipeline.                                               *)
(***************************************************************************)
(* The reserve of TRANSM_THRESH slots suffices: if all output slots are    *)
(* taken, then the sink has something to write or the block whose turn it  *)
(* is can be handed to it or is being transmitted.                         *)
OutputNeverStarves ==
  out_slots = 0 =>
    \/ output_q # <<>> \/ block # NULL
    \/ can_reorder
    \/ \E w \in At({"transmit"}) : pos_eq(wblk[w].pos, order)

(* If an input block is to be collected and no block before it is in       *)
(* work, then there is a work unit for it: later blocks cannot take them   *)
(* all, although the rest of an input block is queued late.                *)
UnitForNextBlock ==
  coll_q # <<>> /\ (\A b \in WorkBlks \ ToSet(reord_q) : ~ pos_lt(b.pos, peek(coll_q).pos))
    => work_units > 0

(* The assertions at the end of primary_thread(), those of pqueue_uninit() *)
(* and deque_uninit(), and what the next file needs of the static          *)
(* variables that init() does not reset.                                   *)
AtExitClean ==
  shutdown = "done" =>
    /\ eof /\ in_slots = TotalInSlots
    /\ out_slots = TotalOutSlots /\ work_units = num_worker
    /\ coll_q = <<>> /\ trans_q = <<>> /\ reord_q = <<>> /\ output_q = <<>>
    /\ collect_token /\ unfinished_work = NULL

(***************************************************************************)
(* What a reader of the output sees.                                       *)
(***************************************************************************)
(* uninit() writes combined_crc into the trailer.                          *)
trailer == IF shutdown = "done" THEN combined_crc ELSE NULL

Abstract == INSTANCE OrderedOutput WITH
  len <- file_len, out <- written, trailer <- trailer

(* The blocks are written once each, in the order of the input, and the    *)
(* trailer matches them, for every schedule of the threads.                *)
ImplementsOrderedOutput == Abstract!Init /\ [][Abstract!Next]_(Abstract!vars)

(* The compressor comes to its end: the primary thread joins all others.   *)
(* (Waits may end without a signal, but not for ever and ever.)            *)
Termination == []<><<Spurious>>_vars \/ <>(shutdown = "done")
=============================================================================

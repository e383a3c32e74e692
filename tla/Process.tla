------------------------------ MODULE Process ------------------------------
(***************************************************************************)
(* process.c: the machinery every job (compression, expansion, copying)    *)
(* runs on.                                                                *)
(*                                                                         *)
(*   - the source thread reads the input into buffers of InGranul bytes    *)
(*     and hands them to the job (on_block), one input slot per buffer;    *)
(*   - the sink thread writes the buffers of output_q in order and returns *)
(*     them to the job (on_written);                                       *)
(*   - worker threads share one monitor (sched_mutex, sched_cond): each    *)
(*     runs the highest-priority ready task, and whoever leaves the        *)
(*     monitor re-selects that task and signals one waiter if there is one *)
(*     to run, or if the job is finished;                                  *)
(*   - the primary thread joins them all and shuts the I/O threads down.   *)
(*                                                                         *)
(* A critical section is one step.  A worker that keeps the monitor from   *)
(* the end of one task to the start of the next holds sched_mutex between  *)
(* steps.  What the job contributes (its tasks, on_block, on_written, its  *)
(* stop condition) is in the modules that extend this one; they pass the   *)
(* newly selected task and the new value of the stop condition to          *)
(* SchedUnlock.                                                            *)
(***************************************************************************)
EXTENDS PQueue

CONSTANTS
  Workers,          \* the worker threads
  TotalInSlots,     \* total_in_slots: input buffers in flight
  TotalOutSlots,    \* total_out_slots: output buffers in flight
  InGranul,         \* in_granul: bytes per input buffer
  FileLens,         \* the lengths of input that are considered, in bytes
  SpuriousWakeups,  \* whether pthread_cond_wait may return unsignalled
  NULL              \* the null pointer; also: no thread

ASSUME ProcessAssumption ==
  /\ IsFiniteSet(Workers)
  /\ NULL \notin Workers
  /\ TotalInSlots \in Nat \ {0}
  /\ TotalOutSlots \in Nat \ {0}
  /\ InGranul \in Nat \ {0}
  /\ FileLens \subseteq Nat
  /\ SpuriousWakeups \in BOOLEAN

num_worker == Cardinality(Workers)

(* struct block, which stands for the bytes lo .. hi-1 of the input.       *)
OutBlk == [lo : Nat, hi : Nat]

ASSUME BlockAssumption == NULL \notin OutBlk

(* select_task() found no runnable task: next_task is a null pointer.      *)
NoTask == "no task"

VARIABLES
  file_len,       \* length of the input
  ispec_total,    \* bytes read so far
  avail,          \* size of the buffer the source thread has just read
  source,         \* control state of the source thread
  in_slots, request_close,                     \* under source_mutex
  output_q, finish,                            \* under sink_mutex
  sink,           \* control state of the sink thread
  block,          \* the block the sink thread is writing
  written,        \* history: the blocks written, in order
  sched_mutex,    \* the worker inside the monitor between two steps
  pc,             \* control state of each worker
  next_task, eof, work_units, out_slots,       \* under sched_mutex
  shutdown        \* control state of the thread that joins the others

sourceVars == <<file_len, ispec_total, avail, source, in_slots, request_close>>
sinkVars   == <<output_q, finish, sink, block, written>>
schedVars  == <<sched_mutex, pc, next_task>>
slotVars   == <<eof, work_units, out_slots>>
procVars   == <<sourceVars, sinkVars, schedVars, slotVars, shutdown>>

ProcessInit ==
  /\ file_len \in FileLens
  /\ ispec_total = 0 /\ avail = 0
  /\ source = "top" /\ sink = "top"
  /\ in_slots = TotalInSlots /\ request_close = FALSE
  /\ output_q = <<>> /\ finish = FALSE
  /\ block = NULL /\ written = <<>>
  /\ sched_mutex = NULL /\ pc = [w \in Workers |-> "enter"]
  /\ next_task = NoTask
  /\ eof = FALSE
  /\ work_units = num_worker /\ out_slots = TotalOutSlots
  /\ shutdown = "running"

(***************************************************************************)
(* The scheduler monitor.                                                  *)
(***************************************************************************)
MonitorFree == sched_mutex = NULL

Waiting(p) == {w \in Workers : p[w] = "waiting"}

(* Workers that are in one of the control states S.                        *)
At(S) == {w \in Workers : pc[w] \in S}

(* The possible control states after pthread_cond_signal(&sched_cond).     *)
Signalled(p) ==
  IF Waiting(p) = {} THEN {p} ELSE {[p EXCEPT ![w] = "enter"] : w \in Waiting(p)}

(* Mutant of SchedUnlock: the end of the job is not announced.             *)
SchedUnlock_TasksOnly(p, task, stop) ==
  /\ next_task' = task
  /\ pc' \in (IF task # NoTask THEN Signalled(p) ELSE {p})
  /\ sched_mutex' = NULL

(* sched_unlock(): p is pc with the caller's own change, task the task     *)
(* selected now, stop whether the job is finished now.                     *)
SchedUnlock(p, task, stop) ==
  /\ next_task' = task
  /\ pc' \in (IF task # NoTask \/ stop THEN Signalled(p) ELSE {p})
  /\ sched_mutex' = NULL

(* Mutant of BackInLoop: no select_task() after run().                     *)
BackInLoop_StaleTask(w, task) ==
  /\ MonitorFree
  /\ sched_mutex' = w
  /\ pc' = [pc EXCEPT ![w] = "loop"]
  /\ next_task' = next_task

(* End of a task: sched_lock() by worker w and back in the loop of         *)
(* worker_thread_proc() with the monitor held, where select_task() follows *)
(* the return of run().                                                    *)
BackInLoop(w, task) ==
  /\ MonitorFree
  /\ sched_mutex' = w
  /\ pc' = [pc EXCEPT ![w] = "loop"]
  /\ next_task' = task

(* Worker w is at the top of its inner loop and is about to run task.      *)
AtTask(w, task) ==
  /\ pc[w] = "loop" /\ sched_mutex = w
  /\ next_task = task

(* A worker that has just started, or was woken, enters the monitor.       *)
WorkerEnter(w) ==
  /\ pc[w] = "enter" /\ MonitorFree
  /\ sched_mutex' = w
  /\ pc' = [pc EXCEPT ![w] = "loop"]
  /\ UNCHANGED <<next_task, slotVars, sourceVars, sinkVars, shutdown>>

WorkerWait(w, stop) ==
  /\ AtTask(w, NoTask) /\ ~ stop
  /\ pc' = [pc EXCEPT ![w] = "waiting"]
  /\ sched_mutex' = NULL
  /\ UNCHANGED <<next_task, slotVars, sourceVars, sinkVars, shutdown>>

WorkerExit(w, stop) ==
  /\ AtTask(w, NoTask) /\ stop
  /\ pc' = [v \in Workers |-> IF v = w THEN "done"
                              ELSE IF pc[v] = "waiting" THEN "enter" ELSE pc[v]]
  /\ sched_mutex' = NULL
  /\ UNCHANGED <<next_task, slotVars, sourceVars, sinkVars, shutdown>>

(***************************************************************************)
(* The source thread.                                                      *)
(***************************************************************************)
SourceStall ==
  /\ source = "top" /\ in_slots = 0 /\ ~ request_close
  /\ source' = "stalled"
  /\ UNCHANGED <<file_len, ispec_total, avail, in_slots, request_close,
                 sinkVars, schedVars, slotVars, shutdown>>

SourceTakeSlot ==
  /\ source = "top" /\ in_slots > 0 /\ ~ request_close
  /\ in_slots' = in_slots - 1
  /\ source' = "read"
  /\ UNCHANGED <<file_len, ispec_total, avail, request_close,
                 sinkVars, schedVars, slotVars, shutdown>>

(* The job has seen the end of the data (source_close()).                  *)
SourceClosed ==
  /\ source = "top" /\ request_close
  /\ source' = "eof"
  /\ UNCHANGED <<file_len, ispec_total, avail, in_slots, request_close,
                 sinkVars, schedVars, slotVars, shutdown>>

(* Mutant of SourceRead: an empty read does not end the input.             *)
SourceRead_MissesEnd ==
  /\ source = "read"
  /\ avail' = min(InGranul, file_len - ispec_total)
  /\ ispec_total' = ispec_total + avail'
  /\ source' = IF avail' = 0 THEN "top" ELSE "deliver"
  /\ in_slots' = IF avail' = 0 THEN in_slots + 1 ELSE in_slots
  /\ UNCHANGED <<file_len, request_close, sinkVars, schedVars, slotVars, shutdown>>

(* xread() fills the buffer or reaches the end of the input.  A buffer     *)
(* that received nothing is released by the source thread itself.          *)
SourceRead ==
  /\ source = "read"
  /\ avail' = min(InGranul, file_len - ispec_total)
  /\ ispec_total' = ispec_total + avail'
  /\ source' = IF avail' = 0 THEN "eof" ELSE "deliver"
  /\ in_slots' = IF avail' = 0 THEN in_slots + 1 ELSE in_slots
  /\ UNCHANGED <<file_len, request_close, sinkVars, schedVars, slotVars, shutdown>>

(* Where the source thread goes once on_block() has taken the buffer.      *)
AfterDelivery == IF avail < InGranul THEN "eof" ELSE "top"

(* source_release_buffer() called by another thread.                       *)
SourceReleaseBuffer ==
  /\ in_slots' = in_slots + 1
  /\ source' = IF source = "stalled" /\ in_slots = 0 THEN "top" ELSE source

SourceSetsEof(task, stop) ==
  /\ source = "eof" /\ MonitorFree
  /\ eof' = TRUE
  /\ source' = "done"
  /\ UNCHANGED <<file_len, ispec_total, avail, in_slots, request_close,
                 sinkVars, work_units, out_slots, shutdown>>
  /\ SchedUnlock(pc, task, stop)

(***************************************************************************)
(* The sink thread.                                                        *)
(***************************************************************************)
(* Mutant of SinkWriteBuffer: the block is put in front.                   *)
SinkWriteBuffer_InFront(b) ==
  /\ output_q' = <<b>> \o output_q
  /\ sink' = IF sink = "stalled" THEN "top" ELSE sink
  /\ UNCHANGED <<finish, block, written>>

(* sink_write_buffer() called by another thread.                           *)
SinkWriteBuffer(b) ==
  /\ output_q' = Append(output_q, b)
  /\ sink' = IF sink = "stalled" THEN "top" ELSE sink
  /\ UNCHANGED <<finish, block, written>>

SinkStall ==
  /\ sink = "top" /\ output_q = <<>> /\ ~ finish
  /\ sink' = "stalled"
  /\ UNCHANGED <<output_q, finish, block, written,
                 sourceVars, schedVars, slotVars, shutdown>>

SinkTake ==
  /\ sink = "top" /\ output_q # <<>>
  /\ block' = Head(output_q)
  /\ output_q' = Tail(output_q)
  /\ sink' = "write"
  /\ UNCHANGED <<finish, written, sourceVars, schedVars, slotVars, shutdown>>

SinkWrite ==
  /\ sink = "write"
  /\ written' = Append(written, block)
  /\ sink' = "release"
  /\ UNCHANGED <<output_q, finish, block, sourceVars, schedVars, slotVars, shutdown>>

SinkExit ==
  /\ sink = "top" /\ output_q = <<>> /\ finish
  /\ sink' = "done"
  /\ UNCHANGED <<output_q, finish, block, written,
                 sourceVars, schedVars, slotVars, shutdown>>

(***************************************************************************)
(* pthread_cond_wait() returning without a signal, for each of the three   *)
(* condition variables.                                                    *)
(***************************************************************************)
SpuriousWakeup ==
  /\ SpuriousWakeups
  /\ \/ /\ source = "stalled" /\ source' = "top"
        /\ UNCHANGED <<sink, pc>>
     \/ /\ sink = "stalled" /\ sink' = "top"
        /\ UNCHANGED <<source, pc>>
     \/ /\ \E w \in Waiting(pc) : pc' = [pc EXCEPT ![w] = "enter"]
        /\ UNCHANGED <<source, sink>>
  /\ UNCHANGED <<file_len, ispec_total, avail, in_slots, request_close,
                 output_q, finish, block, written, sched_mutex, next_task,
                 slotVars, shutdown>>

(***************************************************************************)
(* The end of primary_thread(): all workers joined, then uninit_io().      *)
(***************************************************************************)
JoinWorkersAndSource ==
  /\ shutdown = "running"
  /\ \A w \in Workers : pc[w] = "done"
  /\ source = "done"
  /\ finish' = TRUE
  /\ sink' = IF sink = "stalled" THEN "top" ELSE sink
  /\ shutdown' = "draining"
  /\ UNCHANGED <<output_q, block, written, sourceVars, schedVars, slotVars>>

JoinSink ==
  /\ shutdown = "draining"
  /\ sink = "done"
  /\ shutdown' = "done"
  /\ UNCHANGED <<sourceVars, sinkVars, schedVars, slotVars>>

(* The steps of the I/O threads in which the job plays no part.            *)
SourceOnly == SourceStall \/ SourceTakeSlot \/ SourceClosed \/ SourceRead
SinkOnly == SinkStall \/ SinkTake \/ SinkWrite \/ SinkExit
PrimaryOnly == JoinWorkersAndSource \/ JoinSink
=============================================================================

-------------------------------- MODULE Copy --------------------------------
(***************************************************************************)
(* copy() of process.c: with -dcf, input that is not a bzip2 file is       *)
(* copied to the output.  Only the source and the sink thread run; there   *)
(* are no tasks and no workers.  What ends the job is a side effect of the *)
(* stop condition, which sched_unlock() asks for: copy_terminate() raises  *)
(* SIGUSR2, for which the main thread waits in halt().                     *)
(*                                                                         *)
(* The callbacks do several steps that other threads may run between, so   *)
(* the source thread has a state "push" after the slot is taken, and the   *)
(* sink thread a state "count" after the buffer is released.  The four     *)
(* bytes of header that were read and written before are left out.         *)
(***************************************************************************)
EXTENDS Process

CONSTANT Word     \* the number of values of an unsigned int

ASSUME CopyAssumption ==
  /\ Workers = {}
  /\ TotalInSlots <= TotalOutSlots
  /\ Word \in Nat /\ Word > 2 * TotalOutSlots

VARIABLE raised   \* how often SIGUSR2 was raised

vars == <<procVars, raised>>

Init == ProcessInit /\ raised = 0

(* What copy_terminate() waits for.                                        *)
Finished == eof /\ out_slots = TotalOutSlots

(* Mutant of Raise: the end of the input is enough.                        *)
Raise_AtEof == raised' = IF eof' THEN raised + 1 ELSE raised

(* copy_terminate(), which always returns false.                           *)
Raise == raised' = IF Finished' THEN raised + 1 ELSE raised

Unlock == Raise /\ SchedUnlock(pc, NoTask, FALSE)

(***************************************************************************)
(* The callbacks.                                                          *)
(***************************************************************************)
(* copy_on_input_avail(): the slot is taken, then the buffer handed on.    *)
OnInputAvail ==
  /\ source = "deliver" /\ MonitorFree
  /\ out_slots' = (out_slots - 1) % Word
  /\ source' = "push"
  /\ UNCHANGED <<file_len, ispec_total, avail, in_slots, request_close,
                 sinkVars, eof, work_units, shutdown>>
  /\ Unlock

InputPushed ==
  /\ source = "push"
  /\ SinkWriteBuffer([lo |-> ispec_total - avail, hi |-> ispec_total])
  /\ source' = AfterDelivery
  /\ UNCHANGED <<file_len, ispec_total, avail, in_slots, request_close,
                 schedVars, slotVars, shutdown, raised>>

(* Mutant of OnWriteComplete: the buffer is not given back.                *)
OnWriteComplete_Leaks ==
  /\ sink = "release"
  /\ block' = NULL
  /\ sink' = "count"
  /\ UNCHANGED <<sourceVars, output_q, finish, written,
                 schedVars, slotVars, shutdown, raised>>

(* copy_on_write_complete(): the buffer is given back first, so the source *)
(* thread may take the slot again before it is counted.                    *)
OnWriteComplete ==
  /\ sink = "release"
  /\ block' = NULL
  /\ SourceReleaseBuffer
  /\ sink' = "count"
  /\ UNCHANGED <<file_len, ispec_total, avail, request_close, output_q, finish, written,
                 schedVars, slotVars, shutdown, raised>>

(* Mutant of WriteCounted: the slot is not given back.                     *)
WriteCounted_KeepsSlot ==
  /\ sink = "count" /\ MonitorFree
  /\ sink' = "top"
  /\ UNCHANGED <<output_q, finish, block, written, sourceVars, eof, work_units, out_slots,
                 shutdown>>
  /\ Unlock

WriteCounted ==
  /\ sink = "count" /\ MonitorFree
  /\ out_slots' = (out_slots + 1) % Word
  /\ sink' = "top"
  /\ UNCHANGED <<output_q, finish, block, written, sourceVars, eof, work_units, shutdown>>
  /\ Unlock

(***************************************************************************)
(* The threads.                                                            *)
(***************************************************************************)
SourceEnds == SourceSetsEof(NoTask, FALSE) /\ Raise

Source ==
  \/ OnInputAvail \/ InputPushed \/ SourceEnds
  \/ SourceOnly /\ UNCHANGED raised

Sink ==
  \/ OnWriteComplete \/ WriteCounted
  \/ SinkOnly /\ UNCHANGED raised

(* The main thread leaves halt() when the signal arrives, and joins.       *)
Main ==
  /\ raised > 0
  /\ PrimaryOnly
  /\ UNCHANGED raised

Spurious == SpuriousWakeup /\ UNCHANGED raised

Over == shutdown = "done" /\ UNCHANGED vars

Next == Source \/ Sink \/ Main \/ Spurious \/ Over

Spec == Init /\ [][Next]_vars

(* Every thread that can take a step is run.                               *)
Fairness == WF_vars(Source) /\ WF_vars(Sink) /\ WF_vars(Main)

FairSpec == Spec /\ Fairness
=============================================================================

------------------------------ MODULE CopyProps ------------------------------
(***************************************************************************)
(* What must hold of the copying job (module Copy).                        *)
(***************************************************************************)
EXTENDS Copy

(* The slots of the blocks on their way from copy_on_input_avail() to the  *)
(* end of copy_on_write_complete().                                        *)
OnTheirWay ==
  Len(output_q) + (IF source = "push" THEN 1 ELSE 0)
    + (IF sink \in {"write", "release", "count"} THEN 1 ELSE 0)

(* A slot may be taken again before it is counted as free, so out_slots    *)
(* may drop below zero and wrap around.  It remains the true balance, and  *)
(* output_q, which is allocated for TotalOutSlots blocks, is not overrun.  *)
SlotsBalance ==
  /\ out_slots = (TotalOutSlots - OnTheirWay) % Word
  /\ Len(output_q) <= TotalOutSlots

Abstract == INSTANCE OrderedOutput WITH
  len <- file_len, out <- written,
  trailer <- IF shutdown = "done" THEN written ELSE NULL

(* SIGUSR2 is raised once, no matter which thread comes last, and not      *)
(* before the last block is written: a second one would end the main       *)
(* thread's wait for the next file as soon as it begins.                   *)
RaisedOnce ==
  /\ raised <= 1
  /\ raised = 1 => source = "done" /\ output_q = <<>> /\ block = NULL
                 /\ Abstract!Covered(written) = file_len

(* The output is the input: its bytes, once each and in order, all of them *)
(* written when the job is over.                                           *)
CopiesInput == Abstract!Init /\ [][Abstract!Next]_(Abstract!vars)

(* The main thread gets its signal and joins the other two.                *)
Termination == <>(shutdown = "done")
=============================================================================

--------------------------- MODULE ExpansionProps ---------------------------
(***************************************************************************)
(* What must hold of the decompressor (module Expansion).                  *)
(***************************************************************************)
EXTENDS Expansion

(***************************************************************************)
(* Resources.                                                              *)
(***************************************************************************)
Slots(taken) == IF taken THEN 1 ELSE 0
InQueue(o) == \E b \in ToSet(input_q) : b.offset = o
Readers(o) == {w \in Workers : blk[w] # NULL /\ blk[w].offset = o}

(* A work unit is free or held by a pattern from the time it is found (or  *)
(* looked for) until it is completely emitted, dropped or abandoned, on    *)
(* whichever path that happens and whoever notices.                        *)
WorkUnitsConserved ==
  work_units + Len(retr_q) + Len(emit_q)
    + Cardinality(At({"parse", "retrieve", "decode", "emit", "scan"})) = num_worker

OutSlotsConserved ==
  out_slots + Cardinality(At({"emit"})) + Len(reord_q) + Len(output_q)
    + Slots(sink \in {"write", "release"}) = TotalOutSlots

(* An input slot is free or held by a buffer: one that is being filled, or *)
(* one that somebody refers to.                                            *)
InSlotsConserved ==
  in_slots + Slots(source \in {"read", "deliver"}) + Cardinality(DOMAIN ref_count)
    = TotalInSlots

(* No work unit, output slot or input slot is ever lost or made up, and    *)
(* no count, which the code keeps without a sign, drops below zero.        *)
ResourcesConserved ==
  /\ work_units >= 0 /\ out_slots >= 0 /\ in_slots >= 0
  /\ WorkUnitsConserved /\ OutSlotsConserved /\ InSlotsConserved

(* The queues have the room that init() allocates for them: the macros do  *)
(* not check it, or only by assertions.  Each block in input_q and each    *)
(* place in scan_q has a buffer; each block in order_q holds a work unit   *)
(* or an output slot until its last chunk is written, whoever found it.    *)
QueuesFit ==
  /\ Len(input_q) <= TotalInSlots /\ Len(scan_q) <= TotalInSlots
  /\ Len(order_q) <= num_worker + TotalOutSlots

(* enqueue() says: "Insert element `e' into non-full priority queue `q'."  *)
(* The capacity of unord_q is what speculation can have of units and slots *)
(* at a time.                                                              *)
UnordFits == Len(unord_q) <= max(num_worker + TotalOutSlots - UNORD_THRESH, 0)

(***************************************************************************)
(* Mastership.                                                             *)
(***************************************************************************)
InHand == {job[w] : w \in At({"retrieve"})}
MasterJobs == {rb \in ToSet(retr_q) \cup InHand : IsMaster(rb) /\ ~ InVain(rb)}

(* The chain of blocks has one master: the parser, who may run or be       *)
(* running, or one retriever; and parser_bs is where the master is.        *)
OneMaster ==
  /\ Cardinality(At({"parse"})) + Slots(parse_token) + Cardinality(MasterJobs) = 1
  /\ \A rb \in MasterJobs : parser_bs = BitsAt(rb.pos[1], rb.offset)
  /\ \A w \in At({"parse"}) : parser_bs = job[w]

(* A buffer is released by whoever drops the last of its references, which *)
(* are counted.                                                            *)
ReferencesCounted ==
  /\ \A b \in ToSet(input_q) \cup ({blk[w] : w \in Workers} \ {NULL}) :
       b.offset \in DOMAIN ref_count
  /\ \A o \in DOMAIN ref_count : ref_count[o] = Slots(InQueue(o)) + Cardinality(Readers(o))

(* The input that is kept reaches from head_offs to tail_offs without a    *)
(* gap, and whoever has still to read from it finds it there: the parser,  *)
(* the scanners (who are never behind the parser's input block), and each  *)
(* retriever of a block of the stream.                                     *)
InputAvailable ==
  /\ ReferencesCounted
  /\ \A i \in 1 .. Len(input_q) :
       input_q[i].offset = IF i = 1 THEN head_offs ELSE End(input_q[i - 1])
  /\ tail_offs = IF input_q = <<>> THEN head_offs ELSE End(Last(input_q))
  /\ parsing_done \/ ~ Released(parser_bs)
  /\ \A bs \in ToSet(scan_q) :
       ~ Released(bs) /\ Major(bs.pos[1]) >= Major(parser_bs.pos[1])
  /\ \A rb \in ToSet(retr_q) :
       rb.base \in {b.base : b \in ToSet(stream.blocks)} => ~ Released(rb)

(* can_attach() says: "No one should try to attach a block that has        *)
(* already been released."  It asserts that; select_task() asks it.        *)
NothingReleasedIsAttached == next_task # Abort

(***************************************************************************)
(* The end.                                                                *)
(***************************************************************************)
(* The assertions of primary_thread(), uninit(), pqueue_uninit() and       *)
(* deque_uninit().                                                         *)
AtExitClean ==
  shutdown = "done" =>
    /\ eof /\ in_slots = TotalInSlots
    /\ out_slots = TotalOutSlots /\ work_units = num_worker
    /\ parsing_done /\ parse_token /\ head_offs = tail_offs
    /\ \A q \in {input_q, scan_q, retr_q, emit_q, reord_q, order_q, unord_q, output_q} :
         q = <<>>

(* The reserves of work units and output slots suffice (MEMORY ALLOCATION  *)
(* in expand.c): the job does not come to a halt with all workers waiting, *)
(* nothing to read and nothing to write.                                   *)
Stuck ==
  /\ ~ Gone
  /\ \A w \in Workers : pc[w] = "waiting"
  /\ source \in {"stalled", "done"} /\ sink = "stalled"

NeverStuck == ~ Stuck

(***************************************************************************)
(* What a reader of the output sees.                                       *)
(***************************************************************************)
verdict ==
  IF shutdown = "killed" THEN "error" ELSE IF shutdown = "done" THEN "well" ELSE "working"

Abstract == INSTANCE SequentialDecoder WITH out <- written, verdict <- verdict

(* The decompressor writes what a sequential decoder would, rejects what   *)
(* it would reject, and accepts what it would accept, whatever was guessed.*)
ImplementsSequentialDecoder == Abstract!Init /\ [][Abstract!Next]_(Abstract!vars)

(* It comes to its end, finds that it cannot, or fails the assertion that  *)
(* NothingReleasedIsAttached is about.  (Waits may end without a signal,   *)
(* but not for ever and ever.)                                             *)
Termination ==
  []<><<Spurious>>_vars \/ <>(shutdown \in {"done", "killed"} \/ next_task = Abort)
=============================================================================

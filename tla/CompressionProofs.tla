------------------------- MODULE CompressionProofs -------------------------
(***************************************************************************)
(* Proofs about the compressor for any number of workers, any input length *)
(* and any number of slots, in both modes of collecting: types, wakeups,   *)
(* that no work unit, output slot or input slot is lost or made up, and    *)
(* that the blocks are written in the order of the input.                  *)
(***************************************************************************)
EXTENDS CompressionProps, PQueueProofs, WellFoundedInduction

(***************************************************************************)
(* The inductive invariant behind type correctness.  A task runs only when *)
(* next_task is fresh, which is what makes the head of a queue exist and a *)
(* count of free units positive when the task takes it; and the locals of  *)
(* a worker are set exactly where its code uses them.                      *)
(***************************************************************************)
HoldsInBlk == {"collect", "collect_seq"}
HoldsWorkBlk == {"collect", "collect_seq", "unfinished", "full", "encode", "transmit"}

InHand ==
  /\ \A w \in Workers :
       /\ iblk[w] # NULL <=> pc[w] \in HoldsInBlk
       /\ wblk[w] # NULL <=> pc[w] \in HoldsWorkBlk
  /\ block # NULL <=> sink \in {"write", "release"}

ReadSoFar == avail <= ispec_total /\ ispec_total <= file_len

TypeInv == TypeOK /\ NextTaskFresh /\ InHand /\ ReadSoFar

(***************************************************************************)
(* The scheduler monitor.                                                  *)
(***************************************************************************)
LEMMA SelectTaskType == SelectTask \in Tasks \cup {NoTask}
  BY DEF SelectTask, Tasks, NoTask

(* A fresh next_task is a task that is ready.                              *)
LEMMA TaskReady ==
  ASSUME NextTaskFresh
  PROVE  /\ next_task = "collect_seq" => can_collect_seq
         /\ next_task = "reorder" => can_reorder
         /\ next_task = "transmit" => can_transmit
         /\ next_task = "collect" => can_collect
  BY DEF NextTaskFresh, SelectTask, NoTask

(* What leaving the monitor does: at most one worker is woken, and one is  *)
(* if there is a task to run or the end of the job to announce.            *)
LEMMA UnlockEffect ==
  ASSUME NEW p \in [Workers -> WorkerStates], Unlock(p)
  PROVE  /\ NextTaskFresh'
         /\ next_task' \in Tasks \cup {NoTask}
         /\ sched_mutex' \in Workers \cup {NULL}
         /\ pc' \in [Workers -> WorkerStates]
         /\ \A v \in Workers : pc'[v] = p[v] \/ (p[v] = "waiting" /\ pc'[v] = "enter")
         /\ NoLostWakeup'
<1>1. next_task' = SelectTask' /\ sched_mutex' = NULL
  BY DEF Unlock, SchedUnlock
<1>2. SelectTask' \in Tasks \cup {NoTask}
  BY DEF SelectTask, Tasks, NoTask
<1>3. pc' = p \/ \E w \in Waiting(p) : pc' = [p EXCEPT ![w] = "enter"]
  BY DEF Unlock, SchedUnlock, Signalled
<1>4. ASSUME next_task' # NoTask \/ can_terminate', Waiting(pc') # {}
      PROVE  \E w \in Workers : pc'[w] = "enter"
  <2>1. pc' \in Signalled(p)
    BY <1>1, <1>4 DEF Unlock, SchedUnlock
  <2>2. Waiting(p) # {}
    BY <2>1, <1>4 DEF Signalled
  <2>3. PICK w \in Waiting(p) : pc' = [p EXCEPT ![w] = "enter"]
    BY <2>1, <2>2 DEF Signalled
  <2> QED
    BY <2>3 DEF Waiting
<1>5. NoLostWakeup'
  BY <1>4 DEF NoLostWakeup, At
<1>6. /\ pc' \in [Workers -> WorkerStates]
      /\ \A v \in Workers : pc'[v] = p[v] \/ (p[v] = "waiting" /\ pc'[v] = "enter")
  BY <1>3 DEF Waiting, WorkerStates
<1> QED
  BY <1>1, <1>2, <1>5, <1>6 DEF NextTaskFresh

(* What going back to the loop of the worker does.                         *)
LEMMA ReturnEffect ==
  ASSUME NEW w \in Workers, pc \in [Workers -> WorkerStates], Return(w)
  PROVE  /\ NextTaskFresh'
         /\ next_task' \in Tasks \cup {NoTask}
         /\ sched_mutex' \in Workers \cup {NULL}
         /\ pc' = [pc EXCEPT ![w] = "loop"]
         /\ pc' \in [Workers -> WorkerStates]
         /\ NoLostWakeup'
<1>1. SelectTask' \in Tasks \cup {NoTask}
  BY DEF SelectTask, Tasks, NoTask
<1> QED
  BY <1>1 DEF Return, BackInLoop, NextTaskFresh, NoLostWakeup, At, WorkerStates

(***************************************************************************)
(* Types: the initial states and, action by action, every step.            *)
(***************************************************************************)
LEMMA InitTypeInv == Init => TypeInv
<1> SUFFICES ASSUME Init PROVE TypeInv
  OBVIOUS
<1> USE ProcessAssumption DEF Init, ProcessInit
<1>1. num_worker \in Nat
  BY FS_CardinalityType DEF num_worker
<1>2. TypeOK
  <2>1. SourceTypeOK
    BY DEF SourceTypeOK
  <2>4. SinkTypeOK
    <3>1. <<>> \in Seq(OutBlk)
      OBVIOUS
    <3> QED
      BY <3>1 DEF SinkTypeOK
  <2>2. MonitorTypeOK
    BY DEF MonitorTypeOK, WorkerStates, NoTask
  <2>3. QueueTypeOK /\ InHandTypeOK
    BY DEF QueueTypeOK, InHandTypeOK, Position
  <2> QED
    BY <1>1, <2>1, <2>2, <2>3, <2>4 DEF TypeOK
<1>3. NextTaskFresh
  BY DEF NextTaskFresh, SelectTask, can_collect_seq, can_reorder, can_transmit, can_collect
<1>4. InHand /\ ReadSoFar
  BY <1>2 DEF InHand, ReadSoFar, HoldsInBlk, HoldsWorkBlk, TypeOK, SourceTypeOK
<1> QED
  BY <1>2, <1>3, <1>4 DEF TypeInv

(* A worker that goes from one control state to another sets its locals    *)
(* accordingly; workers that are woken hold nothing.                       *)
LEMMA InHandStep ==
  ASSUME TypeOK, InHand, NEW w \in Workers, NEW s,
         NEW i \in InBlk \cup {NULL}, NEW b \in WorkBlk \cup {NULL},
         i # NULL <=> s \in HoldsInBlk, b # NULL <=> s \in HoldsWorkBlk,
         iblk' = [iblk EXCEPT ![w] = i], wblk' = [wblk EXCEPT ![w] = b],
         pc'[w] = s,
         \A v \in Workers \ {w} : pc'[v] = pc[v] \/ (pc[v] = "waiting" /\ pc'[v] = "enter"),
         block' # NULL <=> sink' \in {"write", "release"}
  PROVE  InHand'
<1> SUFFICES ASSUME NEW v \in Workers
             PROVE  /\ iblk'[v] # NULL <=> pc'[v] \in HoldsInBlk
                    /\ wblk'[v] # NULL <=> pc'[v] \in HoldsWorkBlk
  BY DEF InHand
<1> USE DEF TypeOK, MonitorTypeOK, InHandTypeOK, HoldsInBlk, HoldsWorkBlk
<1>1. CASE v = w
  BY <1>1
<1>2. CASE v # w
  <2>1. iblk'[v] = iblk[v] /\ wblk'[v] = wblk[v]
    BY <1>2
  <2>2. pc'[v] = pc[v] \/ (pc[v] = "waiting" /\ pc'[v] = "enter")
    BY <1>2
  <2> QED
    BY <2>1, <2>2 DEF InHand
<1> QED
  BY <1>1, <1>2

(* An assignment to two members of a work block.                           *)
LEMMA WorkBlkExcept ==
  ASSUME NEW b \in WorkBlk, NEW p \in Position, NEW h \in Nat
  PROVE  [b EXCEPT !.next = p, !.hi = h] \in WorkBlk
  BY DEF WorkBlk

(* What taking part of the input block, or all of it, does to the types.   *)
LEMMA TakePartTypes ==
  ASSUME TypeInv, NEW w \in Workers, pc[w] \in HoldsInBlk,
         NEW n \in 0 .. iblk[w].left - 1, TakePart(w, n)
  PROVE  /\ coll_q' \in Seq(InBlk)
         /\ iblk' = [iblk EXCEPT ![w] = NULL]
         /\ \E b \in WorkBlk : wblk' = [wblk EXCEPT ![w] = b]
<1> DEFINE b == iblk[w]
           rest == [pos |-> <<b.pos[1], b.pos[2] + 1>>, next |-> b.next + n, left |-> b.left - n]
           e == [wblk[w] EXCEPT !.next = <<@[1], @[2] + 1>>, !.hi = @ + n]
<1>1. b \in InBlk /\ wblk[w] \in WorkBlk
  BY DEF TypeInv, TypeOK, InHand, InHandTypeOK, HoldsInBlk, HoldsWorkBlk
<1>2. rest \in InBlk
  BY <1>1 DEF InBlk, Position
<1>3. coll_q \in Seq(InBlk) /\ coll_q' = enqueue(coll_q, rest)
  BY DEF TakePart, TypeInv, TypeOK, QueueTypeOK
<1>4. coll_q' \in Seq(InBlk)
  BY <1>2, <1>3, EnqueueType
<1>5. e \in WorkBlk
  <2>1. <<wblk[w].next[1], wblk[w].next[2] + 1>> \in Position /\ wblk[w].hi + n \in Nat
    BY <1>1 DEF WorkBlk, Position
  <2> QED
    BY <1>1, <2>1, WorkBlkExcept
<1>6. wblk' = [wblk EXCEPT ![w] = e]
  BY DEF TakePart, TypeInv, TypeOK, InHandTypeOK
<1> QED
  BY <1>4, <1>5, <1>6 DEF TakePart

LEMMA TakeAllTypes ==
  ASSUME TypeInv, NEW w \in Workers, pc[w] \in HoldsInBlk,
         NEW then \in {"full", "unfinished", "encode"}, TakeAll(w, then)
  PROVE  TypeInv'
<1> DEFINE e == [wblk[w] EXCEPT !.next = <<@[1] + 1, 0>>, !.hi = @ + iblk[w].left]
<1> USE DEF TypeInv, TypeOK
<1>1. iblk[w] \in InBlk /\ wblk[w] \in WorkBlk
  BY DEF InHand, InHandTypeOK, HoldsInBlk, HoldsWorkBlk
<1>2. e \in WorkBlk
  <2>1. <<wblk[w].next[1] + 1, 0>> \in Position /\ wblk[w].hi + iblk[w].left \in Nat
    BY <1>1 DEF WorkBlk, InBlk, Position
  <2> QED
    BY <1>1, <2>1, WorkBlkExcept
<1>3. wblk' = [wblk EXCEPT ![w] = e] /\ iblk' = [iblk EXCEPT ![w] = NULL]
  BY DEF TakeAll, InHandTypeOK
<1>4. SourceTypeOK' /\ SinkTypeOK' /\ ReadSoFar'
  BY DEF TakeAll, SourceReleaseBuffer, SourceTypeOK, SinkTypeOK, ReadSoFar, sinkVars
<1>5. pc' = [pc EXCEPT ![w] = then] /\ MonitorTypeOK' /\ work_units' \in Nat /\ out_slots' \in Nat
  BY DEF TakeAll, MonitorTypeOK, WorkerStates, slotVars
<1>6. QueueTypeOK' /\ InHandTypeOK'
  BY <1>2, <1>3 DEF TakeAll, jobVars, QueueTypeOK, InHandTypeOK
<1>7. NextTaskFresh'
  BY DEF NextTaskFresh, SelectTask, can_collect_seq, can_reorder, can_transmit, can_collect,
         TakeAll, jobVars, slotVars
<1>8. InHand'
  <2>1. block' # NULL <=> sink' \in {"write", "release"}
    BY DEF TakeAll, InHand, sinkVars
  <2> QED
    BY <1>2, <1>3, <1>5, <2>1, InHandStep, InHandAssumption
    DEF MonitorTypeOK, HoldsInBlk, HoldsWorkBlk
<1> QED
  BY <1>4, <1>5, <1>6, <1>7, <1>8

LEMMA DoCollectTypes ==
  ASSUME TypeInv, NEW w \in Workers, DoCollect(w)
  PROVE  TypeInv'
<1> DEFINE p == [pc EXCEPT ![w] = "collect"]
<1> USE DEF TypeInv, TypeOK
<1>1. can_collect
  BY TaskReady DEF DoCollect, AtTask
<1>2. /\ coll_q \in Seq(InBlk) /\ coll_q # <<>>
      /\ coll_q' = dequeue(coll_q) /\ work_units' \in Nat
  BY <1>1 DEF can_collect, DoCollect, QueueTypeOK
<1>3. peek(coll_q) \in InBlk /\ coll_q' \in Seq(InBlk)
  BY <1>2, DequeueType
<1>4. NewWorkBlk(peek(coll_q)) \in WorkBlk
  BY <1>3 DEF NewWorkBlk, InBlk, WorkBlk
<1>5. p \in [Workers -> WorkerStates] /\ Unlock(p)
  BY DEF DoCollect, MonitorTypeOK, WorkerStates
<1>6. /\ NextTaskFresh' /\ MonitorTypeOK'
      /\ \A v \in Workers : pc'[v] = p[v] \/ (p[v] = "waiting" /\ pc'[v] = "enter")
  BY <1>5, UnlockEffect DEF DoCollect, MonitorTypeOK
<1>7. SourceTypeOK' /\ SinkTypeOK' /\ ReadSoFar' /\ out_slots' \in Nat
  BY DEF DoCollect, sourceVars, sinkVars, SourceTypeOK, SinkTypeOK, ReadSoFar
<1>8. QueueTypeOK' /\ InHandTypeOK'
  BY <1>3, <1>4 DEF DoCollect, QueueTypeOK, InHandTypeOK
<1>9. InHand'
  BY <1>3, <1>4, <1>6, InHandAssumption
  DEF DoCollect, InHand, MonitorTypeOK, InHandTypeOK, HoldsInBlk, HoldsWorkBlk, sinkVars
<1> QED
  BY <1>2, <1>6, <1>7, <1>8, <1>9

(* CollectPart and CollectSeqPart, which differ in where they lead.        *)
LEMMA PartTypes ==
  ASSUME TypeInv, NEW w \in Workers, pc[w] \in HoldsInBlk, NEW then \in {"encode", "full"},
         NEW n \in 0 .. iblk[w].left - 1, TakePart(w, n), Unlock([pc EXCEPT ![w] = then])
  PROVE  TypeInv'
<1> DEFINE p == [pc EXCEPT ![w] = then]
<1> USE DEF TypeInv, TypeOK
<1>1. /\ coll_q' \in Seq(InBlk)
      /\ iblk' = [iblk EXCEPT ![w] = NULL]
      /\ \E b \in WorkBlk : wblk' = [wblk EXCEPT ![w] = b]
  BY TakePartTypes
<1>2. p \in [Workers -> WorkerStates] /\ Unlock(p)
  BY DEF MonitorTypeOK, WorkerStates
<1>3. /\ NextTaskFresh' /\ MonitorTypeOK'
      /\ \A v \in Workers : pc'[v] = p[v] \/ (p[v] = "waiting" /\ pc'[v] = "enter")
  BY <1>2, UnlockEffect DEF TakePart, MonitorTypeOK, slotVars
<1>4. SourceTypeOK' /\ SinkTypeOK' /\ ReadSoFar' /\ work_units' \in Nat /\ out_slots' \in Nat
  BY DEF TakePart, sourceVars, sinkVars, slotVars, SourceTypeOK, SinkTypeOK, ReadSoFar
<1>5. QueueTypeOK' /\ InHandTypeOK'
  BY <1>1 DEF TakePart, QueueTypeOK, InHandTypeOK
<1>6. InHand'
  <2>1. block' # NULL <=> sink' \in {"write", "release"}
    BY DEF TakePart, InHand, sinkVars
  <2>2. PICK b \in WorkBlk : wblk' = [wblk EXCEPT ![w] = b]
    BY <1>1
  <2>3. then \notin HoldsInBlk /\ then \in HoldsWorkBlk /\ b # NULL
    BY InHandAssumption DEF HoldsInBlk, HoldsWorkBlk
  <2>4. /\ pc'[w] = then
        /\ \A v \in Workers \ {w} : pc'[v] = pc[v] \/ (pc[v] = "waiting" /\ pc'[v] = "enter")
    BY <1>3 DEF MonitorTypeOK
  <2> QED
    BY <1>1, <2>1, <2>2, <2>3, <2>4, InHandStep
<1> QED
  BY <1>3, <1>4, <1>5, <1>6

LEMMA EncodedTypes ==
  ASSUME TypeInv, NEW w \in Workers, Encoded(w)
  PROVE  TypeInv'
<1> USE DEF TypeInv, TypeOK
<1>1. wblk[w] \in WorkBlk /\ trans_q \in Seq(WorkBlk) /\ trans_q' = enqueue(trans_q, wblk[w])
  BY DEF Encoded, InHand, InHandTypeOK, QueueTypeOK, HoldsWorkBlk
<1>2. trans_q' \in Seq(WorkBlk)
  BY <1>1, EnqueueType
<1>3. pc' = [pc EXCEPT ![w] = "loop"] /\ NextTaskFresh' /\ MonitorTypeOK'
  BY ReturnEffect DEF Encoded, MonitorTypeOK, slotVars
<1>4. SourceTypeOK' /\ SinkTypeOK' /\ ReadSoFar' /\ work_units' \in Nat /\ out_slots' \in Nat
  BY DEF Encoded, sourceVars, sinkVars, slotVars, SourceTypeOK, SinkTypeOK, ReadSoFar
<1>5. QueueTypeOK' /\ InHandTypeOK'
  BY <1>2 DEF Encoded, QueueTypeOK, InHandTypeOK
<1>6. InHand'
  BY <1>3 DEF Encoded, InHand, MonitorTypeOK, InHandTypeOK, HoldsInBlk, HoldsWorkBlk, sinkVars
<1> QED
  BY <1>3, <1>4, <1>5, <1>6

LEMMA DoCollectSeqTypes ==
  ASSUME TypeInv, NEW w \in Workers, DoCollectSeq(w)
  PROVE  TypeInv'
<1> DEFINE more == coll_q # <<>>
           fresh == unfinished_work = NULL
           s == IF more THEN "collect_seq" ELSE "full"
           i == IF more THEN peek(coll_q) ELSE NULL
           b == IF fresh THEN NewWorkBlk(peek(coll_q)) ELSE unfinished_work
           p == [pc EXCEPT ![w] = s]
<1> USE DEF TypeInv, TypeOK
<1>1. can_collect_seq
  BY TaskReady DEF DoCollectSeq, AtTask
<1>2. work_units' \in Nat /\ (fresh => more)
  BY <1>1 DEF can_collect_seq, DoCollectSeq
<1>3. more => peek(coll_q) \in InBlk /\ dequeue(coll_q) \in Seq(InBlk)
  BY DequeueType DEF QueueTypeOK
<1>4. more => NewWorkBlk(peek(coll_q)) \in WorkBlk
  BY <1>3 DEF NewWorkBlk, InBlk, WorkBlk
<1>5. i \in InBlk \cup {NULL} /\ (i # NULL <=> more) /\ b \in WorkBlk /\ b # NULL
  BY <1>2, <1>3, <1>4, InHandAssumption DEF InHandTypeOK
<1>6. iblk' = [iblk EXCEPT ![w] = i] /\ wblk' = [wblk EXCEPT ![w] = b]
      /\ coll_q' \in Seq(InBlk)
  BY <1>3 DEF DoCollectSeq, QueueTypeOK
<1>7. p \in [Workers -> WorkerStates] /\ Unlock(p)
  BY DEF DoCollectSeq, MonitorTypeOK, WorkerStates
<1>8. /\ NextTaskFresh' /\ MonitorTypeOK'
      /\ \A v \in Workers : pc'[v] = p[v] \/ (p[v] = "waiting" /\ pc'[v] = "enter")
  BY <1>7, UnlockEffect DEF DoCollectSeq, MonitorTypeOK
<1>9. SourceTypeOK' /\ SinkTypeOK' /\ ReadSoFar' /\ out_slots' \in Nat
  BY DEF DoCollectSeq, sourceVars, sinkVars, SourceTypeOK, SinkTypeOK, ReadSoFar
<1>10. QueueTypeOK'
  BY <1>6 DEF DoCollectSeq, QueueTypeOK
<1>11. InHandTypeOK'
  BY <1>5, <1>6 DEF DoCollectSeq, InHandTypeOK
<1>12. InHand'
  <2>1. block' # NULL <=> sink' \in {"write", "release"}
    BY DEF DoCollectSeq, InHand, sinkVars
  <2>2. (s \in HoldsInBlk <=> more) /\ s \in HoldsWorkBlk
    BY DEF HoldsInBlk, HoldsWorkBlk
  <2>3. /\ pc'[w] = s
        /\ \A v \in Workers \ {w} : pc'[v] = pc[v] \/ (pc[v] = "waiting" /\ pc'[v] = "enter")
    BY <1>8 DEF MonitorTypeOK
  <2> HIDE DEF s, i, b, more
  <2> QED
    BY <1>5, <1>6, <2>1, <2>2, <2>3, InHandStep
<1> QED
  BY <1>2, <1>8, <1>9, <1>10, <1>11, <1>12

LEMMA KeepUnfinishedTypes ==
  ASSUME TypeInv, NEW w \in Workers, KeepUnfinished(w)
  PROVE  TypeInv'
<1> USE DEF TypeInv, TypeOK
<1>1. wblk[w] \in WorkBlk
  BY DEF KeepUnfinished, InHand, InHandTypeOK, HoldsWorkBlk
<1>2. pc' = [pc EXCEPT ![w] = "loop"] /\ NextTaskFresh' /\ MonitorTypeOK'
  BY ReturnEffect DEF KeepUnfinished, MonitorTypeOK, slotVars
<1>3. SourceTypeOK' /\ SinkTypeOK' /\ ReadSoFar' /\ work_units' \in Nat /\ out_slots' \in Nat
  BY DEF KeepUnfinished, sourceVars, sinkVars, slotVars, SourceTypeOK, SinkTypeOK, ReadSoFar
<1>4. QueueTypeOK' /\ InHandTypeOK'
  BY <1>1 DEF KeepUnfinished, QueueTypeOK, InHandTypeOK
<1>5. InHand'
  BY <1>2 DEF KeepUnfinished, InHand, MonitorTypeOK, InHandTypeOK, HoldsInBlk, HoldsWorkBlk, sinkVars
<1> QED
  BY <1>2, <1>3, <1>4, <1>5

LEMMA PassTokenTypes ==
  ASSUME TypeInv, NEW w \in Workers, PassToken(w)
  PROVE  TypeInv'
<1> DEFINE p == [pc EXCEPT ![w] = "encode"]
<1> USE DEF TypeInv, TypeOK
<1>1. p \in [Workers -> WorkerStates] /\ Unlock(p)
  BY DEF PassToken, MonitorTypeOK, WorkerStates
<1>2. /\ NextTaskFresh' /\ MonitorTypeOK'
      /\ \A v \in Workers : pc'[v] = p[v] \/ (p[v] = "waiting" /\ pc'[v] = "enter")
  BY <1>1, UnlockEffect DEF PassToken, MonitorTypeOK, slotVars
<1>3. SourceTypeOK' /\ SinkTypeOK' /\ ReadSoFar' /\ work_units' \in Nat /\ out_slots' \in Nat
  BY DEF PassToken, sourceVars, sinkVars, slotVars, SourceTypeOK, SinkTypeOK, ReadSoFar
<1>4. QueueTypeOK' /\ InHandTypeOK'
  BY DEF PassToken, QueueTypeOK, InHandTypeOK
<1>5. InHand'
  BY <1>2 DEF PassToken, InHand, MonitorTypeOK, HoldsInBlk, HoldsWorkBlk, sinkVars
<1> QED
  BY <1>2, <1>3, <1>4, <1>5

LEMMA DoTransmitTypes ==
  ASSUME TypeInv, NEW w \in Workers, DoTransmit(w)
  PROVE  TypeInv'
<1> DEFINE p == [pc EXCEPT ![w] = "transmit"]
<1> USE DEF TypeInv, TypeOK
<1>1. can_transmit
  BY TaskReady DEF DoTransmit, AtTask
<1>2. trans_q \in Seq(WorkBlk) /\ trans_q # <<>> /\ out_slots' \in Nat
  BY <1>1 DEF can_transmit, TRANSM_THRESH, DoTransmit, QueueTypeOK
<1>3. peek(trans_q) \in WorkBlk /\ trans_q' \in Seq(WorkBlk)
  BY <1>2, DequeueType DEF DoTransmit
<1>4. p \in [Workers -> WorkerStates] /\ Unlock(p)
  BY DEF DoTransmit, MonitorTypeOK, WorkerStates
<1>5. /\ NextTaskFresh' /\ MonitorTypeOK'
      /\ \A v \in Workers : pc'[v] = p[v] \/ (p[v] = "waiting" /\ pc'[v] = "enter")
  BY <1>4, UnlockEffect DEF DoTransmit, MonitorTypeOK
<1>6. SourceTypeOK' /\ SinkTypeOK' /\ ReadSoFar' /\ work_units' \in Nat
  BY DEF DoTransmit, sourceVars, sinkVars, SourceTypeOK, SinkTypeOK, ReadSoFar
<1>7. QueueTypeOK' /\ InHandTypeOK'
  BY <1>3 DEF DoTransmit, QueueTypeOK, InHandTypeOK
<1>8. InHand'
  <2>1. pc[w] = "loop" /\ iblk[w] = NULL /\ iblk' = [iblk EXCEPT ![w] = NULL]
    BY DEF DoTransmit, AtTask, InHand, InHandTypeOK, HoldsInBlk
  <2>2. /\ pc'[w] = "transmit"
        /\ \A v \in Workers \ {w} : pc'[v] = pc[v] \/ (pc[v] = "waiting" /\ pc'[v] = "enter")
    BY <1>5 DEF MonitorTypeOK
  <2>3. wblk' = [wblk EXCEPT ![w] = peek(trans_q)] /\ peek(trans_q) # NULL
    BY <1>3, InHandAssumption DEF DoTransmit
  <2>4. block' # NULL <=> sink' \in {"write", "release"}
    BY DEF DoTransmit, InHand, sinkVars
  <2> QED
    BY <1>3, <2>1, <2>2, <2>3, <2>4, InHandStep DEF HoldsInBlk, HoldsWorkBlk
<1> QED
  BY <1>2, <1>5, <1>6, <1>7, <1>8

LEMMA TransmittedTypes ==
  ASSUME TypeInv, NEW w \in Workers, Transmitted(w)
  PROVE  TypeInv'
<1> USE DEF TypeInv, TypeOK
<1>1. wblk[w] \in WorkBlk /\ reord_q \in Seq(WorkBlk) /\ reord_q' = enqueue(reord_q, wblk[w])
  BY DEF Transmitted, InHand, InHandTypeOK, QueueTypeOK, HoldsWorkBlk
<1>2. reord_q' \in Seq(WorkBlk)
  BY <1>1, EnqueueType
<1>3. pc' = [pc EXCEPT ![w] = "loop"] /\ NextTaskFresh' /\ MonitorTypeOK'
  BY ReturnEffect DEF Transmitted, MonitorTypeOK
<1>4. SourceTypeOK' /\ SinkTypeOK' /\ ReadSoFar' /\ work_units' \in Nat /\ out_slots' \in Nat
  BY DEF Transmitted, sourceVars, sinkVars, SourceTypeOK, SinkTypeOK, ReadSoFar
<1>5. QueueTypeOK' /\ InHandTypeOK'
  BY <1>2 DEF Transmitted, QueueTypeOK, InHandTypeOK
<1>6. InHand'
  BY <1>3 DEF Transmitted, InHand, MonitorTypeOK, InHandTypeOK, HoldsInBlk, HoldsWorkBlk, sinkVars
<1> QED
  BY <1>3, <1>4, <1>5, <1>6

LEMMA DoReorderTypes ==
  ASSUME TypeInv, NEW w \in Workers, DoReorder(w)
  PROVE  TypeInv'
<1> DEFINE b == peek(reord_q)
<1> USE DEF TypeInv, TypeOK
<1>1. can_reorder
  BY TaskReady DEF DoReorder, AtTask
<1>2. reord_q \in Seq(WorkBlk) /\ reord_q # <<>>
  BY <1>1 DEF can_reorder, QueueTypeOK
<1>3. b \in WorkBlk /\ reord_q' \in Seq(WorkBlk)
  BY <1>2, DequeueType DEF DoReorder
<1>4. Output(b) \in OutBlk /\ order' \in Position
  BY <1>3 DEF Output, OutBlk, WorkBlk, DoReorder
<1>5. SinkTypeOK' /\ combined_crc' \in Seq(OutBlk)
  BY <1>4 DEF DoReorder, SinkWriteBuffer, SinkTypeOK, QueueTypeOK
<1>6. NextTaskFresh' /\ MonitorTypeOK'
  BY SelectTaskType DEF DoReorder, NextTaskFresh, MonitorTypeOK, slotVars, SelectTask, Tasks, NoTask
<1>7. SourceTypeOK' /\ ReadSoFar' /\ work_units' \in Nat /\ out_slots' \in Nat
  BY DEF DoReorder, sourceVars, slotVars, SourceTypeOK, ReadSoFar
<1>8. QueueTypeOK' /\ InHandTypeOK'
  BY <1>3, <1>4, <1>5 DEF DoReorder, QueueTypeOK, InHandTypeOK
<1>9. InHand'
  BY DEF DoReorder, SinkWriteBuffer, InHand, SinkTypeOK
<1> QED
  BY <1>5, <1>6, <1>7, <1>8, <1>9

(* Nothing that the readiness of a task depends on has changed.            *)
LEMMA StillFresh ==
  ASSUME NextTaskFresh, UNCHANGED <<jobVars, slotVars, next_task>>
  PROVE  NextTaskFresh'
  BY DEF NextTaskFresh, SelectTask, can_collect_seq, can_reorder, can_transmit, can_collect,
         jobVars, slotVars

LEMMA SourceOnlyTypes ==
  ASSUME TypeInv, SourceOnly, UNCHANGED <<jobVars, iblk, wblk>>
  PROVE  TypeInv'
<1> USE DEF TypeInv, TypeOK
<1>1. UNCHANGED <<sinkVars, schedVars, slotVars, shutdown>>
  BY DEF SourceOnly, SourceStall, SourceTakeSlot, SourceClosed, SourceRead
<1>2. SourceTypeOK' /\ ReadSoFar'
  <2> USE DEF SourceTypeOK, ReadSoFar
  <2>1. CASE SourceStall
    BY <2>1 DEF SourceStall
  <2>2. CASE SourceTakeSlot
    BY <2>2 DEF SourceTakeSlot
  <2>3. CASE SourceRead
    <3>1. avail' \in Nat /\ avail' <= file_len - ispec_total
      BY <2>3, ProcessAssumption DEF SourceRead, min
    <3> QED
      BY <2>3, <3>1 DEF SourceRead
  <2>4. CASE SourceClosed
    BY <2>4 DEF SourceClosed
  <2> QED
    BY <2>1, <2>2, <2>3, <2>4 DEF SourceOnly
<1>3. NextTaskFresh'
  BY <1>1, StillFresh DEF schedVars
<1>4. SinkTypeOK' /\ MonitorTypeOK' /\ work_units' \in Nat /\ out_slots' \in Nat
  BY <1>1 DEF SinkTypeOK, MonitorTypeOK, sinkVars, schedVars, slotVars
<1>5. QueueTypeOK' /\ InHandTypeOK' /\ InHand'
  BY <1>1 DEF QueueTypeOK, InHandTypeOK, InHand, jobVars, sinkVars, schedVars
<1> QED
  BY <1>2, <1>3, <1>4, <1>5

LEMMA OnInputAvailTypes ==
  ASSUME TypeInv, OnInputAvail
  PROVE  TypeInv'
<1> USE DEF TypeInv, TypeOK
<1>1. NewInBlk \in InBlk
  BY DEF NewInBlk, InBlk, Position, SourceTypeOK, QueueTypeOK, ReadSoFar
<1>2. coll_q' \in Seq(InBlk)
  BY <1>1, EnqueueType DEF OnInputAvail, QueueTypeOK
<1>3. /\ NextTaskFresh' /\ MonitorTypeOK'
      /\ \A v \in Workers : pc'[v] = pc[v] \/ (pc[v] = "waiting" /\ pc'[v] = "enter")
  BY UnlockEffect DEF OnInputAvail, MonitorTypeOK, slotVars
<1>4. SourceTypeOK' /\ ReadSoFar'
  BY DEF OnInputAvail, AfterDelivery, SourceTypeOK, ReadSoFar
<1>5. SinkTypeOK' /\ work_units' \in Nat /\ out_slots' \in Nat
  BY DEF OnInputAvail, SinkTypeOK, sinkVars, slotVars
<1>6. QueueTypeOK' /\ InHandTypeOK'
  BY <1>2 DEF OnInputAvail, QueueTypeOK, InHandTypeOK
<1>7. InHand'
  BY <1>3 DEF OnInputAvail, InHand, HoldsInBlk, HoldsWorkBlk, sinkVars
<1> QED
  BY <1>3, <1>4, <1>5, <1>6, <1>7

LEMMA SourceSetsEofTypes ==
  ASSUME TypeInv, SourceSetsEof(SelectTask', can_terminate'), UNCHANGED <<jobVars, iblk, wblk>>
  PROVE  TypeInv'
<1> USE DEF TypeInv, TypeOK
<1>1. /\ NextTaskFresh' /\ MonitorTypeOK'
      /\ \A v \in Workers : pc'[v] = pc[v] \/ (pc[v] = "waiting" /\ pc'[v] = "enter")
  BY UnlockEffect DEF SourceSetsEof, MonitorTypeOK, Unlock
<1>2. SourceTypeOK' /\ ReadSoFar' /\ SinkTypeOK' /\ work_units' \in Nat /\ out_slots' \in Nat
  BY DEF SourceSetsEof, SourceTypeOK, ReadSoFar, SinkTypeOK, sinkVars
<1>3. QueueTypeOK' /\ InHandTypeOK'
  BY DEF QueueTypeOK, InHandTypeOK, jobVars
<1>4. InHand'
  BY <1>1 DEF SourceSetsEof, InHand, HoldsInBlk, HoldsWorkBlk, sinkVars
<1> QED
  BY <1>1, <1>2, <1>3, <1>4

LEMMA SinkOnlyTypes ==
  ASSUME TypeInv, SinkOnly, UNCHANGED <<jobVars, iblk, wblk>>
  PROVE  TypeInv'
<1> USE DEF TypeInv, TypeOK
<1>1. UNCHANGED <<sourceVars, schedVars, slotVars, shutdown>>
  BY DEF SinkOnly, SinkStall, SinkTake, SinkWrite, SinkExit
<1>2. SinkTypeOK' /\ (block' # NULL <=> sink' \in {"write", "release"})
  <2> USE DEF SinkTypeOK, InHand
  <2>1. CASE SinkStall
    BY <2>1 DEF SinkStall
  <2>2. CASE SinkTake
    <3>1. Head(output_q) \in OutBlk /\ Tail(output_q) \in Seq(OutBlk)
      BY <2>2 DEF SinkTake
    <3> QED
      BY <2>2, <3>1, BlockAssumption DEF SinkTake
  <2>3. CASE SinkWrite
    <3>1. block \in OutBlk
      BY <2>3 DEF SinkWrite
    <3> QED
      BY <2>3, <3>1 DEF SinkWrite
  <2>4. CASE SinkExit
    BY <2>4 DEF SinkExit
  <2> QED
    BY <2>1, <2>2, <2>3, <2>4 DEF SinkOnly
<1>3. NextTaskFresh'
  BY <1>1, StillFresh DEF schedVars
<1>4. SourceTypeOK' /\ ReadSoFar' /\ MonitorTypeOK' /\ work_units' \in Nat /\ out_slots' \in Nat
  BY <1>1 DEF SourceTypeOK, ReadSoFar, MonitorTypeOK, sourceVars, schedVars, slotVars
<1>5. QueueTypeOK' /\ InHandTypeOK' /\ InHand'
  BY <1>1, <1>2 DEF QueueTypeOK, InHandTypeOK, InHand, jobVars, schedVars
<1> QED
  BY <1>2, <1>3, <1>4, <1>5

LEMMA OnWriteCompleteTypes ==
  ASSUME TypeInv, OnWriteComplete
  PROVE  TypeInv'
<1> USE DEF TypeInv, TypeOK
<1>1. /\ NextTaskFresh' /\ MonitorTypeOK'
      /\ \A v \in Workers : pc'[v] = pc[v] \/ (pc[v] = "waiting" /\ pc'[v] = "enter")
  BY UnlockEffect DEF OnWriteComplete, MonitorTypeOK
<1>2. SourceTypeOK' /\ ReadSoFar' /\ SinkTypeOK' /\ work_units' \in Nat /\ out_slots' \in Nat
  BY DEF OnWriteComplete, SourceTypeOK, ReadSoFar, SinkTypeOK, sourceVars
<1>3. QueueTypeOK' /\ InHandTypeOK'
  BY DEF OnWriteComplete, QueueTypeOK, InHandTypeOK, jobVars
<1>4. InHand'
  BY <1>1 DEF OnWriteComplete, InHand, HoldsInBlk, HoldsWorkBlk
<1> QED
  BY <1>1, <1>2, <1>3, <1>4

(* The steps of a worker that enters, waits or exits, of the primary       *)
(* thread, and a spurious wakeup: control states only.                     *)
LEMMA ControlTypes ==
  ASSUME TypeInv, UNCHANGED <<jobVars, iblk, wblk>>,
         \/ \E w \in Workers : \/ WorkerEnter(w) \/ WorkerWait(w, can_terminate)
                               \/ WorkerExit(w, can_terminate)
         \/ PrimaryOnly \/ SpuriousWakeup
  PROVE  TypeInv'
<1> USE DEF TypeInv, TypeOK
<1>1. /\ UNCHANGED <<next_task, slotVars, block, written, output_q>>
      /\ UNCHANGED <<file_len, ispec_total, avail, in_slots, request_close>>
      /\ shutdown' \in {"running", "draining", "done"} /\ finish' \in BOOLEAN
  BY DEF WorkerEnter, WorkerWait, WorkerExit, PrimaryOnly, JoinWorkersAndSource, JoinSink,
         SpuriousWakeup, sourceVars, sinkVars, schedVars, MonitorTypeOK, SinkTypeOK
<1>2. /\ source' \in {"top", "stalled", "read", "deliver", "eof", "done"}
      /\ sink' = sink \/ (sink = "stalled" /\ sink' = "top")
  BY DEF WorkerEnter, WorkerWait, WorkerExit, PrimaryOnly, JoinWorkersAndSource, JoinSink,
         SpuriousWakeup, sourceVars, sinkVars, schedVars, SourceTypeOK
<1>3. /\ pc' \in [Workers -> WorkerStates] /\ sched_mutex' \in Workers \cup {NULL}
      /\ \A v \in Workers : \/ pc'[v] = pc[v]
                            \/ {pc[v], pc'[v]} \subseteq {"enter", "waiting", "loop", "done"}
  BY DEF WorkerEnter, WorkerWait, WorkerExit, AtTask, PrimaryOnly, JoinWorkersAndSource, JoinSink,
         SpuriousWakeup, schedVars, MonitorTypeOK, Waiting, WorkerStates
<1>4. NextTaskFresh'
  BY <1>1, StillFresh
<1>5. SourceTypeOK' /\ ReadSoFar' /\ SinkTypeOK' /\ MonitorTypeOK'
      /\ work_units' \in Nat /\ out_slots' \in Nat
  BY <1>1, <1>2, <1>3 DEF SourceTypeOK, ReadSoFar, SinkTypeOK, MonitorTypeOK, slotVars
<1>6. QueueTypeOK' /\ InHandTypeOK'
  BY DEF QueueTypeOK, InHandTypeOK, jobVars
<1>7. InHand'
  BY <1>1, <1>2, <1>3 DEF InHand, HoldsInBlk, HoldsWorkBlk
<1> QED
  BY <1>4, <1>5, <1>6, <1>7

LEMMA NextTypeInv == TypeInv /\ [Next]_vars => TypeInv'
<1> SUFFICES ASSUME TypeInv, [Next]_vars PROVE TypeInv'
  OBVIOUS
<1>1. ASSUME NEW w \in Workers, Worker(w) PROVE TypeInv'
  <2>1. CASE DoCollect(w)
    BY <2>1, DoCollectTypes
  <2>2. CASE CollectPart(w)
    <3>1. PICK n \in 1 .. iblk[w].left - 1 : TakePart(w, n)
      BY <2>2 DEF CollectPart
    <3>2. iblk[w] \in InBlk /\ pc[w] \in HoldsInBlk
      BY <2>2 DEF CollectPart, TypeInv, TypeOK, InHand, InHandTypeOK, HoldsInBlk
    <3>3. n \in 0 .. iblk[w].left - 1
      BY <3>2 DEF InBlk
    <3> QED
      BY <2>2, <3>1, <3>2, <3>3, PartTypes DEF CollectPart
  <2>3. CASE CollectAll(w)
    BY <2>3, TakeAllTypes DEF CollectAll, HoldsInBlk
  <2>4. CASE DoCollectSeq(w)
    BY <2>4, DoCollectSeqTypes
  <2>5. CASE CollectSeqPart(w)
    BY <2>5, PartTypes DEF CollectSeqPart, HoldsInBlk
  <2>6. CASE CollectSeqAll(w)
    BY <2>6, TakeAllTypes DEF CollectSeqAll, HoldsInBlk
  <2>7. CASE KeepUnfinished(w)
    BY <2>7, KeepUnfinishedTypes
  <2>8. CASE PassToken(w)
    BY <2>8, PassTokenTypes
  <2>9. CASE Encoded(w)
    BY <2>9, EncodedTypes
  <2>10. CASE DoTransmit(w)
    BY <2>10, DoTransmitTypes
  <2>11. CASE Transmitted(w)
    BY <2>11, TransmittedTypes
  <2>12. CASE DoReorder(w)
    BY <2>12, DoReorderTypes
  <2>13. CASE /\ WorkerEnter(w) \/ WorkerWait(w, can_terminate) \/ WorkerExit(w, can_terminate)
              /\ UNCHANGED <<jobVars, iblk, wblk>>
    BY <2>13, ControlTypes
  <2> QED
    BY <1>1, <2>1, <2>2, <2>3, <2>4, <2>5, <2>6, <2>7, <2>8, <2>9, <2>10, <2>11, <2>12, <2>13
    DEF Worker
<1>2. CASE Source
  BY <1>2, OnInputAvailTypes, SourceOnlyTypes, SourceSetsEofTypes DEF Source
<1>3. CASE Sink
  BY <1>3, OnWriteCompleteTypes, SinkOnlyTypes DEF Sink
<1>4. CASE Primary \/ Spurious
  BY <1>4, ControlTypes DEF Primary, Spurious
<1>5. CASE UNCHANGED vars
  BY <1>5 DEF vars, procVars, sourceVars, sinkVars, schedVars, slotVars, jobVars,
     TypeInv, TypeOK, SourceTypeOK, SinkTypeOK, MonitorTypeOK, QueueTypeOK, InHandTypeOK,
     NextTaskFresh, InHand, ReadSoFar, SelectTask,
     can_collect_seq, can_reorder, can_transmit, can_collect
<1> QED
  BY <1>1, <1>2, <1>3, <1>4, <1>5 DEF Next, Over

(* Every variable keeps its type: no queue is popped when empty, no count  *)
(* of free slots or work units wraps around below zero.                    *)
THEOREM TypeCorrect == Spec => []TypeOK
<1>1. Spec => []TypeInv
  BY InitTypeInv, NextTypeInv, PTL DEF Spec
<1>2. TypeInv => TypeOK
  BY DEF TypeInv
<1> QED
  BY <1>1, <1>2, PTL

(* The task a thread finds in next_task is the one it would select itself. *)
THEOREM SchedulerFresh == Spec => []NextTaskFresh
<1>1. Spec => []TypeInv
  BY InitTypeInv, NextTypeInv, PTL DEF Spec
<1>2. TypeInv => NextTaskFresh
  BY DEF TypeInv
<1> QED
  BY <1>1, <1>2, PTL

(***************************************************************************)
(* Wakeups.  Leaving the monitor wakes a worker if one is needed, and a    *)
(* worker in its loop is awake; all other steps leave next_task and the    *)
(* stop condition alone and put nobody to sleep that is needed.            *)
(***************************************************************************)
LEMMA UnlockWakes ==
  ASSUME TypeInv, NEW w \in Workers, NEW s \in WorkerStates, Unlock([pc EXCEPT ![w] = s])
  PROVE  NoLostWakeup'
<1>1. [pc EXCEPT ![w] = s] \in [Workers -> WorkerStates]
  BY DEF TypeInv, TypeOK, MonitorTypeOK
<1> QED
  BY <1>1, UnlockEffect

(* The stop condition depends on the slots and on coll_q only.             *)
LEMMA StillStopping ==
  ASSUME UNCHANGED <<coll_q, slotVars>>
  PROVE  can_terminate' = can_terminate
  BY DEF can_terminate, slotVars

LEMMA NextNoLostWakeup == TypeInv /\ NoLostWakeup /\ [Next]_vars => NoLostWakeup'
<1> SUFFICES ASSUME TypeInv, NoLostWakeup, [Next]_vars PROVE NoLostWakeup'
  OBVIOUS
<1>0. pc \in [Workers -> WorkerStates]
  BY DEF TypeInv, TypeOK, MonitorTypeOK
<1>1. ASSUME NEW w \in Workers,
             DoCollect(w) \/ CollectPart(w) \/ DoCollectSeq(w) \/ CollectSeqPart(w)
               \/ PassToken(w) \/ DoTransmit(w)
      PROVE  NoLostWakeup'
  <2>1. \E s \in WorkerStates : Unlock([pc EXCEPT ![w] = s])
    BY <1>1 DEF DoCollect, CollectPart, DoCollectSeq, CollectSeqPart, PassToken, DoTransmit,
                WorkerStates
  <2> QED
    BY <2>1, UnlockWakes
<1>2. ASSUME NEW w \in Workers, KeepUnfinished(w) \/ Encoded(w) \/ Transmitted(w)
      PROVE  NoLostWakeup'
  BY <1>0, <1>2, ReturnEffect DEF KeepUnfinished, Encoded, Transmitted
<1>3. ASSUME NEW w \in Workers, CollectAll(w) \/ CollectSeqAll(w)
      PROVE  NoLostWakeup'
  <2>1. PICK then \in {"encode", "full", "unfinished"} : TakeAll(w, then)
    BY <1>3 DEF CollectAll, CollectSeqAll
  <2>2. pc[w] \in HoldsInBlk
    BY <1>3 DEF CollectAll, CollectSeqAll, HoldsInBlk
  <2>3. next_task' = next_task /\ can_terminate' = can_terminate
    BY <2>1, StillStopping DEF TakeAll, jobVars
  <2>4. pc' = [pc EXCEPT ![w] = then]
    BY <2>1 DEF TakeAll
  <2>5. \A v \in Workers : /\ pc'[v] = "waiting" => pc[v] = "waiting"
                           /\ pc[v] \in {"enter", "loop"} => pc'[v] \in {"enter", "loop"}
    BY <1>0, <2>2, <2>4 DEF HoldsInBlk
  <2> QED
    BY <2>3, <2>5 DEF NoLostWakeup, Waiting, At
<1>4. ASSUME NEW w \in Workers, DoReorder(w)
      PROVE  NoLostWakeup'
  BY <1>4 DEF DoReorder, AtTask, NoLostWakeup, At
<1>5. ASSUME NEW w \in Workers, WorkerEnter(w) \/ WorkerWait(w, can_terminate)
               \/ WorkerExit(w, can_terminate), UNCHANGED <<jobVars, iblk, wblk>>
      PROVE  NoLostWakeup'
  <2>1. can_terminate' = can_terminate /\ next_task' = next_task
    BY <1>5, StillStopping DEF WorkerEnter, WorkerWait, WorkerExit, jobVars
  <2>2. CASE WorkerEnter(w)
    BY <1>0, <2>2 DEF WorkerEnter, NoLostWakeup, At
  <2>3. CASE WorkerWait(w, can_terminate)
    BY <2>1, <2>3 DEF WorkerWait, AtTask, NoLostWakeup
  <2>4. CASE WorkerExit(w, can_terminate)
    BY <1>0, <2>4 DEF WorkerExit, NoLostWakeup, Waiting
  <2> QED
    BY <1>5, <2>2, <2>3, <2>4
<1>6. CASE Source
  <2>1. CASE OnInputAvail
    BY <1>0, <2>1, UnlockEffect DEF OnInputAvail
  <2>2. CASE SourceSetsEof(SelectTask', can_terminate')
    BY <1>0, <2>2, UnlockEffect DEF SourceSetsEof, Unlock
  <2>3. CASE SourceOnly /\ UNCHANGED <<jobVars, iblk, wblk>>
    BY <2>3, StillStopping
    DEF SourceOnly, SourceStall, SourceTakeSlot, SourceClosed, SourceRead, jobVars, schedVars, slotVars,
        NoLostWakeup, At
  <2> QED
    BY <1>6, <2>1, <2>2, <2>3 DEF Source
<1>7. CASE Sink
  <2>1. CASE OnWriteComplete
    BY <1>0, <2>1, UnlockEffect DEF OnWriteComplete
  <2>2. CASE SinkOnly /\ UNCHANGED <<jobVars, iblk, wblk>>
    BY <2>2, StillStopping
    DEF SinkOnly, SinkStall, SinkTake, SinkWrite, SinkExit, jobVars, schedVars, slotVars,
        NoLostWakeup, At
  <2> QED
    BY <1>7, <2>1, <2>2 DEF Sink
<1>8. CASE Primary
  BY <1>8, StillStopping
  DEF Primary, PrimaryOnly, JoinWorkersAndSource, JoinSink, jobVars, schedVars, slotVars,
      NoLostWakeup, At
<1>9. CASE Spurious
  <2>1. can_terminate' = can_terminate /\ next_task' = next_task
    BY <1>9, StillStopping DEF Spurious, SpuriousWakeup, jobVars
  <2>2. pc' = pc \/ \E w \in Waiting(pc) : pc' = [pc EXCEPT ![w] = "enter"]
    BY <1>9 DEF Spurious, SpuriousWakeup
  <2> QED
    BY <1>0, <2>1, <2>2 DEF NoLostWakeup, Waiting, At
<1>10. CASE UNCHANGED vars
  BY <1>10, StillStopping DEF vars, procVars, schedVars, slotVars, jobVars, NoLostWakeup, At
<1> QED
  BY <1>1, <1>2, <1>3, <1>4, <1>5, <1>6, <1>7, <1>8, <1>9, <1>10 DEF Next, Worker, Over

(* As long as there is a task to run, or the end of the job to announce, a *)
(* waiting worker is not the only one left: somebody is on the way into    *)
(* the monitor of worker_thread_proc().                                    *)
THEOREM NoForgottenWorker == Spec => []NoLostWakeup
<1>1. Init => NoLostWakeup
  BY DEF Init, ProcessInit, NoLostWakeup, Waiting
<1>2. Spec => [](TypeInv /\ NoLostWakeup)
  BY <1>1, InitTypeInv, NextTypeInv, NextNoLostWakeup, PTL DEF Spec
<1> QED
  BY <1>2, PTL

(***************************************************************************)
(* Counting the workers that hold something.                               *)
(***************************************************************************)
LEMMA HoldingCount ==
  ASSUME NEW S, NEW f \in [Workers -> S]
  PROVE  /\ IsFiniteSet(Holding(f))
         /\ Cardinality(Holding(f)) \in Nat
  BY ProcessAssumption, FS_Subset, FS_CardinalityType DEF Holding

LEMMA HoldingGrows ==
  ASSUME NEW S, NEW f \in [Workers -> S], NEW w \in Workers, NEW x, f[w] = NULL, x # NULL
  PROVE  Cardinality(Holding([f EXCEPT ![w] = x])) = Cardinality(Holding(f)) + 1
<1>1. Holding([f EXCEPT ![w] = x]) = Holding(f) \cup {w}
  BY DEF Holding
<1>2. w \notin Holding(f)
  BY DEF Holding
<1> QED
  BY <1>1, <1>2, HoldingCount, FS_AddElement

LEMMA HoldingShrinks ==
  ASSUME NEW S, NEW f \in [Workers -> S], NEW w \in Workers, f[w] # NULL
  PROVE  Cardinality(Holding([f EXCEPT ![w] = NULL])) = Cardinality(Holding(f)) - 1
<1>1. Holding([f EXCEPT ![w] = NULL]) = Holding(f) \ {w}
  BY DEF Holding
<1>2. w \in Holding(f)
  BY DEF Holding
<1> QED
  BY <1>1, <1>2, HoldingCount, FS_RemoveElement

LEMMA HoldingSame ==
  ASSUME NEW S, NEW f \in [Workers -> S], NEW w \in Workers, NEW x, f[w] # NULL, x # NULL
  PROVE  Cardinality(Holding([f EXCEPT ![w] = x])) = Cardinality(Holding(f))
<1>1. Holding([f EXCEPT ![w] = x]) = Holding(f)
  BY DEF Holding
<1> QED
  BY <1>1

(***************************************************************************)
(* The collect token: at most one worker collects sequentially, and while  *)
(* it does there is no unfinished block for another.                       *)
(***************************************************************************)
Collector == {"collect_seq", "unfinished", "full"}

TokenInv ==
  \A w \in Workers : pc[w] \in Collector =>
    /\ ~ collect_token /\ unfinished_work = NULL
    /\ \A v \in Workers : pc[v] \in Collector => v = w

LEMMA NextTokenInv == TypeInv /\ TokenInv /\ [Next]_vars => TokenInv'
<1> SUFFICES ASSUME TypeInv, TokenInv, [Next]_vars PROVE TokenInv'
  OBVIOUS
<1>0. pc \in [Workers -> WorkerStates]
  BY DEF TypeInv, TypeOK, MonitorTypeOK
(* Steps after which no more workers collect, and the token stays put.     *)
<1>1. ASSUME UNCHANGED <<collect_token, unfinished_work>>,
             \A v \in Workers : pc'[v] \in Collector => pc[v] \in Collector
      PROVE  TokenInv'
  BY <1>1 DEF TokenInv
<1>2. ASSUME NEW w \in Workers, NEW s \in WorkerStates, Unlock([pc EXCEPT ![w] = s]),
             UNCHANGED <<collect_token, unfinished_work>>, s \in Collector => pc[w] \in Collector
      PROVE  TokenInv'
  <2>1. [pc EXCEPT ![w] = s] \in [Workers -> WorkerStates]
    BY <1>0
  <2>2. \A v \in Workers : pc'[v] \in Collector => pc[v] \in Collector
    BY <1>0, <1>2, <2>1, UnlockEffect DEF Collector
  <2> QED
    BY <1>1, <1>2, <2>2
<1>3. ASSUME NEW w \in Workers, DoCollectSeq(w)
      PROVE  TokenInv'
  <2> DEFINE s == IF coll_q # <<>> THEN "collect_seq" ELSE "full"
             p == [pc EXCEPT ![w] = s]
  <2>1. can_collect_seq
    BY <1>3, TaskReady DEF DoCollectSeq, AtTask, TypeInv
  <2>2. \A v \in Workers : pc[v] \notin Collector
    BY <2>1 DEF can_collect_seq, TokenInv
  <2>3. p \in [Workers -> WorkerStates] /\ Unlock(p)
    BY <1>0, <1>3 DEF DoCollectSeq, WorkerStates
  <2>4. \A v \in Workers : pc'[v] \in Collector => v = w
    BY <1>0, <2>2, <2>3, UnlockEffect DEF Collector
  <2>5. ~ collect_token' /\ unfinished_work' = NULL
    BY <1>3 DEF DoCollectSeq
  <2> QED
    BY <2>4, <2>5 DEF TokenInv
<1>4. ASSUME NEW w \in Workers, PassToken(w)
      PROVE  TokenInv'
  <2> DEFINE p == [pc EXCEPT ![w] = "encode"]
  <2>1. p \in [Workers -> WorkerStates] /\ Unlock(p) /\ pc[w] \in Collector
    BY <1>0, <1>4 DEF PassToken, WorkerStates, Collector
  <2>2. \A v \in Workers : pc'[v] \notin Collector
    BY <1>0, <2>1, UnlockEffect DEF Collector, TokenInv
  <2> QED
    BY <2>2 DEF TokenInv
<1>5. ASSUME NEW w \in Workers, KeepUnfinished(w)
      PROVE  TokenInv'
  <2>1. pc[w] \in Collector /\ pc' = [pc EXCEPT ![w] = "loop"]
    BY <1>0, <1>5, ReturnEffect DEF KeepUnfinished, Collector
  <2>2. \A v \in Workers : pc'[v] \notin Collector
    BY <1>0, <2>1 DEF Collector, TokenInv
  <2> QED
    BY <2>2 DEF TokenInv
<1>6. ASSUME NEW w \in Workers, DoCollect(w) \/ DoTransmit(w) \/ CollectPart(w) \/ CollectSeqPart(w)
      PROVE  TokenInv'
  <2>1. CASE DoCollect(w)
    BY <1>2, <2>1 DEF DoCollect, WorkerStates, Collector
  <2>2. CASE DoTransmit(w)
    BY <1>2, <2>2 DEF DoTransmit, WorkerStates, Collector
  <2>3. CASE CollectPart(w)
    BY <1>2, <2>3 DEF CollectPart, TakePart, WorkerStates, Collector
  <2>4. CASE CollectSeqPart(w)
    BY <1>2, <2>4 DEF CollectSeqPart, TakePart, WorkerStates, Collector
  <2> QED
    BY <1>6, <2>1, <2>2, <2>3, <2>4
<1>7. ASSUME NEW w \in Workers,
             CollectAll(w) \/ CollectSeqAll(w) \/ Encoded(w) \/ Transmitted(w) \/ DoReorder(w)
      PROVE  TokenInv'
  <2>1. CASE CollectAll(w) \/ CollectSeqAll(w)
    BY <1>0, <1>1, <2>1 DEF CollectAll, CollectSeqAll, TakeAll, jobVars, Collector
  <2>2. CASE Encoded(w) \/ Transmitted(w)
    BY <1>0, <1>1, <2>2, ReturnEffect DEF Encoded, Transmitted, Collector
  <2>3. CASE DoReorder(w)
    BY <1>1, <2>3 DEF DoReorder
  <2> QED
    BY <1>7, <2>1, <2>2, <2>3
<1>8. ASSUME NEW w \in Workers, WorkerEnter(w) \/ WorkerWait(w, can_terminate)
               \/ WorkerExit(w, can_terminate), UNCHANGED <<jobVars, iblk, wblk>>
      PROVE  TokenInv'
  BY <1>0, <1>1, <1>8 DEF WorkerEnter, WorkerWait, WorkerExit, jobVars, Collector
<1>9. CASE OnInputAvail \/ OnWriteComplete
  BY <1>0, <1>1, <1>9, UnlockEffect DEF OnInputAvail, OnWriteComplete, jobVars, Collector
<1>10. CASE SourceSetsEof(SelectTask', can_terminate') /\ UNCHANGED <<jobVars, iblk, wblk>>
  BY <1>0, <1>1, <1>10, UnlockEffect DEF SourceSetsEof, Unlock, jobVars, Collector
<1>11. CASE /\ SourceOnly \/ SinkOnly \/ PrimaryOnly \/ SpuriousWakeup
            /\ UNCHANGED <<jobVars, iblk, wblk>>
  <2>1. \A v \in Workers : pc'[v] = pc[v] \/ pc'[v] = "enter"
    BY <1>0, <1>11 DEF SourceOnly, SourceStall, SourceTakeSlot, SourceClosed, SourceRead,
       SinkOnly, SinkStall, SinkTake, SinkWrite, SinkExit,
       PrimaryOnly, JoinWorkersAndSource, JoinSink, SpuriousWakeup, Waiting, schedVars
  <2> QED
    BY <1>1, <1>11, <2>1 DEF Collector, jobVars
<1>12. CASE UNCHANGED vars
  BY <1>1, <1>12 DEF vars, procVars, schedVars, jobVars
<1> QED
  BY <1>3, <1>4, <1>5, <1>6, <1>7, <1>8, <1>9, <1>10, <1>11, <1>12
  DEF Next, Worker, Source, Sink, Primary, Spurious, Over

(***************************************************************************)
(* Work units.                                                             *)
(***************************************************************************)
LEMMA UnitTypes ==
  ASSUME TypeInv
  PROVE  /\ work_units \in Nat /\ Cardinality(Holding(wblk)) \in Nat
         /\ Len(trans_q) \in Nat /\ UnitsUnfinished \in Nat
<1>1. Cardinality(Holding(wblk)) \in Nat
  BY HoldingCount DEF TypeInv, TypeOK, InHandTypeOK
<1> QED
  BY <1>1 DEF TypeInv, TypeOK, QueueTypeOK, UnitsUnfinished

(* Where work blocks come from and go to.                                  *)
LEMMA WorkBlkTaken ==
  ASSUME TypeInv, NEW w \in Workers, NEW b \in WorkBlk, pc[w] \notin HoldsWorkBlk,
         wblk' = [wblk EXCEPT ![w] = b]
  PROVE  Cardinality(Holding(wblk')) = Cardinality(Holding(wblk)) + 1
<1>1. wblk[w] = NULL /\ b # NULL
  BY InHandAssumption DEF TypeInv, InHand
<1> QED
  BY <1>1, HoldingGrows DEF TypeInv, TypeOK, InHandTypeOK

LEMMA WorkBlkGiven ==
  ASSUME TypeInv, NEW w \in Workers, pc[w] \in HoldsWorkBlk,
         wblk' = [wblk EXCEPT ![w] = NULL]
  PROVE  Cardinality(Holding(wblk')) = Cardinality(Holding(wblk)) - 1
<1>1. wblk[w] # NULL
  BY DEF TypeInv, InHand
<1> QED
  BY <1>1, HoldingShrinks DEF TypeInv, TypeOK, InHandTypeOK

LEMMA WorkBlkKept ==
  ASSUME TypeInv, NEW w \in Workers, NEW b \in WorkBlk, pc[w] \in HoldsWorkBlk,
         wblk' = [wblk EXCEPT ![w] = b]
  PROVE  Cardinality(Holding(wblk')) = Cardinality(Holding(wblk))
<1>1. wblk[w] # NULL /\ b # NULL
  BY InHandAssumption DEF TypeInv, InHand
<1> QED
  BY <1>1, HoldingSame DEF TypeInv, TypeOK, InHandTypeOK

LEMMA DoCollectUnits ==
  ASSUME TypeInv, NEW w \in Workers, DoCollect(w)
  PROVE  AllWorkUnits' = AllWorkUnits
<1>1. coll_q \in Seq(InBlk) /\ coll_q # <<>> /\ pc[w] \notin HoldsWorkBlk
  BY TaskReady DEF TypeInv, TypeOK, QueueTypeOK, DoCollect, AtTask, can_collect, HoldsWorkBlk
<1>2. peek(coll_q) \in InBlk
  BY <1>1, DequeueType
<1>3. NewWorkBlk(peek(coll_q)) \in WorkBlk
  BY <1>2 DEF NewWorkBlk, InBlk, WorkBlk
<1>4. Cardinality(Holding(wblk')) = Cardinality(Holding(wblk)) + 1
  BY <1>1, <1>3, WorkBlkTaken DEF DoCollect
<1> QED
  BY <1>4, UnitTypes DEF DoCollect, AllWorkUnits, UnitsUnfinished

(* A fresh encoder takes a unit, an unfinished one brings its own.         *)
LEMMA DoCollectSeqUnits ==
  ASSUME TypeInv, NEW w \in Workers, DoCollectSeq(w)
  PROVE  AllWorkUnits' = AllWorkUnits
<1>1. can_collect_seq /\ pc[w] \notin HoldsWorkBlk
  BY TaskReady DEF TypeInv, DoCollectSeq, AtTask, HoldsWorkBlk
<1>2. unfinished_work' = NULL /\ trans_q' = trans_q
  BY DEF DoCollectSeq
<1>3. CASE unfinished_work = NULL
  <2>1. peek(coll_q) \in InBlk
    BY <1>1, <1>3, DequeueType DEF can_collect_seq, TypeInv, TypeOK, QueueTypeOK
  <2>2. NewWorkBlk(peek(coll_q)) \in WorkBlk
    BY <2>1 DEF NewWorkBlk, InBlk, WorkBlk
  <2>3. wblk' = [wblk EXCEPT ![w] = NewWorkBlk(peek(coll_q))] /\ work_units' = work_units - 1
    BY <1>3 DEF DoCollectSeq
  <2>4. Cardinality(Holding(wblk')) = Cardinality(Holding(wblk)) + 1
    BY <1>1, <2>2, <2>3, WorkBlkTaken
  <2> QED
    BY <1>2, <1>3, <2>3, <2>4, UnitTypes DEF AllWorkUnits, UnitsUnfinished
<1>4. CASE unfinished_work # NULL
  <2>1. unfinished_work \in WorkBlk
    BY <1>4 DEF TypeInv, TypeOK, InHandTypeOK
  <2>2. wblk' = [wblk EXCEPT ![w] = unfinished_work] /\ work_units' = work_units
    BY <1>4 DEF DoCollectSeq
  <2>3. Cardinality(Holding(wblk')) = Cardinality(Holding(wblk)) + 1
    BY <1>1, <2>1, <2>2, WorkBlkTaken
  <2> QED
    BY <1>2, <1>4, <2>2, <2>3, UnitTypes DEF AllWorkUnits, UnitsUnfinished
<1> QED
  BY <1>3, <1>4

LEMMA TakePartUnits ==
  ASSUME TypeInv, NEW w \in Workers, pc[w] \in HoldsInBlk,
         NEW n \in 0 .. iblk[w].left - 1, TakePart(w, n)
  PROVE  AllWorkUnits' = AllWorkUnits
<1>1. PICK b \in WorkBlk : wblk' = [wblk EXCEPT ![w] = b]
  BY TakePartTypes
<1>2. Cardinality(Holding(wblk')) = Cardinality(Holding(wblk))
  BY <1>1, WorkBlkKept DEF HoldsInBlk, HoldsWorkBlk
<1> QED
  BY <1>2 DEF TakePart, slotVars, AllWorkUnits, UnitsUnfinished

LEMMA TakeAllUnits ==
  ASSUME TypeInv, TypeInv', NEW w \in Workers, pc[w] \in HoldsInBlk,
         NEW then \in {"full", "unfinished", "encode"}, TakeAll(w, then)
  PROVE  AllWorkUnits' = AllWorkUnits
<1>1. pc'[w] = then /\ wblk'[w] \in WorkBlk \cup {NULL} /\ (wblk'[w] # NULL)
  BY DEF TakeAll, TypeInv, TypeOK, MonitorTypeOK, InHandTypeOK, InHand, HoldsWorkBlk
<1>2. wblk' = [wblk EXCEPT ![w] = wblk'[w]]
  BY DEF TakeAll, TypeInv, TypeOK, InHandTypeOK
<1>3. Cardinality(Holding(wblk')) = Cardinality(Holding(wblk))
  BY <1>1, <1>2, WorkBlkKept DEF HoldsInBlk, HoldsWorkBlk
<1> QED
  BY <1>3 DEF TakeAll, jobVars, slotVars, AllWorkUnits, UnitsUnfinished

LEMMA EncodedUnits ==
  ASSUME TypeInv, NEW w \in Workers, Encoded(w)
  PROVE  AllWorkUnits' = AllWorkUnits
<1>1. Cardinality(Holding(wblk')) = Cardinality(Holding(wblk)) - 1
  BY WorkBlkGiven DEF Encoded, HoldsWorkBlk
<1>2. wblk[w] \in WorkBlk
  BY DEF Encoded, TypeInv, TypeOK, InHand, InHandTypeOK, HoldsWorkBlk
<1>3. Len(trans_q') = Len(trans_q) + 1
  BY <1>2, EnqueueType DEF Encoded, TypeInv, TypeOK, QueueTypeOK
<1> QED
  BY <1>1, <1>3, UnitTypes DEF Encoded, slotVars, AllWorkUnits, UnitsUnfinished

(* Here the token matters: the place of the unfinished block is empty.     *)
LEMMA KeepUnfinishedUnits ==
  ASSUME TypeInv, TokenInv, NEW w \in Workers, KeepUnfinished(w)
  PROVE  AllWorkUnits' = AllWorkUnits
<1>1. Cardinality(Holding(wblk')) = Cardinality(Holding(wblk)) - 1
  BY WorkBlkGiven DEF KeepUnfinished, HoldsWorkBlk
<1>2. unfinished_work = NULL
  BY DEF KeepUnfinished, TokenInv, Collector
<1>3. unfinished_work' # NULL
  BY DEF KeepUnfinished, TypeInv, InHand, HoldsWorkBlk
<1> QED
  BY <1>1, <1>2, <1>3, UnitTypes DEF KeepUnfinished, slotVars, AllWorkUnits, UnitsUnfinished

LEMMA DoTransmitUnits ==
  ASSUME TypeInv, NEW w \in Workers, DoTransmit(w)
  PROVE  AllWorkUnits' = AllWorkUnits
<1>1. trans_q \in Seq(WorkBlk) /\ trans_q # <<>> /\ pc[w] \notin HoldsWorkBlk
  BY TaskReady DEF TypeInv, TypeOK, QueueTypeOK, DoTransmit, AtTask, can_transmit, HoldsWorkBlk
<1>2. peek(trans_q) \in WorkBlk /\ Len(dequeue(trans_q)) = Len(trans_q) - 1
  BY <1>1, DequeueType
<1>3. Len(trans_q') = Len(trans_q) - 1
  BY <1>2 DEF DoTransmit
<1>4. Cardinality(Holding(wblk')) = Cardinality(Holding(wblk)) + 1
  BY <1>1, <1>2, WorkBlkTaken DEF DoTransmit
<1> QED
  BY <1>3, <1>4, UnitTypes DEF DoTransmit, AllWorkUnits, UnitsUnfinished

LEMMA TransmittedUnits ==
  ASSUME TypeInv, NEW w \in Workers, Transmitted(w)
  PROVE  AllWorkUnits' = AllWorkUnits
<1>1. Cardinality(Holding(wblk')) = Cardinality(Holding(wblk)) - 1
  BY WorkBlkGiven DEF Transmitted, HoldsWorkBlk
<1> QED
  BY <1>1, UnitTypes DEF Transmitted, AllWorkUnits, UnitsUnfinished

LEMMA NextWorkUnits == TypeInv /\ TypeInv' /\ TokenInv /\ [Next]_vars => AllWorkUnits' = AllWorkUnits
<1> SUFFICES ASSUME TypeInv, TypeInv', TokenInv, [Next]_vars PROVE AllWorkUnits' = AllWorkUnits
  OBVIOUS
<1>1. ASSUME NEW w \in Workers, CollectPart(w) \/ CollectSeqPart(w)
      PROVE  AllWorkUnits' = AllWorkUnits
  <2>1. pc[w] \in HoldsInBlk /\ iblk[w] \in InBlk
    BY <1>1 DEF CollectPart, CollectSeqPart, HoldsInBlk, TypeInv, TypeOK, InHand, InHandTypeOK
  <2>2. \E n \in 0 .. iblk[w].left - 1 : TakePart(w, n)
    BY <1>1, <2>1 DEF CollectPart, CollectSeqPart, InBlk
  <2> QED
    BY <2>1, <2>2, TakePartUnits
<1>2. ASSUME NEW w \in Workers, CollectAll(w) \/ CollectSeqAll(w)
      PROVE  AllWorkUnits' = AllWorkUnits
  BY <1>2, TakeAllUnits DEF CollectAll, CollectSeqAll, HoldsInBlk
<1>3. ASSUME UNCHANGED <<work_units, wblk, trans_q, unfinished_work>>
      PROVE  AllWorkUnits' = AllWorkUnits
  BY <1>3 DEF AllWorkUnits, UnitsUnfinished
<1>4. ASSUME NEW w \in Workers, PassToken(w) \/ DoReorder(w)
      PROVE  AllWorkUnits' = AllWorkUnits
  BY <1>3, <1>4 DEF PassToken, DoReorder, slotVars
<1>5. ASSUME NEW w \in Workers, WorkerEnter(w) \/ WorkerWait(w, can_terminate)
               \/ WorkerExit(w, can_terminate), UNCHANGED <<jobVars, iblk, wblk>>
      PROVE  AllWorkUnits' = AllWorkUnits
  BY <1>3, <1>5 DEF WorkerEnter, WorkerWait, WorkerExit, slotVars, jobVars
<1>6. CASE Source
  BY <1>3, <1>6 DEF Source, OnInputAvail, SourceOnly, SourceStall, SourceTakeSlot, SourceClosed, SourceRead,
     SourceSetsEof, slotVars, jobVars
<1>7. CASE Sink
  BY <1>3, <1>7 DEF Sink, OnWriteComplete, SinkOnly, SinkStall, SinkTake, SinkWrite, SinkExit,
     slotVars, jobVars
<1>8. CASE Primary \/ Spurious \/ UNCHANGED vars
  BY <1>3, <1>8 DEF Primary, PrimaryOnly, JoinWorkersAndSource, JoinSink, Spurious,
     SpuriousWakeup, vars, procVars, slotVars, jobVars
<1> QED
  BY <1>1, <1>2, <1>4, <1>5, <1>6, <1>7, <1>8, DoCollectUnits, DoCollectSeqUnits, EncodedUnits,
     KeepUnfinishedUnits, DoTransmitUnits, TransmittedUnits
  DEF Next, Worker, Over

(***************************************************************************)
(* Output slots.                                                           *)
(***************************************************************************)
(* A worker is transmitting from its do_transmit() to the sched_lock() in  *)
(* it; being woken makes no transmitter of a worker.                       *)
Transmitting(p) == {w \in Workers : p[w] = "transmit"}

LEMMA TransmittingCount ==
  /\ IsFiniteSet(Transmitting(pc)) /\ Cardinality(Transmitting(pc)) \in Nat
  /\ At({"transmit"}) = Transmitting(pc)
  /\ At({"transmit"})' = Transmitting(pc')
  BY ProcessAssumption, FS_Subset, FS_CardinalityType DEF Transmitting, At

LEMMA SlotTypes ==
  ASSUME TypeInv
  PROVE  /\ out_slots \in Nat /\ Cardinality(At({"transmit"})) \in Nat
         /\ Len(reord_q) \in Nat /\ SlotsInSink \in Nat
<1>1. output_q \in Seq(OutBlk) /\ reord_q \in Seq(WorkBlk)
  BY DEF TypeInv, TypeOK, SinkTypeOK, QueueTypeOK
<1>2. SlotsInSink \in Nat /\ Len(reord_q) \in Nat
  BY <1>1 DEF SlotsInSink
<1> QED
  BY <1>2, TransmittingCount DEF TypeInv, TypeOK

LEMMA SameTransmitters ==
  ASSUME \A v \in Workers : pc'[v] = "transmit" <=> pc[v] = "transmit",
         UNCHANGED <<out_slots, reord_q, output_q, block>>
  PROVE  AllOutSlots' = AllOutSlots
<1>1. At({"transmit"})' = At({"transmit"})
  BY DEF At
<1> QED
  BY <1>1 DEF AllOutSlots, SlotsInSink

LEMMA DoTransmitSlots ==
  ASSUME TypeInv, NEW w \in Workers, DoTransmit(w)
  PROVE  AllOutSlots' = AllOutSlots
<1> DEFINE p == [pc EXCEPT ![w] = "transmit"]
<1>1. pc \in [Workers -> WorkerStates] /\ p \in [Workers -> WorkerStates] /\ Unlock(p)
  BY DEF DoTransmit, TypeInv, TypeOK, MonitorTypeOK, WorkerStates
<1>2. pc[w] = "loop"
  BY DEF DoTransmit, AtTask
<1>3. Transmitting(pc') = Transmitting(pc) \cup {w} /\ w \notin Transmitting(pc)
  BY <1>1, <1>2, UnlockEffect DEF Transmitting
<1>4. Cardinality(At({"transmit"}))' = Cardinality(At({"transmit"})) + 1
  BY <1>3, TransmittingCount, FS_AddElement
<1> QED
  BY <1>4, SlotTypes DEF DoTransmit, sinkVars, AllOutSlots, SlotsInSink

LEMMA TransmittedSlots ==
  ASSUME TypeInv, NEW w \in Workers, Transmitted(w)
  PROVE  AllOutSlots' = AllOutSlots
<1>1. pc \in [Workers -> WorkerStates] /\ pc' = [pc EXCEPT ![w] = "loop"] /\ pc[w] = "transmit"
  BY ReturnEffect DEF Transmitted, TypeInv, TypeOK, MonitorTypeOK
<1>2. Transmitting(pc') = Transmitting(pc) \ {w} /\ w \in Transmitting(pc)
  BY <1>1 DEF Transmitting
<1>3. Cardinality(At({"transmit"}))' = Cardinality(At({"transmit"})) - 1
  BY <1>2, TransmittingCount, FS_RemoveElement
<1>4. wblk[w] \in WorkBlk
  BY DEF Transmitted, TypeInv, TypeOK, InHand, InHandTypeOK, HoldsWorkBlk
<1>5. Len(reord_q') = Len(reord_q) + 1
  BY <1>4, EnqueueType DEF Transmitted, TypeInv, TypeOK, QueueTypeOK
<1>6. SlotsInSink' = SlotsInSink /\ out_slots' = out_slots
  BY DEF Transmitted, sinkVars, SlotsInSink
<1> QED
  BY <1>3, <1>5, <1>6, SlotTypes DEF AllOutSlots

LEMMA DoReorderSlots ==
  ASSUME TypeInv, NEW w \in Workers, DoReorder(w)
  PROVE  AllOutSlots' = AllOutSlots
<1>1. reord_q \in Seq(WorkBlk) /\ reord_q # <<>> /\ output_q \in Seq(OutBlk)
  BY TaskReady DEF TypeInv, TypeOK, QueueTypeOK, SinkTypeOK, DoReorder, AtTask, can_reorder
<1>2. Len(reord_q') = Len(reord_q) - 1 /\ peek(reord_q) \in WorkBlk
  BY <1>1, DequeueType DEF DoReorder
<1>3. Len(output_q') = Len(output_q) + 1 /\ block' = block
  BY <1>1 DEF DoReorder, SinkWriteBuffer
<1>4. SlotsInSink' = SlotsInSink + 1
  BY <1>1, <1>3 DEF SlotsInSink
<1>5. At({"transmit"})' = At({"transmit"}) /\ out_slots' = out_slots
  BY DEF DoReorder, At, slotVars
<1> QED
  BY <1>2, <1>4, <1>5, SlotTypes DEF AllOutSlots

LEMMA SinkTakeSlots ==
  ASSUME TypeInv, SinkTake, UNCHANGED <<jobVars, iblk, wblk>>
  PROVE  AllOutSlots' = AllOutSlots
<1>1. output_q \in Seq(OutBlk) /\ output_q # <<>> /\ block = NULL
  BY DEF TypeInv, TypeOK, SinkTypeOK, InHand, SinkTake
<1>2. Head(output_q) \in OutBlk /\ Len(Tail(output_q)) = Len(output_q) - 1
  BY <1>1
<1>3. block' # NULL /\ Len(output_q') = Len(output_q) - 1
  BY <1>2, BlockAssumption DEF SinkTake
<1>4. SlotsInSink' = SlotsInSink
  BY <1>1, <1>3 DEF SlotsInSink
<1>5. At({"transmit"})' = At({"transmit"})
  BY DEF SinkTake, schedVars, At
<1> QED
  BY <1>4, <1>5 DEF SinkTake, slotVars, jobVars, AllOutSlots

LEMMA OnWriteCompleteSlots ==
  ASSUME TypeInv, OnWriteComplete
  PROVE  AllOutSlots' = AllOutSlots
<1>1. pc \in [Workers -> WorkerStates] /\ Unlock(pc)
  BY DEF OnWriteComplete, TypeInv, TypeOK, MonitorTypeOK
<1>2. At({"transmit"})' = At({"transmit"})
  BY <1>1, UnlockEffect DEF At
<1>3. block # NULL /\ block' = NULL /\ output_q' = output_q /\ output_q \in Seq(OutBlk)
  BY DEF OnWriteComplete, TypeInv, TypeOK, SinkTypeOK, InHand
<1>4. SlotsInSink' = SlotsInSink - 1
  BY <1>3 DEF SlotsInSink
<1> QED
  BY <1>2, <1>4, SlotTypes DEF OnWriteComplete, jobVars, AllOutSlots

LEMMA NextOutSlots == TypeInv /\ [Next]_vars => AllOutSlots' = AllOutSlots
<1> SUFFICES ASSUME TypeInv, [Next]_vars PROVE AllOutSlots' = AllOutSlots
  OBVIOUS
<1>0. pc \in [Workers -> WorkerStates]
  BY DEF TypeInv, TypeOK, MonitorTypeOK
<1>1. ASSUME NEW w \in Workers, NEW s \in WorkerStates, s # "transmit", pc[w] # "transmit",
             Unlock([pc EXCEPT ![w] = s]), UNCHANGED <<out_slots, reord_q, sinkVars>>
      PROVE  AllOutSlots' = AllOutSlots
  <2>1. [pc EXCEPT ![w] = s] \in [Workers -> WorkerStates]
    BY <1>0
  <2>2. \A v \in Workers : pc'[v] = "transmit" <=> pc[v] = "transmit"
    BY <1>0, <1>1, <2>1, UnlockEffect
  <2> QED
    BY <1>1, <2>2, SameTransmitters DEF sinkVars
<1>2. ASSUME NEW w \in Workers, DoCollect(w) \/ DoCollectSeq(w) \/ PassToken(w)
      PROVE  AllOutSlots' = AllOutSlots
  <2>1. CASE DoCollect(w)
    BY <1>1, <2>1 DEF DoCollect, AtTask, WorkerStates
  <2>2. CASE DoCollectSeq(w)
    BY <1>1, <2>2 DEF DoCollectSeq, AtTask, WorkerStates
  <2>3. CASE PassToken(w)
    BY <1>1, <2>3 DEF PassToken, slotVars, WorkerStates
  <2> QED
    BY <1>2, <2>1, <2>2, <2>3
<1>3. ASSUME NEW w \in Workers, CollectPart(w) \/ CollectSeqPart(w)
      PROVE  AllOutSlots' = AllOutSlots
  BY <1>1, <1>3 DEF CollectPart, CollectSeqPart, TakePart, slotVars, WorkerStates
<1>4. ASSUME NEW w \in Workers,
             CollectAll(w) \/ CollectSeqAll(w) \/ Encoded(w) \/ KeepUnfinished(w)
      PROVE  AllOutSlots' = AllOutSlots
  <2>1. \A v \in Workers : pc'[v] = "transmit" <=> pc[v] = "transmit"
    BY <1>0, <1>4, ReturnEffect DEF CollectAll, CollectSeqAll, TakeAll, Encoded, KeepUnfinished
  <2> QED
    BY <1>4, <2>1, SameTransmitters
    DEF CollectAll, CollectSeqAll, TakeAll, Encoded, KeepUnfinished, jobVars, slotVars, sinkVars
<1>5. ASSUME NEW w \in Workers, WorkerEnter(w) \/ WorkerWait(w, can_terminate)
               \/ WorkerExit(w, can_terminate), UNCHANGED <<jobVars, iblk, wblk>>
      PROVE  AllOutSlots' = AllOutSlots
  <2>1. \A v \in Workers : pc'[v] = "transmit" <=> pc[v] = "transmit"
    BY <1>0, <1>5 DEF WorkerEnter, WorkerWait, WorkerExit, AtTask
  <2> QED
    BY <1>5, <2>1, SameTransmitters
    DEF WorkerEnter, WorkerWait, WorkerExit, jobVars, slotVars, sinkVars
<1>6. CASE OnInputAvail \/ (SourceSetsEof(SelectTask', can_terminate') /\ UNCHANGED <<jobVars, iblk, wblk>>)
  <2>1. \A v \in Workers : pc'[v] = "transmit" <=> pc[v] = "transmit"
    BY <1>0, <1>6, UnlockEffect DEF OnInputAvail, SourceSetsEof, Unlock
  <2> QED
    BY <1>6, <2>1, SameTransmitters DEF OnInputAvail, SourceSetsEof, jobVars, slotVars, sinkVars
<1>7. CASE /\ SourceOnly \/ SinkStall \/ SinkWrite \/ SinkExit \/ PrimaryOnly \/ SpuriousWakeup
           /\ UNCHANGED <<jobVars, iblk, wblk>>
  <2>1. \A v \in Workers : pc'[v] = "transmit" <=> pc[v] = "transmit"
    BY <1>0, <1>7 DEF SourceOnly, SourceStall, SourceTakeSlot, SourceClosed, SourceRead, SinkStall, SinkWrite,
       SinkExit, PrimaryOnly, JoinWorkersAndSource, JoinSink, SpuriousWakeup, Waiting, schedVars
  <2>2. UNCHANGED <<out_slots, reord_q, output_q, block>>
    BY <1>7 DEF SourceOnly, SourceStall, SourceTakeSlot, SourceClosed, SourceRead, SinkStall, SinkWrite,
       SinkExit, PrimaryOnly, JoinWorkersAndSource, JoinSink, SpuriousWakeup,
       jobVars, slotVars, sinkVars
  <2> QED
    BY <2>1, <2>2, SameTransmitters
<1>8. CASE UNCHANGED vars
  BY <1>8, SameTransmitters DEF vars, procVars, schedVars, slotVars, sinkVars, jobVars
<1> QED
  BY <1>2, <1>3, <1>4, <1>5, <1>6, <1>7, <1>8, DoTransmitSlots, TransmittedSlots, DoReorderSlots,
     SinkTakeSlots, OnWriteCompleteSlots
  DEF Next, Worker, Source, Sink, SinkOnly, Primary, Spurious, Over

(***************************************************************************)
(* Input slots.                                                            *)
(***************************************************************************)
LEMMA InTypes ==
  ASSUME TypeInv
  PROVE  /\ in_slots \in Nat /\ SlotsInSource \in Nat
         /\ Len(coll_q) \in Nat /\ Cardinality(Holding(iblk)) \in Nat
<1>1. Cardinality(Holding(iblk)) \in Nat
  BY HoldingCount DEF TypeInv, TypeOK, InHandTypeOK
<1> QED
  BY <1>1 DEF TypeInv, TypeOK, SourceTypeOK, QueueTypeOK, SlotsInSource

LEMMA InBlkTaken ==
  ASSUME TypeInv, NEW w \in Workers, NEW b \in InBlk, pc[w] \notin HoldsInBlk,
         iblk' = [iblk EXCEPT ![w] = b]
  PROVE  Cardinality(Holding(iblk')) = Cardinality(Holding(iblk)) + 1
<1>1. iblk[w] = NULL /\ b # NULL
  BY InHandAssumption DEF TypeInv, InHand
<1> QED
  BY <1>1, HoldingGrows DEF TypeInv, TypeOK, InHandTypeOK

LEMMA InBlkGiven ==
  ASSUME TypeInv, NEW w \in Workers, pc[w] \in HoldsInBlk,
         iblk' = [iblk EXCEPT ![w] = NULL]
  PROVE  Cardinality(Holding(iblk')) = Cardinality(Holding(iblk)) - 1
<1>1. iblk[w] # NULL
  BY DEF TypeInv, InHand
<1> QED
  BY <1>1, HoldingShrinks DEF TypeInv, TypeOK, InHandTypeOK

LEMMA DoCollectIn ==
  ASSUME TypeInv, NEW w \in Workers, DoCollect(w)
  PROVE  AllInSlots' = AllInSlots
<1>1. coll_q \in Seq(InBlk) /\ coll_q # <<>> /\ pc[w] \notin HoldsInBlk
  BY TaskReady DEF TypeInv, TypeOK, QueueTypeOK, DoCollect, AtTask, can_collect, HoldsInBlk
<1>2. peek(coll_q) \in InBlk /\ Len(dequeue(coll_q)) = Len(coll_q) - 1
  BY <1>1, DequeueType
<1>3. Len(coll_q') = Len(coll_q) - 1
  BY <1>2 DEF DoCollect
<1>4. Cardinality(Holding(iblk')) = Cardinality(Holding(iblk)) + 1
  BY <1>1, <1>2, InBlkTaken DEF DoCollect
<1>5. in_slots' = in_slots /\ SlotsInSource' = SlotsInSource
  BY DEF DoCollect, sourceVars, SlotsInSource
<1> QED
  BY <1>3, <1>4, <1>5, InTypes DEF AllInSlots

LEMMA DoCollectSeqIn ==
  ASSUME TypeInv, NEW w \in Workers, DoCollectSeq(w)
  PROVE  AllInSlots' = AllInSlots
<1>1. coll_q \in Seq(InBlk) /\ pc[w] \notin HoldsInBlk
  BY DEF TypeInv, TypeOK, QueueTypeOK, DoCollectSeq, AtTask, HoldsInBlk
<1>2. in_slots' = in_slots /\ SlotsInSource' = SlotsInSource
  BY DEF DoCollectSeq, sourceVars, SlotsInSource
<1>3. CASE coll_q # <<>>
  <2>1. peek(coll_q) \in InBlk /\ Len(dequeue(coll_q)) = Len(coll_q) - 1
    BY <1>1, <1>3, DequeueType
  <2>2. Len(coll_q') = Len(coll_q) - 1
    BY <1>3, <2>1 DEF DoCollectSeq
  <2>3. iblk' = [iblk EXCEPT ![w] = peek(coll_q)]
    BY <1>3 DEF DoCollectSeq
  <2>4. Cardinality(Holding(iblk')) = Cardinality(Holding(iblk)) + 1
    BY <1>1, <2>1, <2>3, InBlkTaken
  <2> QED
    BY <1>2, <2>2, <2>4, InTypes DEF AllInSlots
<1>4. CASE coll_q = <<>>
  <2>1. iblk[w] = NULL
    BY <1>1 DEF TypeInv, InHand
  <2>2. iblk' = iblk
    BY <1>4, <2>1 DEF DoCollectSeq, TypeInv, TypeOK, InHandTypeOK
  <2>3. coll_q' = coll_q
    BY <1>4 DEF DoCollectSeq
  <2> QED
    BY <1>2, <2>2, <2>3 DEF AllInSlots
<1> QED
  BY <1>3, <1>4

LEMMA TakePartIn ==
  ASSUME TypeInv, NEW w \in Workers, pc[w] \in HoldsInBlk,
         NEW n \in 0 .. iblk[w].left - 1, TakePart(w, n)
  PROVE  AllInSlots' = AllInSlots
<1> DEFINE b == iblk[w]
           rest == [pos |-> <<b.pos[1], b.pos[2] + 1>>, next |-> b.next + n, left |-> b.left - n]
<1>1. b \in InBlk
  BY DEF TypeInv, TypeOK, InHand, InHandTypeOK
<1>2. rest \in InBlk
  BY <1>1 DEF InBlk, Position
<1>3. coll_q \in Seq(InBlk) /\ coll_q' = enqueue(coll_q, rest)
  BY DEF TakePart, TypeInv, TypeOK, QueueTypeOK
<1>4. Len(coll_q') = Len(coll_q) + 1
  BY <1>2, <1>3, EnqueueType
<1>5. Cardinality(Holding(iblk')) = Cardinality(Holding(iblk)) - 1
  BY InBlkGiven DEF TakePart
<1>6. in_slots' = in_slots /\ SlotsInSource' = SlotsInSource
  BY DEF TakePart, sourceVars, SlotsInSource
<1> QED
  BY <1>4, <1>5, <1>6, InTypes DEF AllInSlots

LEMMA TakeAllIn ==
  ASSUME TypeInv, NEW w \in Workers, pc[w] \in HoldsInBlk, NEW then, TakeAll(w, then)
  PROVE  AllInSlots' = AllInSlots
<1>1. Cardinality(Holding(iblk')) = Cardinality(Holding(iblk)) - 1
  BY InBlkGiven DEF TakeAll
<1>2. in_slots' = in_slots + 1 /\ coll_q' = coll_q
  BY DEF TakeAll, SourceReleaseBuffer, jobVars
<1>3. SlotsInSource' = SlotsInSource
  BY DEF TakeAll, SourceReleaseBuffer, SlotsInSource
<1> QED
  BY <1>1, <1>2, <1>3, InTypes DEF AllInSlots

LEMMA OnInputAvailIn ==
  ASSUME TypeInv, OnInputAvail
  PROVE  AllInSlots' = AllInSlots
<1>1. NewInBlk \in InBlk
  BY DEF NewInBlk, InBlk, Position, TypeInv, TypeOK, SourceTypeOK, QueueTypeOK, ReadSoFar
<1>2. Len(coll_q') = Len(coll_q) + 1
  BY <1>1, EnqueueType DEF OnInputAvail, TypeInv, TypeOK, QueueTypeOK
<1>3. SlotsInSource = 1 /\ SlotsInSource' = 0
  BY DEF OnInputAvail, AfterDelivery, SlotsInSource
<1>4. in_slots' = in_slots /\ iblk' = iblk
  BY DEF OnInputAvail
<1> QED
  BY <1>2, <1>3, <1>4, InTypes DEF AllInSlots

LEMMA SourceOnlyIn ==
  ASSUME TypeInv, SourceOnly, UNCHANGED <<jobVars, iblk, wblk>>
  PROVE  AllInSlots' = AllInSlots
<1>1. coll_q' = coll_q /\ iblk' = iblk
  BY DEF jobVars
<1>2. in_slots' + SlotsInSource' = in_slots + SlotsInSource
  BY InTypes DEF SourceOnly, SourceStall, SourceTakeSlot, SourceClosed, SourceRead, SlotsInSource
<1>3. in_slots' \in Int /\ SlotsInSource' \in Int
  BY InTypes DEF SourceOnly, SourceStall, SourceTakeSlot, SourceClosed, SourceRead, SlotsInSource
<1> QED
  BY <1>1, <1>2, <1>3, InTypes DEF AllInSlots

LEMMA NextInSlots == TypeInv /\ [Next]_vars => AllInSlots' = AllInSlots
<1> SUFFICES ASSUME TypeInv, [Next]_vars PROVE AllInSlots' = AllInSlots
  OBVIOUS
<1>1. ASSUME NEW w \in Workers, CollectPart(w) \/ CollectSeqPart(w)
      PROVE  AllInSlots' = AllInSlots
  <2>1. pc[w] \in HoldsInBlk /\ iblk[w] \in InBlk
    BY <1>1 DEF CollectPart, CollectSeqPart, HoldsInBlk, TypeInv, TypeOK, InHand, InHandTypeOK
  <2>2. \E n \in 0 .. iblk[w].left - 1 : TakePart(w, n)
    BY <1>1, <2>1 DEF CollectPart, CollectSeqPart, InBlk
  <2> QED
    BY <2>1, <2>2, TakePartIn
<1>2. ASSUME NEW w \in Workers, CollectAll(w) \/ CollectSeqAll(w)
      PROVE  AllInSlots' = AllInSlots
  BY <1>2, TakeAllIn DEF CollectAll, CollectSeqAll, HoldsInBlk
<1>3. ASSUME UNCHANGED <<in_slots, coll_q, iblk>>, SlotsInSource' = SlotsInSource
      PROVE  AllInSlots' = AllInSlots
  BY <1>3 DEF AllInSlots
<1>4. ASSUME NEW w \in Workers, PassToken(w) \/ DoReorder(w) \/ Encoded(w) \/ KeepUnfinished(w)
               \/ DoTransmit(w) \/ Transmitted(w)
      PROVE  AllInSlots' = AllInSlots
  BY <1>3, <1>4 DEF PassToken, DoReorder, Encoded, KeepUnfinished, DoTransmit, Transmitted,
     sourceVars, SlotsInSource
<1>5. ASSUME NEW w \in Workers, WorkerEnter(w) \/ WorkerWait(w, can_terminate)
               \/ WorkerExit(w, can_terminate), UNCHANGED <<jobVars, iblk, wblk>>
      PROVE  AllInSlots' = AllInSlots
  BY <1>3, <1>5 DEF WorkerEnter, WorkerWait, WorkerExit, sourceVars, SlotsInSource, jobVars
<1>6. CASE SourceSetsEof(SelectTask', can_terminate') /\ UNCHANGED <<jobVars, iblk, wblk>>
  BY <1>3, <1>6 DEF SourceSetsEof, SlotsInSource, jobVars
<1>7. CASE Sink
  BY <1>3, <1>7 DEF Sink, OnWriteComplete, SinkOnly, SinkStall, SinkTake, SinkWrite, SinkExit,
     sourceVars, SlotsInSource, jobVars
<1>8. CASE Primary \/ Spurious \/ UNCHANGED vars
  BY <1>3, <1>8 DEF Primary, PrimaryOnly, JoinWorkersAndSource, JoinSink, Spurious,
     SpuriousWakeup, vars, procVars, sourceVars, SlotsInSource, jobVars
<1> QED
  BY <1>1, <1>2, <1>4, <1>5, <1>6, <1>7, <1>8, DoCollectIn, DoCollectSeqIn, OnInputAvailIn,
     SourceOnlyIn
  DEF Next, Worker, Source, Over

(***************************************************************************)
(* The theorems.                                                           *)
(***************************************************************************)
LEMMA InitCounts == Init => AllWorkUnits = num_worker /\ AllOutSlots = TotalOutSlots
                            /\ AllInSlots = TotalInSlots
<1> SUFFICES ASSUME Init PROVE AllWorkUnits = num_worker /\ AllOutSlots = TotalOutSlots
                               /\ AllInSlots = TotalInSlots
  OBVIOUS
<1>1. Holding(wblk) = {} /\ Holding(iblk) = {} /\ At({"transmit"}) = {}
  BY DEF Init, ProcessInit, Holding, At
<1>2. num_worker \in Nat /\ TotalOutSlots \in Nat /\ TotalInSlots \in Nat
  BY ProcessAssumption, FS_CardinalityType DEF num_worker
<1>3. Cardinality({}) = 0
  BY FS_EmptySet
<1>4. Len(coll_q) = 0 /\ Len(trans_q) = 0 /\ Len(reord_q) = 0 /\ Len(output_q) = 0
  BY DEF Init, ProcessInit
<1>5. /\ UnitsUnfinished = 0 /\ SlotsInSource = 0
      /\ block = NULL
  BY DEF Init, ProcessInit, UnitsUnfinished, SlotsInSource
<1>6. SlotsInSink = 0
  BY <1>4, <1>5 DEF SlotsInSink
<1>7. work_units = num_worker /\ out_slots = TotalOutSlots /\ in_slots = TotalInSlots
  BY DEF Init, ProcessInit
<1>8. AllWorkUnits = num_worker + 0 + 0 + 0
  BY <1>1, <1>3, <1>4, <1>5, <1>7, Zenon DEF AllWorkUnits
<1>9. AllOutSlots = TotalOutSlots + 0 + 0 + 0
  BY <1>1, <1>3, <1>4, <1>6, <1>7, Zenon DEF AllOutSlots
<1>10. AllInSlots = TotalInSlots + 0 + 0 + 0
  BY <1>1, <1>3, <1>4, <1>5, <1>7, Zenon DEF AllInSlots
<1> QED
  BY <1>2, <1>8, <1>9, <1>10

(* At most one worker collects sequentially, while it holds the token      *)
(* nothing is parked in unfinished_work, and types are right.              *)
LEMMA TokenSafe == Spec => [](TypeInv /\ TokenInv)
<1>1. Init => TokenInv
  BY DEF Init, ProcessInit, TokenInv, Collector
<1> QED
  BY <1>1, InitTypeInv, NextTypeInv, NextTokenInv, PTL DEF Spec

(* No work unit is lost or made up on any path through the tasks, with any *)
(* number of workers: trans_q never overflows its num_worker places.       *)
LEMMA WorkUnits == Spec => []WorkUnitsConserved
<1>1. Init => WorkUnitsConserved
  BY InitCounts DEF WorkUnitsConserved
<1>2. TypeInv /\ TypeInv' /\ TokenInv /\ WorkUnitsConserved /\ [Next]_vars => WorkUnitsConserved'
  BY NextWorkUnits DEF WorkUnitsConserved, num_worker
<1> QED
  BY <1>1, <1>2, TokenSafe, PTL DEF Spec

(* No output slot is lost or made up: reord_q and output_q never overflow. *)
LEMMA OutSlots == Spec => []OutSlotsConserved
<1>1. Init => OutSlotsConserved
  BY InitCounts DEF OutSlotsConserved
<1>2. TypeInv /\ OutSlotsConserved /\ [Next]_vars => OutSlotsConserved'
  BY NextOutSlots DEF OutSlotsConserved
<1> QED
  BY <1>1, <1>2, TokenSafe, PTL DEF Spec

(* No input slot is lost or made up: coll_q never overflows, and no buffer *)
(* is leaked or released twice.                                            *)
LEMMA InSlots == Spec => []InSlotsConserved
<1>1. Init => InSlotsConserved
  BY InitCounts DEF InSlotsConserved
<1>2. TypeInv /\ InSlotsConserved /\ [Next]_vars => InSlotsConserved'
  BY NextInSlots DEF InSlotsConserved
<1> QED
  BY <1>1, <1>2, TokenSafe, PTL DEF Spec

(* Work units, output slots and input slots are conserved, for any number  *)
(* of workers and slots: no queue overflows its capacity, no buffer is     *)
(* leaked or released twice.                                               *)
THEOREM Resources == Spec => []ResourcesConserved
  BY WorkUnits, OutSlots, InSlots, PTL DEF ResourcesConserved

(***************************************************************************)
(* The compressor writes its blocks in the order of the input, each byte   *)
(* once, and ends when all are written: proofs for any number of workers   *)
(* and slots, any length of input and both ways of collecting.             *)
(*                                                                         *)
(* The first part is about sets: the work blocks W and the input blocks I  *)
(* that are in flight, wherever they are; what one step of the job does to *)
(* them.  The second part shows that each action is such a step, or moves  *)
(* a block from one place to another.  The third part is about the end of  *)
(* the job, the output and what keeps the pipeline going.                  *)
(***************************************************************************)

(***************************************************************************)
(* The blocks in flight as a function of the length L of the input: the    *)
(* next block to be written has position o and starts at byte f, and n     *)
(* buffers have been delivered.                                            *)
(***************************************************************************)
(* Where input buffer m starts.                                            *)
Start(L, m) == min(m * InGranul, L)

(* What the blocks say of the byte at which a position is.                 *)
Claims(L, W, I, o, f, n) ==
  {<<o, f>>, <<<<n, 0>>, Start(L, n)>>}
    \cup {<<b.pos, b.lo>> : b \in W} \cup {<<b.next, b.hi>> : b \in W}
    \cup {<<i.pos, i.next>> : i \in I}

(* They agree, with each other and with the order of positions.            *)
Agree(L, K, n) ==
  /\ \A c, d \in K : pos_le(c[1], d[1]) => c[2] <= d[2]
  /\ \A c \in K : /\ pos_le(c[1], <<n, 0>>)
                  /\ Start(L, c[1][1]) <= c[2]
                  /\ c[1][2] = 0 => c[2] = Start(L, c[1][1])

(* The rest of an input buffer is one block, and is the last that has a    *)
(* position of this buffer.                                                *)
Rests(L, I, n) ==
  /\ \A i \in I : /\ 0 < i.left /\ i.pos[1] < n
                  /\ i.next + i.left = Start(L, i.pos[1] + 1)
  /\ \A i, j \in I : i.pos[1] = j.pos[1] => i = j

Latest(I, K) == \A i \in I, c \in K : c[1][1] = i.pos[1] => c[1][2] <= i.pos[2]

(* A work block is of the positions from pos to next.  It has bytes once   *)
(* it has positions; until then it is at an input block.                   *)
Filled(W, I) ==
  \A b \in W : /\ pos_le(b.pos, b.next)
               /\ b.pos # b.next => b.lo < b.hi
               /\ b.pos = b.next => b.lo = b.hi /\ \E i \in I : i.pos = b.pos

(* Nothing else starts within it.                                          *)
Within(p, b) == pos_le(b.pos, p) /\ pos_lt(p, b.next)

Apart(W, I) ==
  \A b \in W : /\ \A x \in W \ {b} : ~ Within(x.pos, b)
               /\ \A i \in I : ~ Within(i.pos, b)

NotBehind(W, I, o) == \A x \in W \cup I : pos_le(o, x.pos)

(* Nobody waits for a position in vain: there is a block, or will be.      *)
Reached(p, W, I, n) ==
  p = <<n, 0>> \/ (\E b \in W : b.pos = p) \/ (\E i \in I : i.pos = p)

Linked(W, I, o, n) ==
  /\ Reached(o, W, I, n)
  /\ \A b \in W : Reached(b.next, W, I, n)
  /\ \A i \in I : Reached(<<i.pos[1] + 1, 0>>, W, I, n)

(* All bytes that have been delivered and not been written are in a block. *)
Held(L, W, I, f, n) ==
  \A k \in Nat : f <= k /\ k < Start(L, n) =>
    (\E b \in W : b.lo <= k /\ k < b.hi) \/ (\E i \in I : i.next <= k /\ k < i.next + i.left)

InFlightType(L, W, I, o, f, n) ==
  /\ W \subseteq WorkBlk /\ I \subseteq InBlk
  /\ o \in Position /\ L \in Nat /\ f \in Nat /\ n \in Nat

InFlight(L, W, I, o, f, n) ==
  /\ InFlightType(L, W, I, o, f, n)
  /\ Agree(L, Claims(L, W, I, o, f, n), n)
  /\ Rests(L, I, n) /\ Latest(I, Claims(L, W, I, o, f, n))
  /\ Filled(W, I) /\ Apart(W, I) /\ NotBehind(W, I, o)
  /\ Linked(W, I, o, n) /\ Held(L, W, I, f, n)

(***************************************************************************)
(* Where the blocks are.                                                   *)
(***************************************************************************)
Hands(f) == {f[w] : w \in Holding(f)}

Ins == ToSet(coll_q) \cup Hands(iblk)

Front1 == Abstract!Covered(combined_crc)

DataInv == InFlight(file_len, WorkBlks, Ins, order, Front1, next_id)

(* No block is in two places.                                              *)
Distinct(f) == \A v, w \in Holding(f) : f[v] = f[w] => v = w

PlaceInv ==
  /\ Sorted(coll_q) /\ Sorted(trans_q) /\ Sorted(reord_q)
  /\ Distinct(iblk) /\ Distinct(wblk)
  /\ Hands(iblk) \cap ToSet(coll_q) = {}
  /\ ToSet(trans_q) \cap ToSet(reord_q) = {}
  /\ Hands(wblk) \cap (ToSet(trans_q) \cup ToSet(reord_q)) = {}
  /\ unfinished_work \notin ToSet(trans_q) \cup ToSet(reord_q) \cup Hands(wblk)

(* An encoder that is being filled is at its worker's input block, and     *)
(* those that are done have some bytes.                                    *)
FilledStates == {"unfinished", "full", "encode", "transmit"}

EncoderInv ==
  /\ \A w \in Workers :
       /\ pc[w] \in HoldsInBlk => wblk[w].next = iblk[w].pos
       /\ pc[w] \in FilledStates => wblk[w].pos # wblk[w].next
  /\ \A b \in ToSet(trans_q) \cup ToSet(reord_q) \cup ({unfinished_work} \ {NULL}) :
       b.pos # b.next

(* With ultra, collecting goes through the input in order: all input is    *)
(* behind all work, and the encoder that is not full is the last one.      *)
UltraInv ==
  ultra =>
    /\ At({"collect"}) = {}
    /\ \A b \in WorkBlks, i \in Ins : pos_le(b.next, i.pos)
    /\ \A b \in WorkBlks :
         /\ unfinished_work # NULL => pos_le(b.pos, unfinished_work.pos)
         /\ \A w \in At({"collect_seq", "unfinished"}) : pos_le(b.pos, wblk[w].pos)

(* The source thread has read the buffers that were delivered, and one.    *)
SourceInv ==
  /\ request_close = FALSE
  /\ source \in {"top", "stalled", "read"} => ispec_total = next_id * InGranul
  /\ source = "deliver" =>
       /\ 0 < avail /\ ispec_total - avail = next_id * InGranul
       /\ avail = min(InGranul, file_len - next_id * InGranul)
  /\ source \in {"eof", "done"} => ispec_total = file_len /\ Start(file_len, next_id) = file_len
  /\ eof <=> source = "done"

(* What was put out are consecutive blocks; the sink thread has written    *)
(* some, has one in hand and the rest to come.                             *)
SinkHas == IF sink = "write" THEN 1 ELSE 0

Emits ==
  /\ \A j \in 1 .. Len(combined_crc) :
       /\ combined_crc[j].lo = IF j = 1 THEN 0 ELSE combined_crc[j - 1].hi
       /\ combined_crc[j].lo < combined_crc[j].hi
       /\ combined_crc[j].hi <= Front1 /\ Front1 <= file_len
  /\ \A i, j \in 1 .. Len(combined_crc) : i < j => combined_crc[i].hi <= combined_crc[j].lo
  /\ \A k \in Nat : k < Front1 =>
       \E j \in 1 .. Len(combined_crc) : combined_crc[j].lo <= k /\ k < combined_crc[j].hi

OutputInv ==
  /\ Len(combined_crc) = Len(written) + SinkHas + Len(output_q)
  /\ \A j \in 1 .. Len(written) : combined_crc[j] = written[j]
  /\ sink = "write" => combined_crc[Len(written) + 1] = block
  /\ \A j \in 1 .. Len(output_q) : combined_crc[Len(written) + SinkHas + j] = output_q[j]

(* Once a worker has found the job finished, it is.                        *)
EndInv ==
  /\ \A w \in Workers : pc[w] = "done" => can_terminate
  /\ shutdown # "running" => \A w \in Workers : pc[w] = "done"
  /\ finish => shutdown # "running"
  /\ sink = "done" => finish /\ output_q = <<>>
  /\ shutdown = "done" => sink = "done"

BlocksInv == DataInv /\ PlaceInv /\ EncoderInv /\ UltraInv

OrderInv ==
  /\ BlocksInv
  /\ SourceInv /\ Emits /\ OutputInv /\ EndInv

(***************************************************************************)
(* Positions, starts of buffers, claims.                                   *)
(***************************************************************************)
(* Inside one buffer, and from one to the next.                            *)
LEMMA PosSteps ==
  ASSUME NEW a \in Position, NEW b \in Position
  PROVE  /\ <<a[1], a[2] + 1>> \in Position /\ <<a[1] + 1, 0>> \in Position
         /\ a = <<a[1], a[2]>> /\ a[1] \in Nat /\ a[2] \in Nat
         /\ pos_lt(a, <<a[1], a[2] + 1>>) /\ pos_lt(a, <<a[1] + 1, 0>>)
         /\ pos_lt(b, <<a[1], a[2] + 1>>) => pos_le(b, a)
         /\ pos_lt(b, <<a[1] + 1, 0>>) <=> b[1] <= a[1]
         /\ a[1] < b[1] => pos_lt(a, b)
         /\ a[1] = b[1] => (pos_lt(a, b) <=> a[2] < b[2])
         /\ pos_le(a, b) => a[1] <= b[1]
  BY DEF Position, pos_le, pos_lt

LEMMA StartOrder ==
  ASSUME NEW L \in Nat, NEW m \in Nat
  PROVE  /\ Start(L, m) \in Nat /\ Start(L, 0) = 0 /\ Start(L, m) <= L
         /\ \A k \in Nat : m <= k => Start(L, m) <= Start(L, k)
<1> USE ProcessAssumption
<1>1. \A k \in Nat : k * InGranul \in Nat
  OBVIOUS
<1>2. ASSUME NEW k \in Nat, m <= k PROVE m * InGranul <= k * InGranul
  <2> DEFINE d == k - m
  <2>1. d \in Nat /\ k = m + d /\ d * InGranul \in Nat
    BY <1>1, <1>2
  <2>2. k * InGranul = m * InGranul + d * InGranul
    BY <2>1
  <2> QED
    BY <1>1, <2>1, <2>2
<1>3. 0 * InGranul = 0
  OBVIOUS
<1> QED
  BY <1>1, <1>2, <1>3 DEF Start, min

(* The buffer after the one that starts at n.                              *)
LEMMA StartNext ==
  ASSUME NEW L \in Nat, NEW n \in Nat
  PROVE  /\ (n + 1) * InGranul = n * InGranul + InGranul
         /\ n * InGranul \in Nat
  BY ProcessAssumption

LEMMA ClaimTypes ==
  ASSUME NEW L, NEW W, NEW I, NEW o, NEW f, NEW n, InFlightType(L, W, I, o, f, n),
         NEW c \in Claims(L, W, I, o, f, n)
  PROVE  c[1] \in Position /\ c[2] \in Nat /\ c = <<c[1], c[2]>>
<1>1. <<n, 0>> \in Position /\ Start(L, n) \in Nat
  BY StartOrder DEF InFlightType, Position
<1>2. \A b \in W : b.pos \in Position /\ b.next \in Position /\ b.lo \in Nat /\ b.hi \in Nat
  BY DEF InFlightType, WorkBlk
<1>3. \A i \in I : i.pos \in Position /\ i.next \in Nat
  BY DEF InFlightType, InBlk
<1> QED
  BY <1>1, <1>2, <1>3 DEF Claims, InFlightType

(* One more claim that fits.                                               *)
LEMMA AgreeAlso ==
  ASSUME NEW L \in Nat, NEW n \in Nat, NEW K, Agree(L, K, n),
         \A c \in K : c[1] \in Position /\ c[2] \in Nat,
         NEW p \in Position, NEW k \in Nat,
         \A c \in K : /\ pos_le(c[1], p) => c[2] <= k
                      /\ pos_le(p, c[1]) => k <= c[2],
         pos_le(p, <<n, 0>>), Start(L, p[1]) <= k, p[2] = 0 => k = Start(L, p[1]),
         NEW M \in SUBSET (K \cup {<<p, k>>})
  PROVE  Agree(L, M, n)
<1>1. ASSUME NEW c \in M, NEW d \in M, pos_le(c[1], d[1]) PROVE c[2] <= d[2]
  <2>1. CASE c \in K /\ d \in K
    BY <1>1, <2>1 DEF Agree
  <2>2. CASE c = <<p, k>> \/ d = <<p, k>>
    BY <1>1, <2>2
  <2> QED
    BY <2>1, <2>2
<1>2. ASSUME NEW c \in M
      PROVE  /\ pos_le(c[1], <<n, 0>>) /\ Start(L, c[1][1]) <= c[2]
             /\ c[1][2] = 0 => c[2] = Start(L, c[1][1])
  <2>1. CASE c \in K
    BY <2>1 DEF Agree
  <2>2. CASE c = <<p, k>>
    BY <2>2
  <2> QED
    BY <2>1, <2>2
<1> QED
  BY <1>1, <1>2 DEF Agree

LEMMA AgreeSubset ==
  ASSUME NEW L, NEW n, NEW K, Agree(L, K, n), NEW M \in SUBSET K
  PROVE  Agree(L, M, n)
  BY DEF Agree

(* A block that ends where an input block is ends at its first byte.       *)
LEMMA Meets ==
  ASSUME NEW L, NEW W, NEW I, NEW o, NEW f, NEW n, InFlight(L, W, I, o, f, n),
         NEW b \in W, NEW i \in I, b.next = i.pos
  PROVE  b.hi = i.next
<1> DEFINE K == Claims(L, W, I, o, f, n)
<1>1. <<b.next, b.hi>> \in K /\ <<i.pos, i.next>> \in K
  BY DEF Claims
<1>2. b.hi \in Nat /\ i.next \in Nat /\ i.pos \in Position
  BY DEF InFlight, InFlightType, WorkBlk, InBlk
<1>3. pos_le(i.pos, i.pos)
  BY <1>2, PosOrder
<1>4. \A c, d \in K : pos_le(c[1], d[1]) => c[2] <= d[2]
  BY DEF InFlight, Agree
<1>5. b.hi <= i.next /\ i.next <= b.hi
  BY <1>1, <1>3, <1>4
<1> QED
  BY <1>2, <1>5

(***************************************************************************)
(* A new encoder at an input block.                                        *)
(***************************************************************************)
LEMMA StepNew ==
  ASSUME NEW L, NEW W, NEW I, NEW o, NEW f, NEW n, InFlight(L, W, I, o, f, n),
         NEW i \in I
  PROVE  InFlight(L, W \cup {NewWorkBlk(i)}, I, o, f, n)
<1> DEFINE b == NewWorkBlk(i)
           V == W \cup {b}
<1>1. i.pos \in Position /\ i.next \in Nat
  BY DEF InFlight, InFlightType, InBlk
<1>2. b.pos = i.pos /\ b.next = i.pos /\ b.lo = i.next /\ b.hi = i.next /\ b \in WorkBlk
  BY <1>1 DEF NewWorkBlk, WorkBlk
<1> HIDE DEF b
<1>3. InFlightType(L, V, I, o, f, n)
  BY <1>2 DEF InFlight, InFlightType
<1>4. Claims(L, V, I, o, f, n) \subseteq Claims(L, W, I, o, f, n)
  <2>1. {<<x.pos, x.lo>> : x \in V} \cup {<<x.next, x.hi>> : x \in V}
          \subseteq {<<x.pos, x.lo>> : x \in W} \cup {<<x.next, x.hi>> : x \in W} \cup {<<i.pos, i.next>>}
    BY <1>2
  <2> QED
    BY <2>1 DEF Claims
<1>5. Agree(L, Claims(L, V, I, o, f, n), n) /\ Latest(I, Claims(L, V, I, o, f, n))
  BY <1>4, AgreeSubset DEF InFlight, Latest
<1>6. Filled(V, I)
  BY <1>1, <1>2, PosOrder DEF InFlight, Filled
<1>7. \A p \in Position : ~ Within(p, b)
  BY <1>1, <1>2, PosOrder DEF Within
<1>8. Apart(V, I)
  <2>1. \A x \in V : x.pos \in Position
    BY <1>3 DEF InFlightType, WorkBlk
  <2>2. \A x \in I : x.pos \in Position
    BY <1>3 DEF InFlightType, InBlk
  <2>3. \A x \in W : ~ Within(b.pos, x)
    BY <1>2 DEF InFlight, Apart
  <2> QED
    BY <1>7, <2>1, <2>2, <2>3 DEF InFlight, Apart
<1>9. NotBehind(V, I, o)
  BY <1>2 DEF InFlight, NotBehind
<1>10. Linked(V, I, o, n)
  BY <1>2 DEF InFlight, Linked, Reached
<1>11. Held(L, V, I, f, n)
  <2>1. Held(L, W, I, f, n)
    BY DEF InFlight
  <2> QED
    BY <2>1 DEF Held
<1> QED
  BY <1>3, <1>5, <1>6, <1>8, <1>9, <1>10, <1>11 DEF InFlight, b

(***************************************************************************)
(* The encoder b takes bytes from the input block i at which it is, some   *)
(* or all of them; R is what is left of i.                                 *)
(***************************************************************************)
TakesSome(b, i, b2, R) ==
  \E r \in InBlk : /\ R = {r} /\ 0 < r.left
                   /\ r.pos = <<i.pos[1], i.pos[2] + 1>> /\ r.pos = b2.next
                   /\ i.next <= r.next /\ r.next = b2.hi
                   /\ r.next + r.left = i.next + i.left

TakesRest(b, i, b2, R) ==
  R = {} /\ b2.next = <<i.pos[1] + 1, 0>> /\ b2.hi = i.next + i.left

Takes(W, I, b, i, b2, R) ==
  /\ b \in W /\ i \in I /\ b.next = i.pos
  /\ b2 \in WorkBlk /\ b2.pos = b.pos /\ b2.lo = b.lo /\ b2.lo < b2.hi
  /\ TakesSome(b, i, b2, R) \/ TakesRest(b, i, b2, R)
  /\ \A x \in W \ {b} : x.pos = x.next => x.pos # i.pos

(* No position is between that of i and the new one, e.                    *)
LEMMA TakeGap ==
  ASSUME NEW L, NEW W, NEW I, NEW o, NEW f, NEW n, InFlight(L, W, I, o, f, n),
         NEW b, NEW i, NEW b2, NEW R, Takes(W, I, b, i, b2, R),
         NEW c \in Claims(L, W, I, o, f, n)
  PROVE  /\ pos_lt(c[1], b2.next) => pos_le(c[1], i.pos)
         /\ c[1] = b2.next => R = {} /\ c[2] = b2.hi
         /\ pos_le(b2.next, c[1]) => i.pos[1] + 1 <= c[1][1] /\ i.next + i.left <= c[2]
<1> DEFINE K == Claims(L, W, I, o, f, n)
           e == b2.next
           m == i.pos[1]
<1>1. /\ L \in Nat /\ i \in InBlk /\ i.pos \in Position /\ i.next \in Nat /\ i.left \in Nat
      /\ b2.hi \in Nat /\ e \in Position
  BY DEF InFlight, InFlightType, InBlk, WorkBlk, Takes
<1>2. c[1] \in Position /\ c[2] \in Nat
  BY ClaimTypes DEF InFlight
<1>3. c[1][1] = m => c[1][2] <= i.pos[2]
  BY DEF InFlight, Latest, Takes
<1>4. i.next + i.left = Start(L, m + 1)
  BY DEF InFlight, Rests, Takes
<1>5. Start(L, c[1][1]) <= c[2] /\ (c[1][2] = 0 => c[2] = Start(L, c[1][1]))
  BY DEF InFlight, Agree
<1>6. m \in Nat /\ i.pos[2] \in Nat /\ c[1][1] \in Nat /\ c[1][2] \in Nat /\ m + 1 \in Nat
  BY <1>1, <1>2 DEF Position
<1>7. m + 1 <= c[1][1] => i.next + i.left <= c[2]
  <2>1. /\ Start(L, m + 1) \in Nat /\ Start(L, c[1][1]) \in Nat
        /\ m + 1 <= c[1][1] => Start(L, m + 1) <= Start(L, c[1][1])
    BY <1>1, <1>6, StartOrder
  <2> QED
    BY <2>1, <1>1, <1>2, <1>4, <1>5
<1>8. CASE TakesSome(b, i, b2, R)
  <2>1. e[1] = m /\ e[2] = i.pos[2] + 1
    BY <1>8 DEF TakesSome
  <2>2. pos_lt(c[1], e) => pos_le(c[1], i.pos)
    BY <1>6, <2>1 DEF pos_lt, pos_le
  <2>3. c[1] # e
    BY <1>3, <1>6, <2>1
  <2>4. pos_le(e, c[1]) => m + 1 <= c[1][1]
    BY <1>3, <1>6, <2>1 DEF pos_lt, pos_le
  <2> QED
    BY <1>7, <2>2, <2>3, <2>4
<1>9. CASE TakesRest(b, i, b2, R)
  <2>1. e[1] = m + 1 /\ e[2] = 0 /\ R = {} /\ b2.hi = Start(L, m + 1)
    BY <1>4, <1>9 DEF TakesRest
  <2>2. pos_lt(c[1], e) => pos_le(c[1], i.pos)
    BY <1>3, <1>6, <2>1 DEF pos_lt, pos_le
  <2>3. c[1] = e => c[2] = b2.hi
    BY <1>5, <2>1
  <2>4. pos_le(e, c[1]) => m + 1 <= c[1][1]
    BY <1>6, <2>1 DEF pos_lt, pos_le
  <2> QED
    BY <1>7, <2>1, <2>2, <2>3, <2>4
<1> QED
  BY <1>8, <1>9 DEF Takes

(* What the new position and its byte are.                                 *)
LEMMA TakeEnd ==
  ASSUME NEW L, NEW W, NEW I, NEW o, NEW f, NEW n, InFlight(L, W, I, o, f, n),
         NEW b, NEW i, NEW b2, NEW R, Takes(W, I, b, i, b2, R)
  PROVE  /\ b2.next \in Position /\ b2.hi \in Nat
         /\ pos_lt(i.pos, b2.next) /\ pos_le(b2.next, <<n, 0>>)
         /\ b.lo <= i.next /\ b.hi = i.next /\ i.next <= b2.hi /\ b2.hi <= i.next + i.left
         /\ Start(L, b2.next[1]) <= b2.hi
         /\ b2.next[2] = 0 => b2.hi = Start(L, b2.next[1])
<1> DEFINE K == Claims(L, W, I, o, f, n)
           e == b2.next
           m == i.pos[1]
<1>1. /\ L \in Nat /\ n \in Nat /\ i \in InBlk /\ i.pos \in Position /\ i.next \in Nat /\ i.left \in Nat
      /\ b2.hi \in Nat /\ e \in Position
      /\ b.pos \in Position /\ b.next \in Position /\ b.lo \in Nat
  BY DEF InFlight, InFlightType, InBlk, WorkBlk, Takes
<1>2. m \in Nat /\ i.pos[2] \in Nat /\ m < n /\ i.next + i.left = Start(L, m + 1)
  BY <1>1 DEF InFlight, Rests, Takes, Position
<1>3. <<i.pos, i.next>> \in K /\ <<b.pos, b.lo>> \in K
  BY DEF Claims, Takes
<1>4. Start(L, m) <= i.next /\ Start(L, m) \in Nat
  BY <1>1, <1>2, <1>3, StartOrder DEF InFlight, Agree
<1>5. b.lo <= i.next
  <2>1. pos_le(b.pos, i.pos)
    BY DEF InFlight, Filled, Takes
  <2> QED
    BY <1>3, <2>1 DEF InFlight, Agree
<1>6. b.hi = i.next
  BY Meets DEF Takes
<1>7. CASE TakesSome(b, i, b2, R)
  <2>1. PICK r \in InBlk : /\ r.pos = <<m, i.pos[2] + 1>> /\ r.pos = e
                           /\ i.next <= r.next /\ r.next = b2.hi
                           /\ r.next + r.left = i.next + i.left
    BY <1>7 DEF TakesSome
  <2>2. r.left \in Nat
    BY DEF InBlk
  <2>3. e[1] = m /\ e[2] = i.pos[2] + 1
    BY <2>1
  <2>4. pos_lt(i.pos, e) /\ pos_le(e, <<n, 0>>)
    BY <1>1, <1>2, <2>3 DEF pos_lt, pos_le
  <2>5. i.next <= b2.hi /\ b2.hi <= i.next + i.left
    BY <1>1, <2>1, <2>2
  <2> QED
    BY <1>1, <1>2, <1>4, <1>5, <1>6, <2>3, <2>4, <2>5
<1>8. CASE TakesRest(b, i, b2, R)
  <2>1. e[1] = m + 1 /\ e[2] = 0 /\ b2.hi = Start(L, m + 1) /\ b2.hi = i.next + i.left
    BY <1>2, <1>8 DEF TakesRest
  <2>2. pos_lt(i.pos, e) /\ pos_le(e, <<n, 0>>)
    BY <1>1, <1>2, <2>1 DEF pos_lt, pos_le
  <2> QED
    BY <1>1, <1>2, <1>5, <1>6, <2>1, <2>2
<1> QED
  BY <1>7, <1>8 DEF Takes

LEMMA StepTake ==
  ASSUME NEW L, NEW W, NEW I, NEW o, NEW f, NEW n, InFlight(L, W, I, o, f, n),
         NEW b, NEW i, NEW b2, NEW R, Takes(W, I, b, i, b2, R)
  PROVE  InFlight(L, (W \ {b}) \cup {b2}, (I \ {i}) \cup R, o, f, n)
<1> DEFINE K == Claims(L, W, I, o, f, n)
           V == (W \ {b}) \cup {b2}
           J == (I \ {i}) \cup R
           e == b2.next
           M == Claims(L, V, J, o, f, n)
<1>1. /\ L \in Nat /\ n \in Nat /\ f \in Nat /\ o \in Position /\ W \subseteq WorkBlk /\ I \subseteq InBlk
      /\ \A x \in W : x.pos \in Position /\ x.next \in Position /\ x.lo \in Nat /\ x.hi \in Nat
      /\ \A j \in I : j.pos \in Position /\ j.next \in Nat /\ j.left \in Nat
  BY DEF InFlight, InFlightType, InBlk, WorkBlk
<1>2. /\ b \in W /\ i \in I /\ b.next = i.pos /\ b2 \in WorkBlk /\ b2.pos = b.pos /\ b2.lo = b.lo
      /\ b2.lo < b2.hi /\ \A x \in W \ {b} : x.pos = x.next => x.pos # i.pos
  BY DEF Takes
<1>3. /\ e \in Position /\ b2.hi \in Nat /\ pos_lt(i.pos, e) /\ pos_le(e, <<n, 0>>)
      /\ b.lo <= i.next /\ b.hi = i.next /\ i.next <= b2.hi /\ b2.hi <= i.next + i.left
      /\ Start(L, e[1]) <= b2.hi /\ (e[2] = 0 => b2.hi = Start(L, e[1]))
  BY TakeEnd
<1>4. \A c \in K : /\ pos_lt(c[1], e) => pos_le(c[1], i.pos)
                   /\ c[1] = e => R = {} /\ c[2] = b2.hi
                   /\ pos_le(e, c[1]) => i.pos[1] + 1 <= c[1][1] /\ i.next + i.left <= c[2]
  BY TakeGap
<1>5. ASSUME NEW r \in R
      PROVE  /\ R = {r} /\ r \in InBlk /\ 0 < r.left /\ r.pos = e /\ r.next = b2.hi
             /\ e = <<i.pos[1], i.pos[2] + 1>>
             /\ r.next + r.left = i.next + i.left
  BY <1>5 DEF Takes, TakesSome, TakesRest
<1>6. M \subseteq K \cup {<<e, b2.hi>>}
  <2>1. \A j \in J : j \in I \/ <<j.pos, j.next>> = <<e, b2.hi>>
    BY <1>5
  <2>2. \A x \in V : x \in W \/ (<<x.pos, x.lo>> = <<b.pos, b.lo>> /\ <<x.next, x.hi>> = <<e, b2.hi>>)
    BY <1>2
  <2> HIDE DEF J, V, e
  <2> QED
    BY <1>2, <2>1, <2>2 DEF Claims
<1>7. \A c \in K : c[1] \in Position /\ c[2] \in Nat
  BY ClaimTypes DEF InFlight
<1>8. \A x \in W : /\ <<x.pos, x.lo>> \in K /\ <<x.next, x.hi>> \in K
  BY DEF Claims
<1>9. \A j \in I : <<j.pos, j.next>> \in K
  BY DEF Claims
<1>10. /\ \A c, d \in K : pos_le(c[1], d[1]) => c[2] <= d[2]
       /\ \A j, l \in I : j.pos[1] = l.pos[1] => j = l
       /\ \A j \in I, c \in K : c[1][1] = j.pos[1] => c[1][2] <= j.pos[2]
       /\ \A j \in I : 0 < j.left /\ j.pos[1] < n /\ j.next + j.left = Start(L, j.pos[1] + 1)
  BY DEF InFlight, Agree, Rests, Latest
<1>11. /\ \A x \in W : /\ pos_le(x.pos, x.next)
                       /\ x.pos # x.next => x.lo < x.hi
                       /\ x.pos = x.next => x.lo = x.hi /\ \E j \in I : j.pos = x.pos
       /\ \A x \in W : \A y \in W \ {x} : ~ Within(y.pos, x)
       /\ \A x \in W, j \in I : ~ Within(j.pos, x)
       /\ \A x \in W \cup I : pos_le(o, x.pos)
  BY DEF InFlight, Filled, Apart, NotBehind
<1> HIDE DEF K, M, e
<1>20. InFlightType(L, V, J, o, f, n)
  BY <1>1, <1>2, <1>5 DEF InFlightType
<1>21. Agree(L, M, n)
  <2>1. ASSUME NEW c \in K
        PROVE  /\ pos_le(c[1], e) => c[2] <= b2.hi
               /\ pos_le(e, c[1]) => b2.hi <= c[2]
    <3>1. c[1] \in Position /\ c[2] \in Nat /\ <<i.pos, i.next>> \in K
      BY <1>2, <1>7, <1>9
    <3>2. CASE c[1] = e
      <4>1. c[2] = b2.hi
        BY <1>4, <3>2
      <4> QED
        BY <1>3, <4>1
    <3>3. CASE c[1] # e
      <4>1. pos_le(c[1], e) => pos_le(c[1], i.pos)
        BY <1>3, <1>4, <3>1, <3>3, PosOrder
      <4>2. pos_le(c[1], i.pos) => c[2] <= i.next
        BY <1>10, <3>1
      <4>3. pos_le(e, c[1]) => i.next + i.left <= c[2]
        BY <1>4
      <4>4. i.next \in Nat /\ i.left \in Nat
        BY <1>1, <1>2
      <4> QED
        BY <1>3, <3>1, <4>1, <4>2, <4>3, <4>4
    <3> QED
      BY <3>2, <3>3
  <2>2. Agree(L, K, n)
    BY DEF InFlight, K
  <2> QED
    BY <1>1, <1>3, <1>6, <1>7, <2>1, <2>2, AgreeAlso
<1>22. Rests(L, J, n)
  <2>1. ASSUME NEW j \in R
        PROVE  /\ j.pos[1] = i.pos[1] /\ R = {j} /\ 0 < j.left
               /\ j.next + j.left = Start(L, j.pos[1] + 1)
    BY <1>2, <1>5, <1>10
  <2> QED
    BY <1>2, <1>10, <2>1 DEF Rests
<1>23. Latest(J, M)
  <2>1. ASSUME NEW j \in I \ {i}, e[1] = j.pos[1] PROVE e[2] <= j.pos[2]
    <3>1. CASE R = {}
      BY <1>1, <1>2, <2>1, <3>1 DEF Takes, TakesSome, TakesRest, e, Position
    <3>2. CASE R # {}
      <4>1. e = <<i.pos[1], i.pos[2] + 1>>
        BY <1>5, <3>2
      <4> QED
        BY <1>2, <1>10, <2>1, <4>1
    <3> QED
      BY <3>1, <3>2
  <2>2. ASSUME NEW j \in R, NEW c \in K, c[1][1] = j.pos[1] PROVE c[1][2] <= j.pos[2]
    <3>1. j.pos[1] = i.pos[1] /\ j.pos[2] = i.pos[2] + 1
      BY <1>5
    <3>2. c[1][2] <= i.pos[2]
      BY <1>2, <1>10, <2>2, <3>1
    <3>3. c[1][2] \in Nat /\ i.pos[2] \in Nat
      BY <1>1, <1>2, <1>7 DEF Position
    <3> QED
      BY <3>1, <3>2, <3>3
  <2>3. ASSUME NEW j \in R PROVE e[2] <= j.pos[2]
    BY <1>3, <1>5 DEF Position
  <2>4. \A c \in M : c \in K \/ c[1] = e
    BY <1>6
  <2> QED
    BY <1>10, <2>1, <2>2, <2>3, <2>4 DEF Latest
<1>24. Filled(V, J)
  <2>1. pos_le(b2.pos, e) /\ b2.pos # e
    <3>1. pos_le(b.pos, i.pos) /\ b.pos \in Position /\ i.pos \in Position
      BY <1>1, <1>2, <1>11
    <3> QED
      BY <1>2, <1>3, <3>1, PosOrder
  <2>2. ASSUME NEW x \in W \ {b}, x.pos = x.next PROVE \E j \in J : j.pos = x.pos
    BY <1>2, <1>11, <2>2
  <2> QED
    BY <1>2, <1>11, <2>1, <2>2 DEF Filled, e
<1>25. Apart(V, J)
  <2>1. \A p \in Position : Within(p, b2) /\ (\E c \in K : c[1] = p) => Within(p, b) \/ p = i.pos
    <3> SUFFICES ASSUME NEW p \in Position, Within(p, b2), NEW c \in K, c[1] = p
                 PROVE  Within(p, b) \/ p = i.pos
      OBVIOUS
    <3>1. pos_le(b.pos, p) /\ pos_le(p, i.pos)
      BY <1>2, <1>4 DEF Within, e
    <3> QED
      BY <1>1, <1>2, <3>1, PosOrder DEF Within
  <2>2. ASSUME NEW x \in W \ {b} PROVE ~ Within(x.pos, b2)
    <3>1. x.pos \in Position /\ x.next \in Position /\ (\E c \in K : c[1] = x.pos) /\ ~ Within(x.pos, b)
      BY <1>1, <1>2, <1>8, <1>11
    <3>2. x.pos # i.pos
      BY <1>1, <1>2, <1>11, <3>1, PosOrder DEF Within
    <3> QED
      BY <2>1, <3>1, <3>2
  <2>3. ASSUME NEW j \in I \ {i} PROVE ~ Within(j.pos, b2)
    BY <1>1, <1>2, <1>9, <1>10, <1>11, <2>1
  <2>4. ASSUME NEW j \in R PROVE ~ Within(j.pos, b2)
    BY <1>3, <1>5, PosOrder DEF Within, e
  <2>5. ASSUME NEW x \in W \ {b} PROVE ~ Within(b2.pos, x)
    BY <1>2, <1>11
  <2>6. ASSUME NEW x \in W \ {b}, NEW j \in R PROVE ~ Within(j.pos, x)
    <3> SUFFICES ASSUME Within(e, x) PROVE FALSE
      BY <1>5
    <3>1. x.pos \in Position /\ x.next \in Position /\ i.pos \in Position
      BY <1>1, <1>2
    <3>2. (\E c \in K : c[1] = x.pos) /\ (\E c \in K : c[1] = x.next)
      BY <1>8
    <3>3. x.pos # e /\ pos_le(x.pos, e)
      BY <1>4, <3>2 DEF Within
    <3>4. pos_le(x.pos, i.pos)
      BY <1>3, <1>4, <3>1, <3>2, <3>3, PosOrder
    <3>5. pos_lt(i.pos, x.next)
      BY <1>3, <3>1, PosOrder DEF Within
    <3> QED
      BY <1>2, <1>11, <3>4, <3>5 DEF Within
  <2> QED
    BY <1>2, <1>11, <2>2, <2>3, <2>4, <2>5, <2>6 DEF Apart
<1>26. NotBehind(V, J, o)
  <2>1. pos_le(o, e)
    <3>1. pos_le(o, i.pos) /\ i.pos \in Position
      BY <1>1, <1>2, <1>11
    <3> QED
      BY <1>1, <1>3, <3>1, PosOrder
  <2> QED
    BY <1>2, <1>5, <1>11, <2>1 DEF NotBehind
<1>27. Linked(V, J, o, n)
  <2>1. ASSUME NEW p, Reached(p, W, I, n), p # i.pos \/ b.pos = i.pos
        PROVE  Reached(p, V, J, n)
    <3>1. CASE p = <<n, 0>>
      BY <3>1 DEF Reached
    <3>2. CASE \E x \in W : x.pos = p
      BY <1>2, <3>2 DEF Reached
    <3>3. CASE \E j \in I : j.pos = p
      BY <1>2, <2>1, <3>3 DEF Reached
    <3> QED
      BY <2>1, <3>1, <3>2, <3>3 DEF Reached
  <2>2. /\ Reached(o, W, I, n) /\ \A x \in W : Reached(x.next, W, I, n)
        /\ \A j \in I : Reached(<<j.pos[1] + 1, 0>>, W, I, n)
    BY DEF InFlight, Linked
  <2>3. ASSUME b.pos # i.pos
        PROVE  /\ o # i.pos
               /\ \A x \in W \ {b} : x.next # i.pos
               /\ \A j \in I : <<j.pos[1] + 1, 0>> # i.pos
    <3>1. b.pos \in Position /\ i.pos \in Position /\ pos_le(b.pos, i.pos)
      BY <1>1, <1>2, <1>11
    <3>2. pos_lt(b.pos, i.pos)
      BY <2>3, <3>1, PosOrder
    <3>3. o # i.pos
      BY <1>1, <1>2, <1>11, <3>1, <3>2, PosOrder
    <3>4. ASSUME NEW x \in W \ {b} PROVE x.next # i.pos
      <4> SUFFICES ASSUME x.next = i.pos PROVE FALSE
        OBVIOUS
      <4>1. x.pos \in Position /\ pos_le(x.pos, i.pos) /\ x.pos # i.pos
        BY <1>1, <1>2, <1>11
      <4>2. pos_lt(x.pos, i.pos)
        BY <3>1, <4>1, PosOrder
      <4>3. Within(b.pos, x) \/ Within(x.pos, b)
        BY <1>2, <3>1, <3>2, <4>1, <4>2, PosOrder DEF Within
      <4> QED
        BY <1>2, <1>11, <4>3
    <3>5. ASSUME NEW j \in I, <<j.pos[1] + 1, 0>> = i.pos PROVE FALSE
      <4>1. j.pos \in Position /\ i.pos[1] = j.pos[1] + 1 /\ i.pos[2] = 0
        BY <1>1, <3>5
      <4>2. b.pos[1] = j.pos[1] => b.pos[2] <= j.pos[2]
        BY <1>2, <1>8, <1>10
      <4>3. pos_le(b.pos, j.pos) /\ pos_lt(j.pos, i.pos)
        BY <3>1, <3>2, <4>1, <4>2 DEF pos_lt, pos_le, Position
      <4> QED
        BY <1>2, <1>11, <4>3 DEF Within
    <3> QED
      BY <3>3, <3>4, <3>5
  <2>4. /\ Reached(o, V, J, n)
        /\ \A x \in W \ {b} : Reached(x.next, V, J, n)
        /\ \A j \in I : Reached(<<j.pos[1] + 1, 0>>, V, J, n)
    BY <2>1, <2>2, <2>3
  <2>5. Reached(b2.next, V, J, n)
    <3>1. CASE R = {}
      BY <1>2, <2>4, <3>1 DEF Takes, TakesSome, TakesRest
    <3>2. CASE R # {}
      BY <1>5, <3>2 DEF Reached, e
    <3> QED
      BY <3>1, <3>2
  <2>6. ASSUME NEW j \in R PROVE Reached(<<j.pos[1] + 1, 0>>, V, J, n)
    <3>1. j.pos[1] = i.pos[1]
      BY <1>5
    <3> QED
      BY <1>2, <2>4, <3>1
  <2> QED
    BY <2>4, <2>5, <2>6 DEF Linked
<1>28. Held(L, V, J, f, n)
  <2> SUFFICES ASSUME NEW k \in Nat, f <= k, k < Start(L, n)
               PROVE  \/ \E x \in V : x.lo <= k /\ k < x.hi
                      \/ \E j \in J : j.next <= k /\ k < j.next + j.left
    BY DEF Held
  <2>1. \/ \E x \in W : x.lo <= k /\ k < x.hi
        \/ \E j \in I : j.next <= k /\ k < j.next + j.left
    BY DEF InFlight, Held
  <2>2. ASSUME b.lo <= k, k < i.next + i.left
        PROVE  \/ \E x \in V : x.lo <= k /\ k < x.hi
               \/ \E j \in J : j.next <= k /\ k < j.next + j.left
    <3>1. CASE k < b2.hi
      BY <1>2, <2>2, <3>1
    <3>2. CASE ~ k < b2.hi
      <4>1. b2.hi <= k
        BY <1>3, <3>2
      <4>2. PICK r \in R : TRUE
        BY <2>2, <3>2 DEF Takes, TakesRest, TakesSome
      <4>3. r.next <= k /\ k < r.next + r.left
        BY <1>5, <2>2, <4>1
      <4> QED
        BY <4>3
    <3> QED
      BY <3>1, <3>2
  <2>3. i.next \in Nat /\ i.left \in Nat /\ b.lo \in Nat
    BY <1>1, <1>2
  <2>4. b.lo <= k /\ k < b.hi => b.lo <= k /\ k < i.next + i.left
    BY <1>3, <2>3
  <2>5. i.next <= k /\ k < i.next + i.left => b.lo <= k /\ k < i.next + i.left
    BY <1>3, <2>3
  <2> QED
    BY <2>1, <2>2, <2>4, <2>5
<1> QED
  BY <1>20, <1>21, <1>22, <1>23, <1>24, <1>25, <1>26, <1>27, <1>28 DEF InFlight, M

(***************************************************************************)
(* The block whose turn it is leaves.                                      *)
(***************************************************************************)
LEMMA StepReorder ==
  ASSUME NEW L, NEW W, NEW I, NEW o, NEW f, NEW n, InFlight(L, W, I, o, f, n),
         NEW b \in W, b.pos = o, b.pos # b.next
  PROVE  f = b.lo /\ b.lo < b.hi /\ InFlight(L, W \ {b}, I, b.next, b.hi, n)
<1> DEFINE K == Claims(L, W, I, o, f, n)
           V == W \ {b}
           M == Claims(L, V, I, b.next, b.hi, n)
<1>1. /\ L \in Nat /\ n \in Nat /\ f \in Nat /\ o \in Position /\ W \subseteq WorkBlk /\ I \subseteq InBlk
      /\ \A x \in W : x.pos \in Position /\ x.next \in Position /\ x.lo \in Nat /\ x.hi \in Nat
      /\ \A j \in I : j.pos \in Position /\ j.next \in Nat /\ j.left \in Nat
  BY DEF InFlight, InFlightType, InBlk, WorkBlk
<1>2. /\ \A x \in W : pos_le(x.pos, x.next) /\ (x.pos # x.next => x.lo < x.hi)
      /\ \A x \in W : \A y \in W \ {x} : ~ Within(y.pos, x)
      /\ \A x \in W, j \in I : ~ Within(j.pos, x)
      /\ \A x \in W \cup I : pos_le(o, x.pos)
  BY DEF InFlight, Filled, Apart, NotBehind
<1>3. f = b.lo
  <2>1. <<o, f>> \in K /\ <<b.pos, b.lo>> \in K
    BY DEF Claims
  <2>2. pos_le(o, b.pos) /\ pos_le(b.pos, o)
    BY <1>1, PosOrder
  <2>3. f <= b.lo /\ b.lo <= f
    BY <2>1, <2>2 DEF InFlight, Agree
  <2> QED
    BY <1>1, <2>3
<1>4. b.lo < b.hi
  BY <1>2
<1>5. M \subseteq K
  BY DEF Claims
<1>6. InFlightType(L, V, I, b.next, b.hi, n)
  BY <1>1 DEF InFlightType
<1>7. Agree(L, M, n) /\ Latest(I, M) /\ Rests(L, I, n)
  BY <1>5, AgreeSubset DEF InFlight, Latest
<1>8. Filled(V, I) /\ Apart(V, I)
  BY DEF InFlight, Filled, Apart
<1>9. NotBehind(V, I, b.next)
  <2>1. ASSUME NEW p \in Position, pos_le(o, p), ~ Within(p, b) PROVE pos_le(b.next, p)
    BY <1>1, <2>1, PosOrder DEF Within
  <2> QED
    BY <1>1, <1>2, <2>1 DEF NotBehind
<1>10. Linked(V, I, b.next, n)
  <2>1. /\ Reached(b.next, W, I, n) /\ \A x \in W : Reached(x.next, W, I, n)
        /\ \A j \in I : Reached(<<j.pos[1] + 1, 0>>, W, I, n)
    BY DEF InFlight, Linked
  <2>2. ASSUME NEW p, Reached(p, W, I, n), p # o PROVE Reached(p, V, I, n)
    BY <2>2 DEF Reached
  <2>3. ASSUME NEW x \in V PROVE x.next # o
    <3> SUFFICES ASSUME x.next = o PROVE FALSE
      OBVIOUS
    <3>1. x.pos = o
      BY <1>1, <1>2, PosOrder
    <3>2. pos_le(o, o) /\ pos_lt(o, b.next)
      BY <1>1, <1>2, PosOrder
    <3> QED
      BY <1>2, <3>1, <3>2 DEF Within
  <2>4. ASSUME NEW j \in I PROVE <<j.pos[1] + 1, 0>> # o
    <3>1. j.pos \in Position /\ pos_le(o, j.pos)
      BY <1>1, <1>2
    <3>2. pos_lt(j.pos, <<j.pos[1] + 1, 0>>)
      BY <3>1, PosSteps
    <3> QED
      BY <1>1, <3>1, <3>2, PosOrder
  <2> QED
    BY <2>1, <2>2, <2>3, <2>4 DEF Linked
<1>11. Held(L, V, I, b.hi, n)
  <2> SUFFICES ASSUME NEW k \in Nat, b.hi <= k, k < Start(L, n)
               PROVE  \/ \E x \in V : x.lo <= k /\ k < x.hi
                      \/ \E j \in I : j.next <= k /\ k < j.next + j.left
    BY DEF Held
  <2>1. f <= k /\ ~ k < b.hi
    BY <1>1, <1>3, <1>4
  <2> QED
    BY <2>1 DEF InFlight, Held
<1> QED
  BY <1>3, <1>4, <1>6, <1>7, <1>8, <1>9, <1>10, <1>11 DEF InFlight

(***************************************************************************)
(* The next buffer is delivered.                                           *)
(***************************************************************************)
LEMMA StepDeliver ==
  ASSUME NEW L, NEW W, NEW I, NEW o, NEW f, NEW n, InFlight(L, W, I, o, f, n),
         NEW i \in InBlk, i.pos = <<n, 0>>, i.next = Start(L, n), 0 < i.left,
         i.next + i.left = Start(L, n + 1)
  PROVE  InFlight(L, W, I \cup {i}, o, f, n + 1)
<1> DEFINE K == Claims(L, W, I, o, f, n)
           J == I \cup {i}
           p == <<n + 1, 0>>
           M == Claims(L, W, J, o, f, n + 1)
<1>1. /\ L \in Nat /\ n \in Nat /\ f \in Nat /\ o \in Position /\ W \subseteq WorkBlk /\ I \subseteq InBlk
      /\ \A x \in W : x.pos \in Position /\ x.next \in Position
      /\ \A j \in I : j.pos \in Position
      /\ <<n, 0>> \in Position /\ p \in Position /\ pos_lt(<<n, 0>>, p)
  BY DEF InFlight, InFlightType, InBlk, WorkBlk, Position, pos_lt
<1>2. \A c \in K : /\ c[1] \in Position /\ c[2] \in Nat /\ pos_le(c[1], <<n, 0>>)
                   /\ Start(L, c[1][1]) <= c[2] /\ (c[1][2] = 0 => c[2] = Start(L, c[1][1]))
  BY ClaimTypes DEF InFlight, Agree
<1>3. \A j \in I : j.pos[1] < n
  BY DEF InFlight, Rests
<1>4. M \subseteq K \cup {<<p, Start(L, n + 1)>>}
  BY DEF Claims
<1>5. Agree(L, M, n + 1)
  <2>1. Start(L, n + 1) \in Nat /\ Start(L, n) \in Nat /\ Start(L, n) <= Start(L, n + 1)
    <3>1. n + 1 \in Nat /\ n <= n + 1
      BY <1>1
    <3> QED
      BY <1>1, <3>1, StartOrder, Zenon
  <2>2. ASSUME NEW c \in K
        PROVE  /\ c[2] <= Start(L, n + 1) /\ ~ pos_le(p, c[1]) /\ pos_le(c[1], p)
    <3>1. <<<<n, 0>>, Start(L, n)>> \in K
      BY DEF Claims
    <3>2. c[2] <= Start(L, n)
      BY <1>2, <3>1 DEF InFlight, Agree
    <3>3. ~ pos_le(p, c[1]) /\ pos_le(c[1], p)
      BY <1>1, <1>2, PosOrder
    <3> QED
      BY <1>2, <2>1, <3>2, <3>3
  <2>3. Agree(L, K, n + 1)
    BY <1>2, <2>2 DEF InFlight, Agree
  <2>4. pos_le(p, p) /\ p[1] = n + 1
    BY <1>1, PosOrder
  <2> HIDE DEF K, M
  <2> QED
    BY <1>1, <1>2, <1>4, <2>1, <2>2, <2>3, <2>4, AgreeAlso
<1>6. InFlightType(L, W, J, o, f, n + 1)
  BY <1>1 DEF InFlightType
<1>7. Rests(L, J, n + 1)
  <2>1. \A j \in I : j.pos[1] < n + 1 /\ j.pos[1] # n
    BY <1>1, <1>3 DEF Position
  <2> QED
    BY <1>1, <2>1 DEF InFlight, Rests
<1>8. Latest(J, M)
  <2>1. ASSUME NEW c \in K, c[1][1] = n PROVE c[1][2] <= 0
    BY <1>1, <1>2, <2>1 DEF pos_le, pos_lt, Position
  <2>2. \A j \in I : j.pos[1] # n + 1
    BY <1>1, <1>3 DEF Position
  <2> HIDE DEF K, M
  <2>3. \A c \in M : c \in K \/ c[1][1] = n + 1
    BY <1>4
  <2> QED
    BY <1>1, <2>1, <2>2, <2>3 DEF InFlight, Latest, K
<1>9. Filled(W, J)
  BY DEF InFlight, Filled
<1>10. Apart(W, J)
  <2>1. ASSUME NEW x \in W PROVE ~ Within(<<n, 0>>, x)
    <3>1. <<x.next, x.hi>> \in K
      BY DEF Claims
    <3> QED
      BY <1>1, <1>2, <3>1, PosOrder DEF Within
  <2> QED
    BY <2>1 DEF InFlight, Apart
<1>11. NotBehind(W, J, o)
  <2>1. <<o, f>> \in K
    BY DEF Claims
  <2> QED
    BY <1>2, <2>1 DEF InFlight, NotBehind
<1>12. Linked(W, J, o, n + 1)
  <2>1. ASSUME NEW q, Reached(q, W, I, n) PROVE Reached(q, W, J, n + 1)
    BY <2>1 DEF Reached
  <2>2. Reached(<<i.pos[1] + 1, 0>>, W, J, n + 1)
    BY <1>1 DEF Reached
  <2> QED
    BY <2>1, <2>2 DEF InFlight, Linked
<1>13. Held(L, W, J, f, n + 1)
  <2> SUFFICES ASSUME NEW k \in Nat, f <= k, k < Start(L, n + 1)
               PROVE  \/ \E x \in W : x.lo <= k /\ k < x.hi
                      \/ \E j \in J : j.next <= k /\ k < j.next + j.left
    BY DEF Held
  <2>1. Start(L, n) \in Nat
    BY <1>1, StartOrder
  <2>2. CASE k < Start(L, n)
    BY <2>2 DEF InFlight, Held
  <2>3. CASE ~ k < Start(L, n)
    BY <2>1, <2>3
  <2> QED
    BY <2>2, <2>3
<1> QED
  BY <1>5, <1>6, <1>7, <1>8, <1>9, <1>10, <1>11, <1>12, <1>13 DEF InFlight

(* When nothing is in flight, everything delivered has been written.       *)
LEMMA Empty ==
  ASSUME NEW L, NEW o, NEW f, NEW n, InFlight(L, {}, {}, o, f, n)
  PROVE  o = <<n, 0>> /\ f = Start(L, n)
<1>1. o = <<n, 0>>
  BY DEF InFlight, Linked, Reached
<1>2. f \in Nat /\ L \in Nat /\ n \in Nat
  BY DEF InFlight, InFlightType
<1>3. <<<<n, 0>>, f>> \in Claims(L, {}, {}, o, f, n)
  BY <1>1 DEF Claims
<1>4. <<n, 0>>[2] = 0 => f = Start(L, <<n, 0>>[1])
  BY <1>3 DEF InFlight, Agree
<1> QED
  BY <1>1, <1>2, <1>4

(***************************************************************************)
(* What is in the hands of the workers.                                    *)
(***************************************************************************)
LEMMA HandChanges ==
  ASSUME NEW S, NEW h \in [Workers -> S], Distinct(h), NEW w \in Workers, NEW x,
         x # NULL, x \in Hands(h) => x = h[w], NEW g, g = [h EXCEPT ![w] = x]
  PROVE  Hands(g) = (Hands(h) \ {h[w]}) \cup {x} /\ Distinct(g)
<1>1. \A v \in Workers : g[v] = IF v = w THEN x ELSE h[v]
  OBVIOUS
<1>2. \A y : y \in Hands(h) <=> \E v \in Workers : h[v] # NULL /\ h[v] = y
  BY DEF Hands, Holding
<1>3. \A y : y \in Hands(g) <=> \E v \in Workers : g[v] # NULL /\ g[v] = y
  BY DEF Hands, Holding
<1>4. \A v \in Workers : h[v] # NULL /\ h[v] = h[w] => v = w
  BY DEF Distinct, Holding
<1>5. Hands(g) = (Hands(h) \ {h[w]}) \cup {x}
  <2>1. ASSUME NEW y \in Hands(g) PROVE y \in (Hands(h) \ {h[w]}) \cup {x}
    BY <1>1, <1>2, <1>3, <1>4
  <2>2. ASSUME NEW y \in (Hands(h) \ {h[w]}) \cup {x} PROVE y \in Hands(g)
    BY <1>1, <1>2, <1>3
  <2> QED
    BY <2>1, <2>2
<1>6. Distinct(g)
  <2> SUFFICES ASSUME NEW u \in Workers, NEW v \in Workers, g[u] # NULL, g[u] = g[v] PROVE u = v
    BY DEF Distinct, Holding
  <2>1. CASE u # w /\ v # w
    BY <1>1, <2>1 DEF Distinct, Holding
  <2>2. CASE u = w /\ v # w
    BY <1>1, <1>2, <1>4, <2>2
  <2>3. CASE u # w /\ v = w
    BY <1>1, <1>2, <1>4, <2>3
  <2> QED
    BY <2>1, <2>2, <2>3
<1> QED
  BY <1>2, <1>5, <1>6

LEMMA HandGives ==
  ASSUME NEW S, NEW h \in [Workers -> S], Distinct(h), NEW w \in Workers, h[w] # NULL,
         NEW g, g = [h EXCEPT ![w] = NULL]
  PROVE  /\ Hands(g) = Hands(h) \ {h[w]} /\ Distinct(g)
         /\ h[w] \in Hands(h) /\ NULL \notin Hands(h)
<1>1. \A v \in Workers : g[v] = IF v = w THEN NULL ELSE h[v]
  OBVIOUS
<1>2. \A y : y \in Hands(h) <=> \E v \in Workers : h[v] # NULL /\ h[v] = y
  BY DEF Hands, Holding
<1>3. \A y : y \in Hands(g) <=> \E v \in Workers : g[v] # NULL /\ g[v] = y
  BY DEF Hands, Holding
<1>4. \A v \in Workers : h[v] = h[w] => v = w
  BY DEF Distinct, Holding
<1>5. Hands(g) = Hands(h) \ {h[w]}
  <2>1. \A y \in Hands(g) : y \in Hands(h) \ {h[w]}
    BY <1>1, <1>2, <1>3, <1>4
  <2>2. \A y \in Hands(h) \ {h[w]} : y \in Hands(g)
    BY <1>1, <1>2, <1>3
  <2> QED
    BY <2>1, <2>2
<1>6. Distinct(g)
  BY <1>1 DEF Distinct, Holding
<1> QED
  BY <1>2, <1>5, <1>6

LEMMA HandTakes ==
  ASSUME NEW S, NEW h \in [Workers -> S], Distinct(h), NEW w \in Workers, h[w] = NULL,
         NEW x, x # NULL, x \notin Hands(h), NEW g, g = [h EXCEPT ![w] = x]
  PROVE  Hands(g) = Hands(h) \cup {x} /\ Distinct(g)
<1>1. \A v \in Workers : g[v] = IF v = w THEN x ELSE h[v]
  OBVIOUS
<1>2. \A y : y \in Hands(h) <=> \E v \in Workers : h[v] # NULL /\ h[v] = y
  BY DEF Hands, Holding
<1>3. \A y : y \in Hands(g) <=> \E v \in Workers : g[v] # NULL /\ g[v] = y
  BY DEF Hands, Holding
<1>4. Hands(g) = Hands(h) \cup {x}
  <2>1. \A y \in Hands(g) : y \in Hands(h) \cup {x}
    BY <1>1, <1>2, <1>3
  <2>2. \A y \in Hands(h) \cup {x} : y \in Hands(g)
    BY <1>1, <1>2, <1>3
  <2> QED
    BY <2>1, <2>2
<1>5. \A v \in Workers : h[v] # x
  BY <1>2
<1>6. Distinct(g)
  BY <1>1, <1>5 DEF Distinct, Holding
<1> QED
  BY <1>4, <1>6

LEMMA WorkBlksAre ==
  /\ WorkBlks = ToSet(trans_q) \cup ToSet(reord_q) \cup Hands(wblk) \cup ({unfinished_work} \ {NULL})
  /\ WorkBlks' = ToSet(trans_q') \cup ToSet(reord_q') \cup Hands(wblk') \cup ({unfinished_work'} \ {NULL})
  BY DEF WorkBlks, Hands

LEMMA InsAre ==
  Ins = ToSet(coll_q) \cup Hands(iblk) /\ Ins' = ToSet(coll_q') \cup Hands(iblk')
  BY DEF Ins

LEMMA BlockTypes ==
  ASSUME TypeInv
  PROVE  /\ coll_q \in Seq(InBlk) /\ trans_q \in Seq(WorkBlk) /\ reord_q \in Seq(WorkBlk)
         /\ iblk \in [Workers -> InBlk \cup {NULL}] /\ wblk \in [Workers -> WorkBlk \cup {NULL}]
         /\ unfinished_work \in WorkBlk \cup {NULL} /\ pc \in [Workers -> WorkerStates]
         /\ WorkBlks \subseteq WorkBlk /\ Ins \subseteq InBlk
         /\ NULL \notin InBlk /\ NULL \notin WorkBlk
         /\ \A b \in InBlk : b.pos \in Position
         /\ \A b \in WorkBlk : b.pos \in Position /\ b.next \in Position
         /\ order \in Position /\ next_id \in Nat
<1>1. /\ coll_q \in Seq(InBlk) /\ trans_q \in Seq(WorkBlk) /\ reord_q \in Seq(WorkBlk)
      /\ iblk \in [Workers -> InBlk \cup {NULL}] /\ wblk \in [Workers -> WorkBlk \cup {NULL}]
      /\ unfinished_work \in WorkBlk \cup {NULL} /\ pc \in [Workers -> WorkerStates]
      /\ order \in Position /\ next_id \in Nat
  BY DEF TypeInv, TypeOK, QueueTypeOK, InHandTypeOK, MonitorTypeOK
<1>2. ToSet(coll_q) \subseteq InBlk /\ ToSet(trans_q) \subseteq WorkBlk /\ ToSet(reord_q) \subseteq WorkBlk
  BY <1>1, ToSetOf
<1>3. Hands(iblk) \subseteq InBlk /\ Hands(wblk) \subseteq WorkBlk
  BY <1>1 DEF Hands, Holding
<1>4. WorkBlks \subseteq WorkBlk /\ Ins \subseteq InBlk
  BY <1>1, <1>2, <1>3, WorkBlksAre, InsAre
<1> QED
  BY <1>1, <1>4, InHandAssumption DEF InBlk, WorkBlk

(***************************************************************************)
(* The control states of the workers: w goes to s, and another may wake.   *)
(***************************************************************************)
Moves(w, s) ==
  /\ pc'[w] = s
  /\ \A v \in Workers \ {w} : pc'[v] = pc[v] \/ (pc[v] = "waiting" /\ pc'[v] = "enter")

LEMMA UnlockMoves ==
  ASSUME TypeInv, NEW w \in Workers, NEW s \in WorkerStates \ {"waiting"}, Unlock([pc EXCEPT ![w] = s])
  PROVE  Moves(w, s)
<1>1. pc \in [Workers -> WorkerStates]
  BY BlockTypes
<1>2. [pc EXCEPT ![w] = s] \in [Workers -> WorkerStates]
  BY <1>1
<1> QED
  BY <1>1, <1>2, UnlockEffect DEF Moves

LEMMA ReturnMoves ==
  ASSUME TypeInv, NEW w \in Workers, Return(w)
  PROVE  Moves(w, "loop")
  BY BlockTypes, ReturnEffect DEF Moves

LEMMA EncoderStep ==
  ASSUME EncoderInv, NEW w \in Workers, NEW s, Moves(w, s),
         \A v \in Workers \ {w} : iblk'[v] = iblk[v] /\ wblk'[v] = wblk[v],
         s \in HoldsInBlk => wblk'[w].next = iblk'[w].pos,
         s \in FilledStates => wblk'[w].pos # wblk'[w].next,
         \A b \in ToSet(trans_q') \cup ToSet(reord_q') \cup ({unfinished_work'} \ {NULL}) : b.pos # b.next
  PROVE  EncoderInv'
<1>1. ASSUME NEW v \in Workers \ {w}
      PROVE  /\ pc'[v] \in HoldsInBlk => wblk'[v].next = iblk'[v].pos
             /\ pc'[v] \in FilledStates => wblk'[v].pos # wblk'[v].next
  BY DEF EncoderInv, Moves, HoldsInBlk, FilledStates
<1> QED
  BY <1>1 DEF EncoderInv, Moves

(* Steps that take blocks from one place to another.                       *)
LEMMA MoveStep ==
  ASSUME BlocksInv, NEW w \in Workers, NEW s, Moves(w, s), s \notin {"collect", "collect_seq", "unfinished"},
         \A v \in Workers \ {w} : iblk'[v] = iblk[v] /\ wblk'[v] = wblk[v],
         WorkBlks' = WorkBlks, Ins' = Ins,
         UNCHANGED <<file_len, order, next_id, combined_crc>>,
         unfinished_work' \in {NULL, unfinished_work}
           \/ (pc[w] = "unfinished" /\ unfinished_work' = wblk[w]),
         PlaceInv', EncoderInv'
  PROVE  BlocksInv'
<1>1. DataInv'
  BY DEF BlocksInv, DataInv, Front1
<1>2. UltraInv'
  <2> SUFFICES ASSUME ultra
               PROVE  /\ \A v \in Workers : pc'[v] # "collect"
                      /\ \A b \in WorkBlks, i \in Ins : pos_le(b.next, i.pos)
                      /\ \A b \in WorkBlks :
                           /\ unfinished_work' # NULL => pos_le(b.pos, unfinished_work'.pos)
                           /\ \A v \in Workers : pc'[v] \in {"collect_seq", "unfinished"} =>
                                pos_le(b.pos, wblk'[v].pos)
    BY DEF UltraInv, At
  <2>1. \A b \in WorkBlks, i \in Ins : pos_le(b.next, i.pos)
    BY DEF BlocksInv, UltraInv
  <2>2. ASSUME NEW b \in WorkBlks, unfinished_work' # NULL PROVE pos_le(b.pos, unfinished_work'.pos)
    BY <2>2 DEF BlocksInv, UltraInv, At
  <2>3. ASSUME NEW b \in WorkBlks, NEW v \in Workers, pc'[v] \in {"collect_seq", "unfinished"}
        PROVE  pos_le(b.pos, wblk'[v].pos)
    <3>1. v # w /\ pc[v] \in {"collect_seq", "unfinished"}
      BY <2>3 DEF Moves
    <3> QED
      BY <3>1 DEF BlocksInv, UltraInv, At
  <2>4. \A v \in Workers : pc'[v] # "collect"
    BY DEF BlocksInv, UltraInv, At, Moves
  <2> QED
    BY <2>1, <2>2, <2>3, <2>4
<1> QED
  BY <1>1, <1>2 DEF BlocksInv

(* No two encoders that have some bytes have the same position.            *)
LEMMA OwnPosition ==
  ASSUME TypeInv, DataInv, NEW b \in WorkBlks, NEW x \in WorkBlks, x # b, x.pos # x.next
  PROVE  x.pos # b.pos
<1>1. pos_le(x.pos, x.next) /\ ~ Within(b.pos, x)
  BY DEF DataInv, InFlight, Filled, Apart
<1>2. x.pos \in Position /\ x.next \in Position
  BY BlockTypes
<1> QED
  BY <1>1, <1>2, PosOrder DEF Within

LEMMA EncodedBlocks ==
  ASSUME TypeInv, BlocksInv, NEW w \in Workers, Encoded(w)
  PROVE  BlocksInv'
<1> DEFINE b == wblk[w]
<1>1. pc[w] = "encode" /\ b # NULL /\ b \in WorkBlk
  BY BlockTypes DEF Encoded, TypeInv, InHand, HoldsWorkBlk
<1>2. PlaceInv /\ DataInv /\ EncoderInv
  BY DEF BlocksInv
<1>3. /\ Hands(wblk') = Hands(wblk) \ {b} /\ Distinct(wblk') /\ b \in Hands(wblk)
      /\ NULL \notin Hands(wblk)
  <2>1. wblk' = [wblk EXCEPT ![w] = NULL] /\ wblk \in [Workers -> WorkBlk \cup {NULL}] /\ Distinct(wblk)
    BY <1>2, BlockTypes DEF Encoded, PlaceInv
  <2> QED
    BY <1>1, <2>1, HandGives
<1>4. b \in WorkBlks /\ ToSet(trans_q) \subseteq WorkBlks
  BY <1>1, <1>3, WorkBlksAre
<1>5. Sorted(trans_q') /\ ToSet(trans_q') = ToSet(trans_q) \cup {b}
  <2>1. \A x \in ToSet(trans_q) : x # b /\ x.pos # x.next
    BY <1>2, <1>3 DEF PlaceInv, EncoderInv
  <2>2. \A x \in ToSet(trans_q) : x.pos # b.pos
    BY <1>2, <1>4, <2>1, OwnPosition
  <2> QED
    BY <1>1, <1>2, <2>2, BlockTypes, EnqueueSorted DEF Encoded, PlaceInv
<1>6. UNCHANGED <<coll_q, reord_q, order, next_id, combined_crc, unfinished_work, iblk, file_len>>
  BY DEF Encoded, sourceVars
<1>7. b.pos # b.next
  BY <1>1, <1>2 DEF EncoderInv, FilledStates
<1>8. Moves(w, "loop") /\ \A v \in Workers \ {w} : wblk'[v] = wblk[v]
  BY BlockTypes, ReturnMoves DEF Encoded
<1> HIDE DEF b
<1>9. PlaceInv'
  BY <1>2, <1>3, <1>5, <1>6 DEF PlaceInv
<1>10. WorkBlks' = WorkBlks /\ Ins' = Ins
  BY <1>3, <1>5, <1>6, WorkBlksAre, InsAre
<1>11. EncoderInv'
  <2>1. \A x \in ToSet(trans_q') \cup ToSet(reord_q') \cup ({unfinished_work'} \ {NULL}) : x.pos # x.next
    BY <1>2, <1>5, <1>6, <1>7 DEF EncoderInv
  <2> QED
    BY <1>2, <1>6, <1>8, <2>1, EncoderStep DEF HoldsInBlk, FilledStates
<1> QED
  BY <1>6, <1>8, <1>9, <1>10, <1>11, MoveStep

LEMMA TransmittedBlocks ==
  ASSUME TypeInv, BlocksInv, NEW w \in Workers, Transmitted(w)
  PROVE  BlocksInv'
<1> DEFINE b == wblk[w]
<1>1. pc[w] = "transmit" /\ b # NULL /\ b \in WorkBlk
  BY BlockTypes DEF Transmitted, TypeInv, InHand, HoldsWorkBlk
<1>2. PlaceInv /\ DataInv /\ EncoderInv
  BY DEF BlocksInv
<1>3. /\ Hands(wblk') = Hands(wblk) \ {b} /\ Distinct(wblk') /\ b \in Hands(wblk)
      /\ NULL \notin Hands(wblk)
  <2>1. wblk' = [wblk EXCEPT ![w] = NULL] /\ wblk \in [Workers -> WorkBlk \cup {NULL}] /\ Distinct(wblk)
    BY <1>2, BlockTypes DEF Transmitted, PlaceInv
  <2> QED
    BY <1>1, <2>1, HandGives
<1>4. b \in WorkBlks /\ ToSet(reord_q) \subseteq WorkBlks
  BY <1>1, <1>3, WorkBlksAre
<1>5. Sorted(reord_q') /\ ToSet(reord_q') = ToSet(reord_q) \cup {b}
  <2>1. \A x \in ToSet(reord_q) : x # b /\ x.pos # x.next
    BY <1>2, <1>3 DEF PlaceInv, EncoderInv
  <2>2. \A x \in ToSet(reord_q) : x.pos # b.pos
    BY <1>2, <1>4, <2>1, OwnPosition
  <2> QED
    BY <1>1, <1>2, <2>2, BlockTypes, EnqueueSorted DEF Transmitted, PlaceInv
<1>6. UNCHANGED <<coll_q, trans_q, order, next_id, combined_crc, unfinished_work, iblk, file_len>>
  BY DEF Transmitted, sourceVars
<1>7. b.pos # b.next
  BY <1>1, <1>2 DEF EncoderInv, FilledStates
<1>8. Moves(w, "loop") /\ \A v \in Workers \ {w} : wblk'[v] = wblk[v]
  BY BlockTypes, ReturnMoves DEF Transmitted
<1> HIDE DEF b
<1>9. PlaceInv'
  BY <1>2, <1>3, <1>5, <1>6 DEF PlaceInv
<1>10. WorkBlks' = WorkBlks /\ Ins' = Ins
  BY <1>3, <1>5, <1>6, WorkBlksAre, InsAre
<1>11. EncoderInv'
  <2>1. \A x \in ToSet(trans_q') \cup ToSet(reord_q') \cup ({unfinished_work'} \ {NULL}) : x.pos # x.next
    BY <1>2, <1>5, <1>6, <1>7 DEF EncoderInv
  <2> QED
    BY <1>2, <1>6, <1>8, <2>1, EncoderStep DEF HoldsInBlk, FilledStates
<1> QED
  BY <1>6, <1>8, <1>9, <1>10, <1>11, MoveStep

LEMMA DoTransmitBlocks ==
  ASSUME TypeInv, BlocksInv, NEW w \in Workers, DoTransmit(w)
  PROVE  BlocksInv'
<1> DEFINE b == peek(trans_q)
<1>1. trans_q # <<>> /\ wblk[w] = NULL
  BY TaskReady DEF DoTransmit, AtTask, TypeInv, InHand, HoldsWorkBlk, can_transmit
<1>2. PlaceInv /\ DataInv /\ EncoderInv
  BY DEF BlocksInv
<1>3. b \in ToSet(trans_q) /\ Sorted(trans_q') /\ ToSet(trans_q') = ToSet(trans_q) \ {b} /\ b # NULL
  <2>1. b \in ToSet(trans_q) /\ Sorted(trans_q') /\ ToSet(trans_q') = ToSet(trans_q) \ {b}
    BY <1>1, <1>2, BlockTypes, DequeueSorted DEF DoTransmit, PlaceInv
  <2> QED
    BY <2>1, BlockTypes, ToSetOf
<1>4. Hands(wblk') = Hands(wblk) \cup {b} /\ Distinct(wblk')
  <2>1. b \notin Hands(wblk) /\ wblk' = [wblk EXCEPT ![w] = b]
    BY <1>2, <1>3 DEF PlaceInv, DoTransmit
  <2> QED
    BY <1>1, <1>2, <1>3, <2>1, BlockTypes, HandTakes DEF PlaceInv
<1>6. UNCHANGED <<coll_q, reord_q, order, next_id, combined_crc, unfinished_work, iblk, file_len>>
  BY DEF DoTransmit, sourceVars
<1>7. b.pos # b.next
  BY <1>2, <1>3 DEF EncoderInv
<1>8. Moves(w, "transmit") /\ wblk'[w] = b /\ \A v \in Workers \ {w} : wblk'[v] = wblk[v]
  <2>1. "transmit" \in WorkerStates \ {"waiting"} /\ Unlock([pc EXCEPT ![w] = "transmit"])
    BY DEF DoTransmit, WorkerStates
  <2> QED
    BY <2>1, BlockTypes, UnlockMoves DEF DoTransmit
<1> HIDE DEF b
<1>9. PlaceInv'
  BY <1>2, <1>3, <1>4, <1>6 DEF PlaceInv
<1>10. WorkBlks' = WorkBlks /\ Ins' = Ins
  BY <1>3, <1>4, <1>6, WorkBlksAre, InsAre
<1>11. EncoderInv'
  <2>1. \A x \in ToSet(trans_q') \cup ToSet(reord_q') \cup ({unfinished_work'} \ {NULL}) : x.pos # x.next
    BY <1>2, <1>3, <1>6 DEF EncoderInv
  <2> QED
    BY <1>2, <1>6, <1>7, <1>8, <2>1, EncoderStep DEF HoldsInBlk
<1> QED
  BY <1>6, <1>8, <1>9, <1>10, <1>11, MoveStep

LEMMA KeepUnfinishedBlocks ==
  ASSUME TypeInv, TokenInv, BlocksInv, NEW w \in Workers, KeepUnfinished(w)
  PROVE  BlocksInv'
<1> DEFINE b == wblk[w]
<1>1. pc[w] = "unfinished" /\ b # NULL /\ b \in WorkBlk /\ unfinished_work = NULL
  BY BlockTypes DEF KeepUnfinished, TypeInv, InHand, HoldsWorkBlk, TokenInv, Collector
<1>2. PlaceInv /\ DataInv /\ EncoderInv
  BY DEF BlocksInv
<1>3. /\ Hands(wblk') = Hands(wblk) \ {b} /\ Distinct(wblk') /\ b \in Hands(wblk)
      /\ NULL \notin Hands(wblk)
  <2>1. wblk' = [wblk EXCEPT ![w] = NULL] /\ wblk \in [Workers -> WorkBlk \cup {NULL}] /\ Distinct(wblk)
    BY <1>2, BlockTypes DEF KeepUnfinished, PlaceInv
  <2> QED
    BY <1>1, <2>1, HandGives
<1>6. /\ UNCHANGED <<coll_q, trans_q, reord_q, order, next_id, combined_crc, iblk, file_len>>
      /\ unfinished_work' = b
  BY DEF KeepUnfinished, sourceVars
<1>7. b.pos # b.next
  BY <1>1, <1>2 DEF EncoderInv, FilledStates
<1>8. Moves(w, "loop") /\ \A v \in Workers \ {w} : wblk'[v] = wblk[v]
  BY BlockTypes, ReturnMoves DEF KeepUnfinished
<1>9. PlaceInv'
  BY <1>2, <1>3, <1>6 DEF PlaceInv
<1>10. WorkBlks' = WorkBlks /\ Ins' = Ins
  BY <1>1, <1>3, <1>6, WorkBlksAre, InsAre
<1>11. EncoderInv'
  <2>1. \A x \in ToSet(trans_q') \cup ToSet(reord_q') \cup ({unfinished_work'} \ {NULL}) : x.pos # x.next
    BY <1>2, <1>6, <1>7 DEF EncoderInv
  <2> QED
    BY <1>2, <1>6, <1>8, <2>1, EncoderStep DEF HoldsInBlk, FilledStates
<1> QED
  BY <1>1, <1>6, <1>8, <1>9, <1>10, <1>11, MoveStep

LEMMA PassTokenBlocks ==
  ASSUME TypeInv, BlocksInv, NEW w \in Workers, PassToken(w)
  PROVE  BlocksInv'
<1>1. pc[w] = "full" /\ PlaceInv /\ EncoderInv
  BY DEF PassToken, BlocksInv
<1>2. UNCHANGED <<coll_q, trans_q, reord_q, order, next_id, combined_crc, unfinished_work, iblk, wblk, file_len>>
  BY DEF PassToken, sourceVars
<1>3. Moves(w, "encode")
  BY UnlockMoves DEF PassToken, WorkerStates
<1>4. PlaceInv'
  BY <1>1, <1>2 DEF PlaceInv
<1>5. WorkBlks' = WorkBlks /\ Ins' = Ins
  BY <1>2, WorkBlksAre, InsAre
<1>6. EncoderInv'
  BY <1>1, <1>2, <1>3, EncoderStep DEF EncoderInv, HoldsInBlk, FilledStates
<1> QED
  BY <1>2, <1>3, <1>4, <1>5, <1>6, MoveStep

(***************************************************************************)
(* A worker collects.  Its encoder is the only one at its input block that *)
(* has no bytes yet.                                                       *)
(***************************************************************************)
LEMMA AtInBlk ==
  ASSUME TypeInv, BlocksInv, NEW w \in Workers, pc[w] \in HoldsInBlk
  PROVE  /\ iblk[w] \in Ins /\ iblk[w] \in Hands(iblk) /\ iblk[w] \in InBlk
         /\ wblk[w] \in WorkBlks /\ wblk[w] \in Hands(wblk) /\ wblk[w] \in WorkBlk
         /\ wblk[w].next = iblk[w].pos
<1>1. iblk[w] # NULL /\ wblk[w] # NULL
  BY DEF TypeInv, InHand, HoldsInBlk, HoldsWorkBlk
<1>2. iblk[w] \in Hands(iblk) /\ wblk[w] \in Hands(wblk)
  BY <1>1 DEF Hands, Holding
<1> QED
  BY <1>1, <1>2, BlockTypes, WorkBlksAre, InsAre DEF BlocksInv, EncoderInv

LEMMA EmptyAt ==
  ASSUME TypeInv, BlocksInv, NEW x \in WorkBlks, x.pos = x.next
  PROVE  \E v \in Workers : pc[v] \in HoldsInBlk /\ wblk[v] = x /\ iblk[v].pos = x.pos
<1>1. x \in Hands(wblk)
  BY WorkBlksAre DEF BlocksInv, EncoderInv
<1>2. PICK v \in Workers : wblk[v] # NULL /\ wblk[v] = x
  BY <1>1 DEF Hands, Holding
<1>3. pc[v] \in HoldsWorkBlk /\ pc[v] \notin FilledStates
  BY <1>2 DEF BlocksInv, EncoderInv, TypeInv, InHand
<1>4. pc[v] \in HoldsInBlk
  BY <1>3 DEF HoldsInBlk, HoldsWorkBlk, FilledStates
<1> QED
  BY <1>2, <1>4, AtInBlk

LEMMA OnlyEmpty ==
  ASSUME TypeInv, BlocksInv, NEW w \in Workers, pc[w] \in HoldsInBlk,
         NEW x \in WorkBlks \ {wblk[w]}, x.pos = x.next
  PROVE  x.pos # iblk[w].pos
<1> SUFFICES ASSUME x.pos = iblk[w].pos PROVE FALSE
  OBVIOUS
<1>1. PICK v \in Workers : pc[v] \in HoldsInBlk /\ wblk[v] = x /\ iblk[v].pos = x.pos
  BY EmptyAt
<1>2. iblk[v] = iblk[w]
  BY <1>1, AtInBlk DEF BlocksInv, DataInv, InFlight, Rests
<1>3. iblk[v] # NULL /\ iblk[w] # NULL
  BY <1>1, AtInBlk, BlockTypes
<1>4. v = w
  BY <1>2, <1>3 DEF BlocksInv, PlaceInv, Distinct, Holding
<1> QED
  BY <1>1, <1>4

LEMMA TakeBlocks ==
  ASSUME TypeInv, BlocksInv, NEW w \in Workers, pc[w] \in HoldsInBlk,
         NEW s \in {"encode", "full", "unfinished"}, Moves(w, s), s = "unfinished" => pc[w] = "collect_seq",
         NEW b2, NEW R, Takes(WorkBlks, Ins, wblk[w], iblk[w], b2, R),
         wblk' = [wblk EXCEPT ![w] = b2], iblk' = [iblk EXCEPT ![w] = NULL],
         Sorted(coll_q'), ToSet(coll_q') = ToSet(coll_q) \cup R,
         UNCHANGED <<trans_q, reord_q, order, next_id, combined_crc, unfinished_work, file_len>>
  PROVE  BlocksInv'
<1> DEFINE b == wblk[w]
           i == iblk[w]
           e == b2.next
<1>1. /\ i \in Ins /\ i \in Hands(iblk) /\ i \in InBlk /\ i # NULL
      /\ b \in WorkBlks /\ b \in Hands(wblk) /\ b \in WorkBlk /\ b # NULL
  BY AtInBlk, BlockTypes
<1>2. DataInv /\ PlaceInv /\ EncoderInv /\ UltraInv
  BY DEF BlocksInv
<1>3. b2 \in WorkBlk /\ b2.pos = b.pos /\ b2.lo < b2.hi /\ b2 # NULL
  BY BlockTypes DEF Takes
<1>4. \A c \in Claims(file_len, WorkBlks, Ins, order, Front1, next_id) :
        /\ pos_lt(c[1], e) => pos_le(c[1], i.pos)
        /\ c[1] = e => R = {}
  BY <1>2, TakeGap DEF DataInv
<1>5. pos_lt(i.pos, e) /\ e \in Position
  BY <1>2, TakeEnd DEF DataInv
<1>6. ASSUME NEW r \in R PROVE r.pos = e /\ r \notin Ins
  <2>1. R = {r} /\ r.pos = e
    BY <1>6 DEF Takes, TakesSome, TakesRest
  <2>2. \A j \in Ins : <<j.pos, j.next>> \in Claims(file_len, WorkBlks, Ins, order, Front1, next_id)
    BY DEF Claims
  <2>3. \A j \in Ins : j.pos # e
    BY <1>4, <2>1, <2>2
  <2> QED
    BY <2>1, <2>3
<1>7. b2 \notin WorkBlks \ {b}
  <2> SUFFICES ASSUME b2 \in WorkBlks, b2 # b PROVE FALSE
    OBVIOUS
  <2>1. ~ Within(b.pos, b2) /\ pos_le(b2.pos, b2.next) /\ b2.pos # b2.next
    BY <1>1, <1>2, <1>3 DEF DataInv, InFlight, Apart, Filled, WorkBlk
  <2>2. b2.pos \in Position /\ b2.next \in Position
    BY <1>3 DEF WorkBlk
  <2> QED
    BY <1>3, <2>1, <2>2, PosOrder DEF Within
<1>8. /\ Hands(wblk') = (Hands(wblk) \ {b}) \cup {b2} /\ Distinct(wblk')
  <2>1. b2 \in Hands(wblk) => b2 = wblk[w]
    BY <1>7, WorkBlksAre
  <2>2. wblk \in [Workers -> WorkBlk \cup {NULL}] /\ Distinct(wblk)
    BY <1>2, BlockTypes DEF PlaceInv
  <2>3. wblk' = [wblk EXCEPT ![w] = b2] /\ b2 # NULL
    BY <1>3
  <2>4. Hands(wblk') = (Hands(wblk) \ {wblk[w]}) \cup {b2} /\ Distinct(wblk')
    BY <2>1, <2>2, <2>3, HandChanges
  <2> QED
    BY <2>4
<1>9. Hands(iblk') = Hands(iblk) \ {i} /\ Distinct(iblk') /\ NULL \notin Hands(iblk)
  <2>1. iblk \in [Workers -> InBlk \cup {NULL}] /\ Distinct(iblk)
    BY <1>2, BlockTypes DEF PlaceInv
  <2> QED
    BY <1>1, <2>1, HandGives
<1>10. Moves(w, s) /\ wblk'[w] = b2 /\ \A v \in Workers \ {w} : wblk'[v] = wblk[v] /\ iblk'[v] = iblk[v]
  BY BlockTypes
<1>11. Takes(WorkBlks, Ins, b, i, b2, R)
  OBVIOUS
<1> HIDE DEF b, i, e
<1>12. PlaceInv'
  <2>1. b2 \notin ToSet(trans_q) \cup ToSet(reord_q) \cup {unfinished_work}
    BY <1>1, <1>2, <1>3, <1>7, WorkBlksAre DEF PlaceInv
  <2>2. Hands(iblk') \cap ToSet(coll_q') = {}
    BY <1>2, <1>6, <1>9, InsAre DEF PlaceInv
  <2> QED
    BY <1>2, <1>8, <1>9, <2>1, <2>2 DEF PlaceInv
<1>13. WorkBlks' = (WorkBlks \ {b}) \cup {b2} /\ Ins' = (Ins \ {i}) \cup R
  <2>1. WorkBlks' = (WorkBlks \ {b}) \cup {b2}
    BY <1>1, <1>2, <1>3, <1>8, WorkBlksAre DEF PlaceInv
  <2>2. Ins' = (Ins \ {i}) \cup R
    BY <1>1, <1>2, <1>9, InsAre DEF PlaceInv
  <2> QED
    BY <2>1, <2>2
<1>14. DataInv'
  <2>1. InFlight(file_len, (WorkBlks \ {b}) \cup {b2}, (Ins \ {i}) \cup R, order, Front1, next_id)
    BY <1>2, <1>11, StepTake DEF DataInv
  <2>2. Front1' = Front1
    BY DEF Front1
  <2> QED
    BY <1>13, <2>1, <2>2 DEF DataInv
<1>15. b2.pos # b2.next
  <2>1. b2.lo \in Nat /\ b2.hi \in Nat /\ b2 \in WorkBlks'
    BY <1>3, <1>13 DEF WorkBlk
  <2> QED
    BY <1>3, <1>14, <2>1 DEF DataInv, InFlight, Filled
<1>16. EncoderInv'
  <2>1. \A x \in ToSet(trans_q') \cup ToSet(reord_q') \cup ({unfinished_work'} \ {NULL}) : x.pos # x.next
    BY <1>2 DEF EncoderInv
  <2> QED
    BY <1>2, <1>10, <1>15, <2>1, EncoderStep DEF HoldsInBlk
<1>17. UltraInv'
  <2> SUFFICES ASSUME ultra
               PROVE  /\ \A v \in Workers : pc'[v] # "collect"
                      /\ \A x \in WorkBlks', j \in Ins' : pos_le(x.next, j.pos)
                      /\ \A x \in WorkBlks' :
                           /\ unfinished_work # NULL => pos_le(x.pos, unfinished_work.pos)
                           /\ \A v \in Workers : pc'[v] \in {"collect_seq", "unfinished"} =>
                                pos_le(x.pos, wblk'[v].pos)
    BY DEF UltraInv, At
  <2>1. /\ \A v \in Workers : pc[v] # "collect"
        /\ \A x \in WorkBlks, j \in Ins : pos_le(x.next, j.pos)
        /\ \A x \in WorkBlks :
             /\ unfinished_work # NULL => pos_le(x.pos, unfinished_work.pos)
             /\ \A v \in Workers : pc[v] \in {"collect_seq", "unfinished"} => pos_le(x.pos, wblk[v].pos)
    BY <1>2 DEF UltraInv, At
  <2>2. \A v \in Workers : pc'[v] # "collect"
    BY <1>10, <2>1 DEF Moves
  <2>3. ASSUME NEW x \in WorkBlks \ {b}, NEW j \in R PROVE pos_le(x.next, j.pos)
    <3>1. pos_le(x.next, i.pos) /\ x.next \in Position /\ i.pos \in Position
      BY <1>1, <2>1, BlockTypes
    <3> QED
      BY <1>5, <1>6, <3>1, PosOrder
  <2>4. ASSUME NEW j \in Ins \ {i} PROVE pos_le(b2.next, j.pos)
    <3>1. <<j.pos, j.next>> \in Claims(file_len, WorkBlks, Ins, order, Front1, next_id)
      BY DEF Claims
    <3>2. j.pos \in Position /\ i.pos \in Position /\ pos_le(i.pos, j.pos)
      <4>1. pos_le(b.next, j.pos) /\ b.next = i.pos
        BY <1>1, <1>11, <2>1 DEF Takes
      <4> QED
        BY <1>1, <4>1, BlockTypes
    <3>3. j.pos # i.pos
      BY <1>1, <1>2 DEF DataInv, InFlight, Rests
    <3>4. ~ pos_lt(j.pos, e)
      BY <1>4, <3>1, <3>2, <3>3, PosOrder
    <3> QED
      BY <1>5, <3>2, <3>4, PosOrder DEF e
  <2>5. ASSUME NEW j \in R PROVE pos_le(b2.next, j.pos)
    BY <1>5, <1>6, PosOrder DEF e
  <2>6. \A x \in WorkBlks', j \in Ins' : pos_le(x.next, j.pos)
    BY <1>13, <2>1, <2>3, <2>4, <2>5
  <2>7. ASSUME NEW x \in WorkBlks, NEW v \in Workers, pc'[v] \in {"collect_seq", "unfinished"}
        PROVE  pos_le(x.pos, wblk'[v].pos)
    <3>1. CASE v # w
      <4>1. pc[v] = pc'[v] /\ wblk'[v] = wblk[v]
        BY <1>10, <2>7, <3>1 DEF Moves
      <4> QED
        BY <2>1, <2>7, <4>1
    <3>2. CASE v = w
      <4>1. s = "unfinished"
        BY <1>10, <2>7, <3>2 DEF Moves
      <4> QED
        BY <1>3, <1>10, <2>1, <3>2, <4>1 DEF b
    <3> QED
      BY <3>1, <3>2
  <2> QED
    BY <1>1, <1>3, <1>13, <2>1, <2>2, <2>6, <2>7
<1> QED
  BY <1>12, <1>14, <1>16, <1>17 DEF BlocksInv

LEMMA PartBlocks ==
  ASSUME TypeInv, BlocksInv, NEW w \in Workers, pc[w] \in HoldsInBlk,
         NEW s \in {"encode", "full"}, Moves(w, s), NEW n \in 0 .. iblk[w].left - 1,
         n = 0 => wblk[w].lo < wblk[w].hi, TakePart(w, n)
  PROVE  BlocksInv'
<1> DEFINE b == wblk[w]
           i == iblk[w]
           p == <<i.pos[1], i.pos[2] + 1>>
           r == [pos |-> p, next |-> i.next + n, left |-> i.left - n]
<1>1. /\ i \in Ins /\ i \in InBlk /\ b \in WorkBlks /\ b \in WorkBlk /\ b.next = i.pos
      /\ i.pos \in Position /\ i.next \in Nat /\ i.left \in Nat /\ b.lo \in Nat /\ b.hi \in Nat
  BY AtInBlk DEF InBlk, WorkBlk
<1>2. DataInv /\ PlaceInv
  BY DEF BlocksInv
<1>3. p \in Position /\ n \in Nat /\ n < i.left
  BY <1>1 DEF Position
<1>4. b.lo <= b.hi /\ b.hi = i.next
  BY <1>1, <1>2, Meets DEF DataInv, InFlight, Filled
<1>5. r \in InBlk /\ r.pos = p /\ r.next = i.next + n /\ r.left = i.left - n
  BY <1>1, <1>3 DEF InBlk
<1>6. PICK b2 \in WorkBlk : /\ wblk' = [wblk EXCEPT ![w] = b2]
                            /\ b2.pos = b.pos /\ b2.lo = b.lo /\ b2.next = p /\ b2.hi = b.hi + n
  <2> DEFINE k == b.hi + n
  <2>1. k \in Nat /\ p \in Position /\ wblk[w] \in WorkBlk
    BY <1>1, <1>3
  <2>2. wblk' = [wblk EXCEPT ![w].next = p, ![w].hi = k]
    BY <1>1 DEF TakePart
  <2>3. wblk \in [Workers -> WorkBlk \cup {NULL}]
    BY BlockTypes
  <2> HIDE DEF k, p
  <2>4. \E x \in WorkBlk : /\ wblk' = [wblk EXCEPT ![w] = x]
                           /\ x.pos = wblk[w].pos /\ x.lo = wblk[w].lo /\ x.next = p /\ x.hi = k
    <3> DEFINE g == [wblk[w] EXCEPT !.next = p, !.hi = k]
    <3>1. g \in WorkBlk
      BY <2>1, WorkBlkExcept
    <3>2. g.pos = wblk[w].pos /\ g.lo = wblk[w].lo /\ g.next = p /\ g.hi = k
      BY <2>1 DEF WorkBlk
    <3>3. wblk' = [wblk EXCEPT ![w] = g]
      BY <2>2, <2>3
    <3> QED
      BY <3>1, <3>2, <3>3
  <2> QED
    BY <2>4 DEF k
<1>7. iblk' = [iblk EXCEPT ![w] = NULL] /\ coll_q' = enqueue(coll_q, r)
  BY DEF TakePart
<1>8. UNCHANGED <<trans_q, reord_q, order, next_id, combined_crc, unfinished_work, file_len>>
  BY DEF TakePart, sourceVars
<1> HIDE DEF r
<1>9. Takes(WorkBlks, Ins, b, i, b2, {r})
  <2>1. b2.lo < b2.hi
    BY <1>1, <1>3, <1>4, <1>6
  <2>2. TakesSome(b, i, b2, {r})
    BY <1>1, <1>3, <1>4, <1>5, <1>6 DEF TakesSome
  <2> QED
    BY <1>1, <1>6, <2>1, <2>2, OnlyEmpty DEF Takes
<1>10. Sorted(coll_q') /\ ToSet(coll_q') = ToSet(coll_q) \cup {r}
  <2>1. ASSUME NEW j \in ToSet(coll_q) PROVE j.pos # r.pos
    <3>1. <<j.pos, j.next>> \in Claims(file_len, WorkBlks, Ins, order, Front1, next_id)
      BY InsAre DEF Claims
    <3>2. <<j.pos, j.next>>[1] # b2.next
      BY <1>2, <1>9, <3>1, TakeGap DEF DataInv
    <3> QED
      BY <1>5, <1>6, <3>2
  <2>2. coll_q \in Seq(InBlk) /\ (\A x \in InBlk : x.pos \in Position) /\ Sorted(coll_q)
    BY <1>2, BlockTypes DEF PlaceInv
  <2> QED
    BY <1>5, <1>7, <2>1, <2>2, EnqueueSorted
<1> QED
  BY <1>6, <1>7, <1>8, <1>9, <1>10, TakeBlocks

LEMMA AllBlocks ==
  ASSUME TypeInv, BlocksInv, NEW w \in Workers, pc[w] \in HoldsInBlk,
         NEW s \in {"encode", "full", "unfinished"}, s = "unfinished" => pc[w] = "collect_seq",
         TakeAll(w, s)
  PROVE  BlocksInv'
<1> DEFINE b == wblk[w]
           i == iblk[w]
           p == <<i.pos[1] + 1, 0>>
<1>1. /\ i \in Ins /\ i \in InBlk /\ b \in WorkBlks /\ b \in WorkBlk /\ b.next = i.pos
      /\ i.pos \in Position /\ i.next \in Nat /\ i.left \in Nat /\ b.lo \in Nat /\ b.hi \in Nat
  BY AtInBlk DEF InBlk, WorkBlk
<1>2. DataInv /\ PlaceInv
  BY DEF BlocksInv
<1>3. p \in Position /\ 0 < i.left
  BY <1>1, <1>2 DEF Position, DataInv, InFlight, Rests
<1>4. b.lo <= b.hi /\ b.hi = i.next
  BY <1>1, <1>2, Meets DEF DataInv, InFlight, Filled
<1>6. PICK b2 \in WorkBlk : /\ wblk' = [wblk EXCEPT ![w] = b2]
                            /\ b2.pos = b.pos /\ b2.lo = b.lo /\ b2.next = p /\ b2.hi = b.hi + i.left
  <2> DEFINE k == b.hi + i.left
  <2>1. k \in Nat /\ p \in Position /\ wblk[w] \in WorkBlk
    BY <1>1, <1>3
  <2>2. wblk' = [wblk EXCEPT ![w].next = p, ![w].hi = k]
    BY <1>1 DEF TakeAll
  <2>3. wblk \in [Workers -> WorkBlk \cup {NULL}]
    BY BlockTypes
  <2> HIDE DEF k, p
  <2>4. \E x \in WorkBlk : /\ wblk' = [wblk EXCEPT ![w] = x]
                           /\ x.pos = wblk[w].pos /\ x.lo = wblk[w].lo /\ x.next = p /\ x.hi = k
    <3> DEFINE g == [wblk[w] EXCEPT !.next = p, !.hi = k]
    <3>1. g \in WorkBlk
      BY <2>1, WorkBlkExcept
    <3>2. g.pos = wblk[w].pos /\ g.lo = wblk[w].lo /\ g.next = p /\ g.hi = k
      BY <2>1 DEF WorkBlk
    <3>3. wblk' = [wblk EXCEPT ![w] = g]
      BY <2>2, <2>3
    <3> QED
      BY <3>1, <3>2, <3>3
  <2> QED
    BY <2>4 DEF k
<1>7. iblk' = [iblk EXCEPT ![w] = NULL] /\ coll_q' = coll_q
  BY DEF TakeAll, jobVars
<1>8. UNCHANGED <<trans_q, reord_q, order, next_id, combined_crc, unfinished_work, file_len>>
  BY DEF TakeAll, jobVars
<1>9. Moves(w, s)
  BY BlockTypes DEF TakeAll, Moves
<1>10. Takes(WorkBlks, Ins, b, i, b2, {})
  <2>1. b2.lo < b2.hi
    BY <1>1, <1>3, <1>4, <1>6
  <2>2. TakesRest(b, i, b2, {})
    BY <1>4, <1>6 DEF TakesRest
  <2> QED
    BY <1>1, <1>6, <2>1, <2>2, OnlyEmpty DEF Takes
<1>11. Sorted(coll_q') /\ ToSet(coll_q') = ToSet(coll_q) \cup {}
  BY <1>2, <1>7 DEF PlaceInv
<1> QED
  BY <1>6, <1>7, <1>8, <1>9, <1>10, <1>11, TakeBlocks

(* A new encoder for the input block at the head of coll_q.                *)
LEMMA NewBlocks ==
  ASSUME TypeInv, BlocksInv, NEW w \in Workers, pc[w] = "loop", coll_q # <<>>,
         NEW s \in HoldsInBlk, Moves(w, s),
         ultra => /\ s = "collect_seq" /\ unfinished_work = NULL
                  /\ \A v \in Workers : pc[v] \notin {"collect_seq", "unfinished"},
         ~ ultra => s = "collect",
         iblk' = [iblk EXCEPT ![w] = peek(coll_q)],
         wblk' = [wblk EXCEPT ![w] = NewWorkBlk(peek(coll_q))],
         coll_q' = dequeue(coll_q),
         UNCHANGED <<trans_q, reord_q, order, next_id, combined_crc, unfinished_work, file_len>>
  PROVE  BlocksInv'
<1> DEFINE i == peek(coll_q)
           b == NewWorkBlk(i)
<1>1. DataInv /\ PlaceInv /\ EncoderInv /\ UltraInv
  BY DEF BlocksInv
<1>2. /\ i \in ToSet(coll_q) /\ Sorted(coll_q') /\ ToSet(coll_q') = ToSet(coll_q) \ {i}
      /\ \A j \in ToSet(coll_q) : pos_le(i.pos, j.pos)
  BY <1>1, BlockTypes, DequeueSorted DEF PlaceInv
<1>3. i \in Ins /\ i \in InBlk /\ i # NULL /\ i.pos \in Position /\ i.next \in Nat
  BY <1>2, InsAre, BlockTypes DEF InBlk
<1>4. b.pos = i.pos /\ b.next = i.pos /\ b.lo = i.next /\ b.hi = i.next /\ b \in WorkBlk /\ b # NULL
  BY <1>3, BlockTypes DEF NewWorkBlk, WorkBlk
<1>5. iblk[w] = NULL /\ wblk[w] = NULL
  BY DEF TypeInv, InHand, HoldsInBlk, HoldsWorkBlk
<1> HIDE DEF i, b
<1>6. b \notin WorkBlks
  <2> SUFFICES ASSUME b \in WorkBlks PROVE FALSE
    OBVIOUS
  <2>1. PICK v \in Workers : pc[v] \in HoldsInBlk /\ iblk[v].pos = i.pos
    BY <1>4, EmptyAt
  <2>2. iblk[v] \in Hands(iblk) /\ iblk[v] = i
    BY <1>1, <1>3, <2>1, AtInBlk DEF DataInv, InFlight, Rests
  <2> QED
    BY <1>1, <1>2, <2>2 DEF PlaceInv
<1>7. Hands(iblk') = Hands(iblk) \cup {i} /\ Distinct(iblk')
  <2>1. i \notin Hands(iblk) /\ iblk' = [iblk EXCEPT ![w] = i]
    BY <1>1, <1>2 DEF PlaceInv, i
  <2>2. iblk \in [Workers -> InBlk \cup {NULL}] /\ Distinct(iblk)
    BY <1>1, BlockTypes DEF PlaceInv
  <2> QED
    BY <1>3, <1>5, <2>1, <2>2, HandTakes
<1>8. Hands(wblk') = Hands(wblk) \cup {b} /\ Distinct(wblk')
  <2>1. b \notin Hands(wblk) /\ wblk' = [wblk EXCEPT ![w] = b]
    BY <1>6, WorkBlksAre DEF i, b
  <2>2. wblk \in [Workers -> WorkBlk \cup {NULL}] /\ Distinct(wblk)
    BY <1>1, BlockTypes DEF PlaceInv
  <2>3. wblk[w] = NULL /\ b # NULL
    BY <1>4, <1>5
  <2> QED
    BY <2>1, <2>2, <2>3, HandTakes
<1>9. WorkBlks' = WorkBlks \cup {b} /\ Ins' = Ins
  BY <1>2, <1>7, <1>8, WorkBlksAre, InsAre
<1>10. PlaceInv'
  <2>1. b \notin ToSet(trans_q) \cup ToSet(reord_q) \cup {unfinished_work}
    BY <1>4, <1>6, WorkBlksAre
  <2> QED
    BY <1>1, <1>2, <1>7, <1>8, <2>1 DEF PlaceInv
<1>11. DataInv'
  <2>1. InFlight(file_len, WorkBlks \cup {b}, Ins, order, Front1, next_id)
    BY <1>1, <1>3, StepNew DEF DataInv, b
  <2>2. Front1' = Front1
    BY DEF Front1
  <2> QED
    BY <1>9, <2>1, <2>2 DEF DataInv
<1>12. /\ \A v \in Workers \ {w} : iblk'[v] = iblk[v] /\ wblk'[v] = wblk[v]
       /\ iblk'[w] = i /\ wblk'[w] = b
  BY BlockTypes DEF i, b
<1>13. EncoderInv'
  <2>1. \A x \in ToSet(trans_q') \cup ToSet(reord_q') \cup ({unfinished_work'} \ {NULL}) : x.pos # x.next
    BY <1>1 DEF EncoderInv
  <2> QED
    BY <1>1, <1>4, <1>12, <2>1, EncoderStep DEF HoldsInBlk, FilledStates
<1>14. UltraInv'
  <2> SUFFICES ASSUME ultra
               PROVE  /\ \A v \in Workers : pc'[v] # "collect"
                      /\ \A x \in WorkBlks', j \in Ins' : pos_le(x.next, j.pos)
                      /\ \A x \in WorkBlks' :
                           /\ unfinished_work' # NULL => pos_le(x.pos, unfinished_work'.pos)
                           /\ \A v \in Workers : pc'[v] \in {"collect_seq", "unfinished"} =>
                                pos_le(x.pos, wblk'[v].pos)
    BY DEF UltraInv, At
  <2>1. /\ \A v \in Workers : pc[v] # "collect" /\ pc[v] \notin {"collect_seq", "unfinished"}
        /\ \A x \in WorkBlks, j \in Ins : pos_le(x.next, j.pos)
        /\ unfinished_work' = NULL /\ s = "collect_seq"
    BY <1>1 DEF UltraInv, At
  <2>2. \A v \in Workers : /\ pc'[v] # "collect"
                           /\ pc'[v] \in {"collect_seq", "unfinished"} => v = w
    BY <2>1 DEF Moves
  <2>3. Ins = ToSet(coll_q)
    <3>1. \A v \in Workers : iblk[v] = NULL
      BY <2>1 DEF TypeInv, InHand, HoldsInBlk
    <3> QED
      BY <3>1, InsAre DEF Hands, Holding
  <2>4. ASSUME NEW x \in WorkBlks PROVE pos_le(x.pos, b.pos)
    <3>1. pos_le(x.pos, x.next) /\ pos_le(x.next, i.pos)
      BY <1>1, <1>3, <2>1 DEF DataInv, InFlight, Filled
    <3> QED
      BY <1>3, <1>4, <3>1, BlockTypes, PosOrder
  <2>5. pos_le(b.pos, b.pos)
    BY <1>3, <1>4, PosOrder
  <2> QED
    BY <1>2, <1>4, <1>9, <1>12, <2>1, <2>2, <2>3, <2>4, <2>5
<1> QED
  BY <1>10, <1>11, <1>13, <1>14 DEF BlocksInv

(* With ultra, an encoder that was kept goes on with the next input block. *)
LEMMA ResumeBlocks ==
  ASSUME TypeInv, BlocksInv, ultra, NEW w \in Workers, pc[w] = "loop", coll_q # <<>>, unfinished_work # NULL,
         \A v \in Workers : pc[v] \notin {"collect_seq", "unfinished"},
         Moves(w, "collect_seq"),
         iblk' = [iblk EXCEPT ![w] = peek(coll_q)],
         wblk' = [wblk EXCEPT ![w] = unfinished_work], unfinished_work' = NULL,
         coll_q' = dequeue(coll_q),
         UNCHANGED <<trans_q, reord_q, order, next_id, combined_crc, file_len>>
  PROVE  BlocksInv'
<1> DEFINE i == peek(coll_q)
           b == unfinished_work
<1>1. DataInv /\ PlaceInv /\ EncoderInv /\ UltraInv
  BY DEF BlocksInv
<1>2. /\ i \in ToSet(coll_q) /\ Sorted(coll_q') /\ ToSet(coll_q') = ToSet(coll_q) \ {i}
      /\ \A j \in ToSet(coll_q) : pos_le(i.pos, j.pos)
  BY <1>1, BlockTypes, DequeueSorted DEF PlaceInv
<1>3. /\ i \in Ins /\ i \in InBlk /\ i # NULL /\ i.pos \in Position
      /\ b \in WorkBlks /\ b.pos \in Position /\ b.next \in Position /\ b.pos # b.next
  BY <1>1, <1>2, InsAre, WorkBlksAre, BlockTypes DEF EncoderInv
<1>5. iblk[w] = NULL /\ wblk[w] = NULL
  BY DEF TypeInv, InHand, HoldsInBlk, HoldsWorkBlk
<1>6. /\ \A v \in Workers : pc[v] # "collect" /\ iblk[v] = NULL
      /\ \A x \in WorkBlks, j \in Ins : pos_le(x.next, j.pos)
      /\ \A x \in WorkBlks : pos_le(x.pos, b.pos)
  <2>1. \A v \in Workers : pc[v] # "collect"
    BY <1>1 DEF UltraInv, At
  <2> QED
    BY <1>1, <2>1 DEF UltraInv, TypeInv, InHand, HoldsInBlk
<1> HIDE DEF i
<1>7. Ins = ToSet(coll_q) /\ Hands(iblk) = {}
  BY <1>6, InsAre DEF Hands, Holding
<1>8. b.next = i.pos
  <2>1. pos_le(b.next, i.pos)
    BY <1>3, <1>6
  <2>2. pos_lt(b.pos, b.next)
    BY <1>1, <1>3, PosOrder DEF DataInv, InFlight, Filled
  <2>3. b.next # <<next_id, 0>>
    <3>1. i.pos[1] < next_id /\ next_id \in Nat
      BY <1>1, <1>3, BlockTypes DEF DataInv, InFlight, Rests
    <3> QED
      BY <1>3, <2>1, <3>1 DEF pos_le, pos_lt, Position
  <2>4. \A x \in WorkBlks : x.pos # b.next
    BY <1>3, <1>6, <2>2, PosOrder
  <2>5. Reached(b.next, WorkBlks, Ins, next_id)
    BY <1>1, <1>3 DEF DataInv, InFlight, Linked
  <2>6. PICK j \in Ins : j.pos = b.next
    BY <2>3, <2>4, <2>5 DEF Reached
  <2>7. pos_le(i.pos, b.next)
    BY <1>2, <1>7, <2>6
  <2> QED
    BY <1>3, <2>1, <2>7, PosOrder
<1>9. Hands(iblk') = Hands(iblk) \cup {i} /\ Distinct(iblk')
  <2>1. i \notin Hands(iblk) /\ iblk' = [iblk EXCEPT ![w] = i]
    BY <1>7 DEF i
  <2>2. iblk \in [Workers -> InBlk \cup {NULL}] /\ Distinct(iblk)
    BY <1>1, BlockTypes DEF PlaceInv
  <2>3. iblk[w] = NULL /\ i # NULL
    BY <1>3, <1>5
  <2> QED
    BY <2>1, <2>2, <2>3, HandTakes
<1>10. Hands(wblk') = Hands(wblk) \cup {b} /\ Distinct(wblk')
  <2>1. b \notin Hands(wblk) /\ wblk' = [wblk EXCEPT ![w] = b]
    BY <1>1 DEF PlaceInv
  <2>2. wblk \in [Workers -> WorkBlk \cup {NULL}] /\ Distinct(wblk)
    BY <1>1, BlockTypes DEF PlaceInv
  <2>3. wblk[w] = NULL /\ b # NULL
    BY <1>5
  <2> HIDE DEF b
  <2> QED
    BY <2>1, <2>2, <2>3, HandTakes
<1>11. WorkBlks' = WorkBlks /\ Ins' = Ins
  BY <1>2, <1>9, <1>10, WorkBlksAre, InsAre
<1>12. PlaceInv'
  <2>1. NULL \notin ToSet(trans_q) \cup ToSet(reord_q) \cup Hands(wblk)
    BY BlockTypes, ToSetOf DEF Hands, Holding
  <2> QED
    BY <1>1, <1>2, <1>7, <1>9, <1>10, <2>1 DEF PlaceInv
<1>13. DataInv'
  BY <1>1, <1>11 DEF DataInv, Front1
<1>14. /\ \A v \in Workers \ {w} : iblk'[v] = iblk[v] /\ wblk'[v] = wblk[v]
       /\ iblk'[w] = i /\ wblk'[w] = b
  BY BlockTypes DEF i
<1>15. EncoderInv'
  <2>1. \A x \in ToSet(trans_q') \cup ToSet(reord_q') \cup ({unfinished_work'} \ {NULL}) : x.pos # x.next
    BY <1>1 DEF EncoderInv
  <2> QED
    BY <1>1, <1>8, <1>14, <2>1, EncoderStep DEF FilledStates
<1>16. UltraInv'
  <2>1. \A v \in Workers : /\ pc'[v] # "collect"
                           /\ pc'[v] \in {"collect_seq", "unfinished"} => v = w
    BY <1>6 DEF Moves
  <2> QED
    BY <1>6, <1>11, <1>14, <2>1 DEF UltraInv, At
<1> QED
  BY <1>12, <1>13, <1>15, <1>16 DEF BlocksInv

LEMMA DoCollectBlocks ==
  ASSUME TypeInv, BlocksInv, NEW w \in Workers, DoCollect(w)
  PROVE  BlocksInv'
<1>1. coll_q # <<>> /\ ~ ultra /\ pc[w] = "loop"
  BY TaskReady DEF DoCollect, AtTask, TypeInv, can_collect
<1>2. Moves(w, "collect")
  BY UnlockMoves DEF DoCollect, WorkerStates
<1>3. UNCHANGED <<trans_q, reord_q, order, next_id, combined_crc, unfinished_work, file_len>>
  BY DEF DoCollect, sourceVars
<1>4. /\ iblk' = [iblk EXCEPT ![w] = peek(coll_q)]
      /\ wblk' = [wblk EXCEPT ![w] = NewWorkBlk(peek(coll_q))]
      /\ coll_q' = dequeue(coll_q) /\ "collect" \in HoldsInBlk
  BY DEF DoCollect, HoldsInBlk
<1> QED
  BY <1>1, <1>2, <1>3, <1>4, NewBlocks

LEMMA DoCollectSeqBlocks ==
  ASSUME TypeInv, TokenInv, BlocksInv, NEW w \in Workers, DoCollectSeq(w)
  PROVE  BlocksInv'
<1>1. can_collect_seq /\ pc[w] = "loop"
  BY TaskReady DEF DoCollectSeq, AtTask, TypeInv
<1>2. ultra /\ \A v \in Workers : pc[v] \notin {"collect_seq", "unfinished"}
  BY <1>1 DEF can_collect_seq, TokenInv, Collector
<1>3. UNCHANGED <<trans_q, reord_q, order, next_id, combined_crc, file_len>> /\ unfinished_work' = NULL
  BY DEF DoCollectSeq, sourceVars
<1>4. CASE coll_q # <<>>
  <2>1. Moves(w, "collect_seq")
    BY <1>4, UnlockMoves DEF DoCollectSeq, WorkerStates
  <2>2. iblk' = [iblk EXCEPT ![w] = peek(coll_q)] /\ coll_q' = dequeue(coll_q)
    BY <1>4 DEF DoCollectSeq
  <2>3. CASE unfinished_work = NULL
    <3>1. wblk' = [wblk EXCEPT ![w] = NewWorkBlk(peek(coll_q))] /\ unfinished_work' = unfinished_work
      BY <2>3 DEF DoCollectSeq
    <3>2. "collect_seq" \in HoldsInBlk
      BY DEF HoldsInBlk
    <3> QED
      BY <1>1, <1>2, <1>3, <1>4, <2>1, <2>2, <2>3, <3>1, <3>2, NewBlocks
  <2>4. CASE unfinished_work # NULL
    <3>1. wblk' = [wblk EXCEPT ![w] = unfinished_work]
      BY <2>4 DEF DoCollectSeq
    <3> QED
      BY <1>1, <1>2, <1>3, <1>4, <2>1, <2>2, <2>4, <3>1, ResumeBlocks
  <2> QED
    BY <2>3, <2>4
(* At the end of the input the encoder is done.                            *)
<1>5. CASE coll_q = <<>>
  <2> DEFINE b == unfinished_work
  <2>1. b # NULL /\ b \in WorkBlk
    BY <1>1, <1>5, BlockTypes DEF can_collect_seq
  <2>2. Moves(w, "full")
    BY <1>5, UnlockMoves DEF DoCollectSeq, WorkerStates
  <2>3. iblk[w] = NULL /\ wblk[w] = NULL
    BY <1>1 DEF TypeInv, InHand, HoldsInBlk, HoldsWorkBlk
  <2>4. wblk' = [wblk EXCEPT ![w] = b] /\ coll_q' = coll_q
    BY <1>5, <2>1 DEF DoCollectSeq
  <2>5. iblk' = iblk
    BY <1>5, <2>3, BlockTypes DEF DoCollectSeq
  <2>6. PlaceInv /\ EncoderInv
    BY DEF BlocksInv
  <2>7. Hands(wblk') = Hands(wblk) \cup {b} /\ Distinct(wblk')
    <3>1. b \notin Hands(wblk)
      BY <2>6 DEF PlaceInv
    <3>2. wblk \in [Workers -> WorkBlk \cup {NULL}] /\ Distinct(wblk)
      BY <2>6, BlockTypes DEF PlaceInv
    <3> HIDE DEF b
    <3> QED
      BY <2>1, <2>3, <2>4, <3>1, <3>2, HandTakes
  <2>8. WorkBlks' = WorkBlks /\ Ins' = Ins
    <3>1. WorkBlks = ToSet(trans_q) \cup ToSet(reord_q) \cup Hands(wblk) \cup {b}
      BY <2>1, WorkBlksAre
    <3>2. WorkBlks' = ToSet(trans_q) \cup ToSet(reord_q) \cup Hands(wblk')
      BY <1>3, WorkBlksAre
    <3> QED
      BY <2>4, <2>5, <2>7, <3>1, <3>2, InsAre
  <2>9. PlaceInv'
    <3>1. NULL \notin ToSet(trans_q) \cup ToSet(reord_q) \cup Hands(wblk)
      BY BlockTypes, ToSetOf DEF Hands, Holding
    <3> QED
      BY <1>3, <2>1, <2>4, <2>5, <2>6, <2>7, <3>1 DEF PlaceInv
  <2>10. /\ \A v \in Workers \ {w} : iblk'[v] = iblk[v] /\ wblk'[v] = wblk[v]
         /\ wblk'[w] = b
    BY <2>4, <2>5, BlockTypes
  <2>11. EncoderInv'
    <3>1. \A x \in ToSet(trans_q') \cup ToSet(reord_q') \cup ({unfinished_work'} \ {NULL}) : x.pos # x.next
      BY <1>3, <2>6 DEF EncoderInv
    <3>2. b.pos # b.next
      BY <2>1, <2>6 DEF EncoderInv
    <3> QED
      BY <2>2, <2>6, <2>10, <3>1, <3>2, EncoderStep DEF HoldsInBlk
  <2> QED
    BY <1>3, <2>2, <2>8, <2>9, <2>10, <2>11, MoveStep
<1> QED
  BY <1>4, <1>5

(* The block whose turn it is begins where the output ends.                *)
LEMMA ReorderTurn ==
  ASSUME TypeInv, BlocksInv, NEW w \in Workers, DoReorder(w)
  PROVE  LET b == peek(reord_q)
         IN  /\ reord_q # <<>> /\ b \in ToSet(reord_q) /\ b \in WorkBlks /\ b \in WorkBlk
             /\ Front1 = b.lo /\ b.lo < b.hi
             /\ InFlight(file_len, WorkBlks \ {b}, Ins, b.next, b.hi, next_id)
<1> DEFINE b == peek(reord_q)
<1>1. reord_q # <<>> /\ b.pos = order
  BY TaskReady DEF DoReorder, AtTask, TypeInv, can_reorder, pos_eq
<1>2. b \in ToSet(reord_q)
  BY <1>1, BlockTypes, DequeueSorted DEF BlocksInv, PlaceInv
<1>3. b \in WorkBlks /\ b \in WorkBlk /\ b.pos # b.next
  BY <1>2, WorkBlksAre, BlockTypes DEF BlocksInv, EncoderInv
<1> HIDE DEF b
<1>4. InFlight(file_len, WorkBlks, Ins, order, Front1, next_id)
  BY DEF BlocksInv, DataInv
<1>5. Front1 = b.lo /\ b.lo < b.hi /\ InFlight(file_len, WorkBlks \ {b}, Ins, b.next, b.hi, next_id)
  BY <1>1, <1>3, <1>4, StepReorder
<1> QED
  BY <1>1, <1>2, <1>3, <1>5 DEF b

LEMMA DoReorderBlocks ==
  ASSUME TypeInv, BlocksInv, NEW w \in Workers, DoReorder(w)
  PROVE  BlocksInv'
<1> DEFINE b == peek(reord_q)
<1>1. /\ reord_q # <<>> /\ b \in ToSet(reord_q) /\ b \in WorkBlks /\ b \in WorkBlk
      /\ InFlight(file_len, WorkBlks \ {b}, Ins, b.next, b.hi, next_id)
  BY ReorderTurn
<1>2. PlaceInv /\ EncoderInv /\ UltraInv
  BY DEF BlocksInv
<1>3. Sorted(reord_q') /\ ToSet(reord_q') = ToSet(reord_q) \ {b}
  BY <1>1, <1>2, BlockTypes, DequeueSorted DEF PlaceInv, DoReorder
<1>4. /\ UNCHANGED <<coll_q, trans_q, next_id, unfinished_work, iblk, wblk, pc, file_len>>
      /\ order' = b.next /\ combined_crc' = Append(combined_crc, Output(b))
  BY DEF DoReorder, sourceVars
<1>5. Front1' = b.hi
  <2>1. Output(b).hi = b.hi /\ combined_crc \in Seq(OutBlk)
    BY DEF Output, TypeInv, TypeOK, QueueTypeOK
  <2>2. /\ Len(combined_crc') = Len(combined_crc) + 1 /\ combined_crc' # <<>>
        /\ combined_crc'[Len(combined_crc) + 1] = Output(b)
    BY <1>4, <2>1
  <2> QED
    BY <2>1, <2>2 DEF Front1, Abstract!Covered
<1> HIDE DEF b
<1>6. WorkBlks' = WorkBlks \ {b} /\ Ins' = Ins
  <2>1. b \notin ToSet(trans_q) \cup Hands(wblk) \cup {unfinished_work}
    BY <1>1, <1>2 DEF PlaceInv
  <2> QED
    BY <1>3, <1>4, <2>1, WorkBlksAre, InsAre
<1>7. DataInv'
  BY <1>1, <1>4, <1>5, <1>6 DEF DataInv
<1>8. PlaceInv'
  BY <1>2, <1>3, <1>4 DEF PlaceInv
<1>9. EncoderInv'
  BY <1>2, <1>3, <1>4 DEF EncoderInv
<1>10. UltraInv'
  BY <1>2, <1>4, <1>6 DEF UltraInv, At
<1> QED
  BY <1>7, <1>8, <1>9, <1>10 DEF BlocksInv

LEMMA OnInputAvailBlocks ==
  ASSUME TypeInv, BlocksInv, SourceInv, OnInputAvail
  PROVE  BlocksInv'
<1> DEFINE i == NewInBlk
           n == next_id
<1>1. DataInv /\ PlaceInv /\ EncoderInv /\ UltraInv
  BY DEF BlocksInv
<1>2. /\ n \in Nat /\ file_len \in Nat /\ avail \in Nat /\ ispec_total \in Nat
      /\ 0 < avail /\ ispec_total - avail = n * InGranul /\ avail = min(InGranul, file_len - n * InGranul)
  BY DEF OnInputAvail, SourceInv, TypeInv, TypeOK, SourceTypeOK, QueueTypeOK
<1>3. i.pos = <<n, 0>> /\ i.next = Start(file_len, n) /\ i.left = avail /\ i \in InBlk
      /\ i.next + i.left = Start(file_len, n + 1)
  <2>1. i.pos = <<n, 0>> /\ i.next = n * InGranul /\ i.left = avail
    BY <1>2 DEF NewInBlk
  <2>2. (n + 1) * InGranul = n * InGranul + InGranul /\ n * InGranul \in Nat
    BY <1>2, StartNext
  <2> DEFINE g == n * InGranul
             h == (n + 1) * InGranul
  <2>3. g \in Nat /\ InGranul \in Nat /\ h = g + InGranul /\ avail = min(InGranul, file_len - g)
        /\ Start(file_len, n) = min(g, file_len) /\ Start(file_len, n + 1) = min(h, file_len)
    BY <1>2, <2>2, ProcessAssumption DEF Start
  <2> HIDE DEF g, h
  <2>4. min(g, file_len) = g /\ g + avail = min(h, file_len)
    BY <1>2, <2>3 DEF min
  <2>5. i \in InBlk
    BY <1>2, <2>1, <2>3 DEF NewInBlk, InBlk, Position, g
  <2> QED
    BY <2>1, <2>3, <2>4, <2>5 DEF g
<1>4. /\ UNCHANGED <<trans_q, reord_q, order, combined_crc, unfinished_work, iblk, wblk, file_len>>
      /\ next_id' = n + 1 /\ coll_q' = enqueue(coll_q, i)
  BY DEF OnInputAvail
<1>5. \A v \in Workers : pc'[v] = pc[v] \/ (pc[v] = "waiting" /\ pc'[v] = "enter")
  BY BlockTypes, UnlockEffect DEF OnInputAvail
<1> HIDE DEF i
<1>6. ASSUME NEW j \in Ins PROVE j.pos # i.pos
  <2>1. j.pos[1] < n
    BY <1>1 DEF DataInv, InFlight, Rests
  <2> QED
    BY <1>2, <1>3, <2>1
<1>7. Sorted(coll_q') /\ ToSet(coll_q') = ToSet(coll_q) \cup {i}
  <2>1. \A j \in ToSet(coll_q) : j.pos # i.pos
    BY <1>6, InsAre
  <2>2. coll_q \in Seq(InBlk) /\ (\A x \in InBlk : x.pos \in Position) /\ Sorted(coll_q)
    BY <1>1, BlockTypes DEF PlaceInv
  <2> QED
    BY <1>3, <1>4, <2>1, <2>2, EnqueueSorted
<1>8. WorkBlks' = WorkBlks /\ Ins' = Ins \cup {i}
  BY <1>4, <1>7, WorkBlksAre, InsAre
<1>9. DataInv'
  <2>1. InFlight(file_len, WorkBlks, Ins \cup {i}, order, Front1, n + 1)
    BY <1>1, <1>2, <1>3, StepDeliver DEF DataInv
  <2>2. Front1' = Front1
    BY <1>4 DEF Front1
  <2> QED
    BY <1>4, <1>8, <2>1, <2>2 DEF DataInv
<1>10. PlaceInv'
  BY <1>1, <1>4, <1>6, <1>7, InsAre DEF PlaceInv
<1>11. EncoderInv'
  BY <1>1, <1>4, <1>5 DEF EncoderInv, HoldsInBlk, FilledStates
<1>12. UltraInv'
  <2>1. ASSUME NEW b \in WorkBlks PROVE pos_le(b.next, i.pos)
    <3>1. <<b.next, b.hi>> \in Claims(file_len, WorkBlks, Ins, order, Front1, next_id)
      BY DEF Claims
    <3>2. pos_le(<<b.next, b.hi>>[1], <<next_id, 0>>)
      BY <1>1, <3>1 DEF DataInv, InFlight, Agree
    <3> QED
      BY <1>3, <3>2
  <2> QED
    BY <1>1, <1>4, <1>5, <1>8, <2>1 DEF UltraInv, At
<1> QED
  BY <1>9, <1>10, <1>11, <1>12 DEF BlocksInv

(* Steps that touch no block.                                              *)
LEMMA SameBlocks ==
  ASSUME BlocksInv, UNCHANGED <<jobVars, iblk, wblk, file_len>>,
         \A v \in Workers : pc'[v] \in HoldsWorkBlk => pc'[v] = pc[v]
  PROVE  BlocksInv'
<1>1. UNCHANGED <<coll_q, trans_q, reord_q, order, next_id, combined_crc, unfinished_work>>
  BY DEF jobVars
<1>2. WorkBlks' = WorkBlks /\ Ins' = Ins
  BY <1>1, WorkBlksAre, InsAre
<1>3. DataInv'
  BY <1>1, <1>2 DEF BlocksInv, DataInv, Front1
<1>4. PlaceInv'
  BY <1>1 DEF BlocksInv, PlaceInv
<1>5. EncoderInv'
  BY <1>1 DEF BlocksInv, EncoderInv, HoldsInBlk, HoldsWorkBlk, FilledStates
<1>6. UltraInv'
  BY <1>1, <1>2 DEF BlocksInv, UltraInv, At, HoldsWorkBlk
<1> QED
  BY <1>3, <1>4, <1>5, <1>6 DEF BlocksInv

LEMMA ControlBlocks ==
  ASSUME TypeInv, BlocksInv, UNCHANGED <<jobVars, iblk, wblk>>,
         \/ \E w \in Workers : \/ WorkerEnter(w) \/ WorkerWait(w, can_terminate)
                               \/ WorkerExit(w, can_terminate)
         \/ PrimaryOnly \/ SpuriousWakeup
  PROVE  BlocksInv'
<1>1. file_len' = file_len
  BY DEF WorkerEnter, WorkerWait, WorkerExit, PrimaryOnly, JoinWorkersAndSource, JoinSink,
         SpuriousWakeup, sourceVars
<1>2. \A v \in Workers : pc'[v] \in HoldsWorkBlk => pc'[v] = pc[v]
  BY BlockTypes DEF WorkerEnter, WorkerWait, WorkerExit, PrimaryOnly, JoinWorkersAndSource, JoinSink,
         SpuriousWakeup, schedVars, Waiting, HoldsWorkBlk
<1> QED
  BY <1>1, <1>2, SameBlocks

LEMMA NextBlocks == TypeInv /\ TokenInv /\ BlocksInv /\ SourceInv /\ [Next]_vars => BlocksInv'
<1> SUFFICES ASSUME TypeInv, TokenInv, BlocksInv, SourceInv, [Next]_vars PROVE BlocksInv'
  OBVIOUS
<1>1. ASSUME NEW w \in Workers, Worker(w) PROVE BlocksInv'
  <2>0. iblk[w] \in InBlk \cup {NULL}
    BY BlockTypes
  <2>1. CASE DoCollect(w)
    BY <2>1, DoCollectBlocks
  <2>2. CASE CollectPart(w)
    <3>1. PICK n \in 1 .. iblk[w].left - 1 : TakePart(w, n)
      BY <2>2 DEF CollectPart
    <3>2. pc[w] \in HoldsInBlk
      BY <2>2 DEF CollectPart, HoldsInBlk
    <3>3. n \in 0 .. iblk[w].left - 1 /\ n # 0
      BY <3>2, AtInBlk DEF InBlk
    <3>4. Moves(w, "encode")
      BY <2>2, UnlockMoves DEF CollectPart, WorkerStates
    <3> QED
      BY <3>1, <3>2, <3>3, <3>4, PartBlocks
  <2>3. CASE CollectAll(w)
    BY <2>3, AllBlocks DEF CollectAll, HoldsInBlk
  <2>4. CASE DoCollectSeq(w)
    BY <2>4, DoCollectSeqBlocks
  <2>5. CASE CollectSeqPart(w)
    <3>1. PICK n \in 0 .. iblk[w].left - 1 : (n = 0 => wblk[w].lo < wblk[w].hi) /\ TakePart(w, n)
      BY <2>5 DEF CollectSeqPart
    <3>2. pc[w] \in HoldsInBlk
      BY <2>5 DEF CollectSeqPart, HoldsInBlk
    <3>3. Moves(w, "full")
      BY <2>5, UnlockMoves DEF CollectSeqPart, WorkerStates
    <3> QED
      BY <3>1, <3>2, <3>3, PartBlocks
  <2>6. CASE CollectSeqAll(w)
    BY <2>6, AllBlocks DEF CollectSeqAll, HoldsInBlk
  <2>7. CASE KeepUnfinished(w)
    BY <2>7, KeepUnfinishedBlocks
  <2>8. CASE PassToken(w)
    BY <2>8, PassTokenBlocks
  <2>9. CASE Encoded(w)
    BY <2>9, EncodedBlocks
  <2>10. CASE DoTransmit(w)
    BY <2>10, DoTransmitBlocks
  <2>11. CASE Transmitted(w)
    BY <2>11, TransmittedBlocks
  <2>12. CASE DoReorder(w)
    BY <2>12, DoReorderBlocks
  <2>13. CASE /\ WorkerEnter(w) \/ WorkerWait(w, can_terminate) \/ WorkerExit(w, can_terminate)
              /\ UNCHANGED <<jobVars, iblk, wblk>>
    BY <2>13, ControlBlocks
  <2> QED
    BY <1>1, <2>1, <2>2, <2>3, <2>4, <2>5, <2>6, <2>7, <2>8, <2>9, <2>10, <2>11, <2>12, <2>13
    DEF Worker
<1>2. CASE Source
  <2>1. CASE OnInputAvail
    BY <2>1, OnInputAvailBlocks
  <2>2. CASE SourceOnly /\ UNCHANGED <<jobVars, iblk, wblk>>
    BY <2>2, SameBlocks DEF SourceOnly, SourceStall, SourceTakeSlot, SourceClosed, SourceRead, schedVars
  <2>3. CASE SourceSetsEof(SelectTask', can_terminate') /\ UNCHANGED <<jobVars, iblk, wblk>>
    <3>1. \A v \in Workers : pc'[v] = pc[v] \/ (pc[v] = "waiting" /\ pc'[v] = "enter")
      BY <2>3, BlockTypes, UnlockEffect DEF SourceSetsEof, Unlock
    <3> QED
      BY <2>3, <3>1, SameBlocks DEF SourceSetsEof, HoldsWorkBlk
  <2> QED
    BY <1>2, <2>1, <2>2, <2>3 DEF Source
<1>3. CASE Sink
  <2>1. CASE OnWriteComplete
    <3>1. \A v \in Workers : pc'[v] = pc[v] \/ (pc[v] = "waiting" /\ pc'[v] = "enter")
      BY <2>1, BlockTypes, UnlockEffect DEF OnWriteComplete
    <3>2. UNCHANGED <<jobVars, iblk, wblk, file_len>>
      BY <2>1 DEF OnWriteComplete, sourceVars
    <3> QED
      BY <3>1, <3>2, SameBlocks DEF HoldsWorkBlk
  <2>2. CASE SinkOnly /\ UNCHANGED <<jobVars, iblk, wblk>>
    BY <2>2, SameBlocks DEF SinkOnly, SinkStall, SinkTake, SinkWrite, SinkExit, schedVars, sourceVars
  <2> QED
    BY <1>3, <2>1, <2>2 DEF Sink
<1>4. CASE Primary \/ Spurious
  BY <1>4, ControlBlocks DEF Primary, Spurious
<1>5. CASE UNCHANGED vars
  BY <1>5, SameBlocks DEF vars, procVars, sourceVars, schedVars
<1> QED
  BY <1>1, <1>2, <1>3, <1>4, <1>5 DEF Next, Over

(***************************************************************************)
(* The source thread.                                                      *)
(***************************************************************************)
(* Steps of the others: the source thread may be woken.                    *)
LEMMA SourceStill ==
  ASSUME SourceInv, UNCHANGED <<file_len, ispec_total, avail, request_close, next_id, eof>>,
         source' = source \/ {source, source'} \subseteq {"top", "stalled", "read"}
  PROVE  SourceInv'
<1>1. CASE source' = source
  BY <1>1 DEF SourceInv
<1>2. CASE {source, source'} \subseteq {"top", "stalled", "read"}
  BY <1>2 DEF SourceInv
<1> QED
  BY <1>1, <1>2

LEMMA SourceReadOrder ==
  ASSUME TypeInv, SourceInv, SourceRead, next_id' = next_id
  PROVE  SourceInv'
<1> DEFINE g == next_id * InGranul
<1>1. /\ file_len \in Nat /\ ispec_total \in Nat /\ ispec_total <= file_len
      /\ InGranul \in Nat \ {0} /\ next_id \in Nat
  BY ProcessAssumption DEF TypeInv, TypeOK, SourceTypeOK, QueueTypeOK, ReadSoFar
<1>2. g \in Nat /\ ispec_total = g
  BY <1>1, StartNext DEF SourceRead, SourceInv
<1>3. /\ UNCHANGED <<file_len, request_close, eof>>
      /\ avail' = min(InGranul, file_len - ispec_total) /\ ispec_total' = ispec_total + avail'
      /\ source' = IF avail' = 0 THEN "eof" ELSE "deliver"
  BY DEF SourceRead, slotVars
<1>4. request_close = FALSE /\ ~ eof
  BY DEF SourceInv, SourceRead
<1> HIDE DEF g
<1>5. CASE avail' = 0
  <2>1. file_len = g
    BY <1>1, <1>2, <1>3, <1>5 DEF min
  <2>2. Start(file_len, next_id) = file_len
    BY <1>2, <2>1 DEF Start, min, g
  <2> QED
    BY <1>1, <1>2, <1>3, <1>4, <1>5, <2>1, <2>2 DEF SourceInv
<1>6. CASE avail' # 0
  <2>1. avail' = min(InGranul, file_len - g) /\ 0 < avail' /\ ispec_total' - avail' = g
    BY <1>1, <1>2, <1>3, <1>6 DEF min
  <2> QED
    BY <1>3, <1>4, <1>6, <2>1 DEF SourceInv, g
<1> QED
  BY <1>5, <1>6

LEMMA OnInputAvailOrder ==
  ASSUME TypeInv, SourceInv, OnInputAvail
  PROVE  SourceInv'
<1> DEFINE g == next_id * InGranul
           h == (next_id + 1) * InGranul
<1>1. /\ file_len \in Nat /\ ispec_total \in Nat /\ avail \in Nat
      /\ InGranul \in Nat \ {0} /\ next_id \in Nat
  BY ProcessAssumption DEF TypeInv, TypeOK, SourceTypeOK, QueueTypeOK
<1>2. g \in Nat /\ h = g + InGranul
  BY <1>1, StartNext
<1>3. /\ 0 < avail /\ ispec_total - avail = g /\ avail = min(InGranul, file_len - g)
      /\ request_close = FALSE /\ ~ eof
  BY DEF SourceInv, OnInputAvail
<1>4. /\ UNCHANGED <<file_len, ispec_total, avail, request_close, eof>> /\ next_id' = next_id + 1
      /\ source' = IF avail < InGranul THEN "eof" ELSE "top"
  BY DEF OnInputAvail, slotVars, AfterDelivery
<1>5. Start(file_len, next_id + 1) = min(h, file_len)
  BY DEF Start
<1> HIDE DEF g, h
<1>6. CASE avail < InGranul
  <2>1. ispec_total = file_len /\ min(h, file_len) = file_len
    BY <1>1, <1>2, <1>3, <1>6 DEF min
  <2> QED
    BY <1>3, <1>4, <1>5, <1>6, <2>1 DEF SourceInv
<1>7. CASE ~ (avail < InGranul)
  <2>1. ispec_total = h
    BY <1>1, <1>2, <1>3, <1>7 DEF min
  <2> QED
    BY <1>3, <1>4, <1>7, <2>1 DEF SourceInv, h
<1> QED
  BY <1>6, <1>7

(* What a worker does to the threads that read and write.                  *)
LEMMA WorkerIO ==
  ASSUME NEW w \in Workers, Worker(w)
  PROVE  /\ UNCHANGED <<file_len, ispec_total, avail, request_close, next_id, eof>>
         /\ UNCHANGED <<written, block, finish, shutdown>>
         /\ source' = source \/ (source = "stalled" /\ source' = "top")
         /\ DoReorder(w) \/ UNCHANGED <<output_q, sink, combined_crc>>
<1> USE DEF sourceVars, sinkVars, slotVars, jobVars
<1>1. ASSUME NEW n, TakePart(w, n)
      PROVE  UNCHANGED <<sourceVars, sinkVars, slotVars, shutdown, next_id, combined_crc>>
  BY <1>1 DEF TakePart
<1>2. CASE CollectPart(w) \/ CollectSeqPart(w)
  BY <1>1, <1>2 DEF CollectPart, CollectSeqPart
<1>3. ASSUME NEW s, TakeAll(w, s)
      PROVE  /\ UNCHANGED <<file_len, ispec_total, avail, request_close, jobVars, sinkVars, slotVars, shutdown>>
             /\ source' = source \/ (source = "stalled" /\ source' = "top")
  BY <1>3 DEF TakeAll, SourceReleaseBuffer
<1>4. CASE CollectAll(w) \/ CollectSeqAll(w)
  BY <1>3, <1>4 DEF CollectAll, CollectSeqAll
<1>5. CASE DoCollect(w) \/ DoCollectSeq(w)
  BY <1>5 DEF DoCollect, DoCollectSeq
<1>6. CASE KeepUnfinished(w) \/ PassToken(w) \/ Encoded(w) \/ DoTransmit(w) \/ Transmitted(w)
  BY <1>6 DEF KeepUnfinished, PassToken, Encoded, DoTransmit, Transmitted
<1>7. CASE /\ WorkerEnter(w) \/ WorkerWait(w, can_terminate) \/ WorkerExit(w, can_terminate)
           /\ UNCHANGED <<jobVars, iblk, wblk>>
  BY <1>7 DEF WorkerEnter, WorkerWait, WorkerExit
<1>8. CASE DoReorder(w)
  BY <1>8 DEF DoReorder, SinkWriteBuffer
<1> QED
  BY <1>2, <1>4, <1>5, <1>6, <1>7, <1>8 DEF Worker

LEMMA NextSource == TypeInv /\ SourceInv /\ [Next]_vars => SourceInv'
<1> SUFFICES ASSUME TypeInv, SourceInv, [Next]_vars PROVE SourceInv'
  OBVIOUS
<1>1. ASSUME NEW w \in Workers, Worker(w) PROVE SourceInv'
  BY <1>1, WorkerIO, SourceStill
<1>2. CASE Source
  <2>1. CASE OnInputAvail
    BY <2>1, OnInputAvailOrder
  <2>2. CASE SourceOnly /\ UNCHANGED <<jobVars, iblk, wblk>>
    <3>1. next_id' = next_id
      BY <2>2 DEF jobVars
    <3>2. CASE SourceRead
      BY <3>1, <3>2, SourceReadOrder
    <3>3. CASE SourceStall \/ SourceTakeSlot
      BY <3>1, <3>3, SourceStill DEF SourceStall, SourceTakeSlot, slotVars
    <3>4. CASE SourceClosed
      BY <3>4 DEF SourceClosed, SourceInv
    <3> QED
      BY <2>2, <3>2, <3>3, <3>4 DEF SourceOnly
  <2>3. CASE SourceSetsEof(SelectTask', can_terminate') /\ UNCHANGED <<jobVars, iblk, wblk>>
    BY <2>3 DEF SourceSetsEof, SourceInv, jobVars
  <2> QED
    BY <1>2, <2>1, <2>2, <2>3 DEF Source
<1>3. CASE Sink
  <2>1. UNCHANGED <<sourceVars, eof, next_id>>
    BY <1>3 DEF Sink, OnWriteComplete, SinkOnly, SinkStall, SinkTake, SinkWrite, SinkExit, jobVars, slotVars
  <2> QED
    BY <2>1, SourceStill DEF sourceVars
<1>4. CASE Primary
  <2>1. UNCHANGED <<sourceVars, eof, next_id>>
    BY <1>4 DEF Primary, PrimaryOnly, JoinWorkersAndSource, JoinSink, jobVars, slotVars
  <2> QED
    BY <2>1, SourceStill DEF sourceVars
<1>5. CASE Spurious
  BY <1>5, SourceStill DEF Spurious, SpuriousWakeup, jobVars, slotVars
<1>6. CASE UNCHANGED vars
  BY <1>6, SourceStill DEF vars, procVars, sourceVars, slotVars, jobVars
<1> QED
  BY <1>1, <1>2, <1>3, <1>4, <1>5, <1>6 DEF Next, Over

(***************************************************************************)
(* The output.                                                             *)
(***************************************************************************)
LEMMA EmitsAppend ==
  ASSUME TypeInv, Emits, NEW o \in OutBlk, o.lo = Front1, o.lo < o.hi, o.hi <= file_len,
         combined_crc' = Append(combined_crc, o), file_len' = file_len
  PROVE  Emits' /\ Front1' = o.hi
<1> DEFINE n == Len(combined_crc)
           c == combined_crc
           d == combined_crc'
<1>1. /\ c \in Seq(OutBlk) /\ n \in Nat /\ d \in Seq(OutBlk) /\ Len(d) = n + 1
      /\ d[n + 1] = o /\ \A j \in 1 .. n : d[j] = c[j] /\ c[j] \in OutBlk
  BY DEF TypeInv, TypeOK, QueueTypeOK
<1>2. /\ Front1 = IF n = 0 THEN 0 ELSE c[n].hi
      /\ Front1' = o.hi
  <2>1. c = <<>> <=> n = 0
    BY <1>1
  <2>2. d # <<>>
    BY <1>1
  <2> QED
    BY <1>1, <2>1, <2>2 DEF Front1, Abstract!Covered
<1>3. /\ o.lo \in Nat /\ o.hi \in Nat /\ Front1 \in Nat /\ \A j \in 1 .. n : c[j].lo \in Nat /\ c[j].hi \in Nat
      /\ file_len \in Nat
  BY <1>1, <1>2 DEF OutBlk, TypeInv, TypeOK, SourceTypeOK
<1>4. /\ \A j \in 1 .. n : /\ c[j].lo = IF j = 1 THEN 0 ELSE c[j - 1].hi
                           /\ c[j].lo < c[j].hi /\ c[j].hi <= Front1
      /\ \A i, j \in 1 .. n : i < j => c[i].hi <= c[j].lo
      /\ \A k \in Nat : k < Front1 => \E j \in 1 .. n : c[j].lo <= k /\ k < c[j].hi
  BY DEF Emits
<1> HIDE DEF n, c, d
<1>5. ASSUME NEW j \in 1 .. n + 1
      PROVE  /\ d[j].lo = IF j = 1 THEN 0 ELSE d[j - 1].hi
             /\ d[j].lo < d[j].hi /\ d[j].hi <= o.hi
  <2>1. CASE j \in 1 .. n
    <3>1. d[j] = c[j] /\ (j # 1 => d[j - 1] = c[j - 1])
      BY <1>1, <2>1
    <3> QED
      BY <1>3, <1>4, <2>1, <3>1
  <2>2. CASE j = n + 1
    <3>1. n # 0 => d[n] = c[n]
      BY <1>1
    <3>2. j - 1 = n /\ (j = 1 <=> n = 0)
      BY <1>1, <2>2
    <3> QED
      BY <1>1, <1>2, <1>3, <2>2, <3>1, <3>2
  <2> QED
    BY <1>1, <2>1, <2>2
<1>6. ASSUME NEW i \in 1 .. n + 1, NEW j \in 1 .. n + 1, i < j PROVE d[i].hi <= d[j].lo
  <2>1. i \in 1 .. n /\ d[i] = c[i]
    BY <1>1, <1>6
  <2>2. CASE j \in 1 .. n
    BY <1>1, <1>4, <1>6, <2>1, <2>2
  <2>3. CASE j = n + 1
    BY <1>1, <1>4, <2>1, <2>3
  <2> QED
    BY <1>1, <2>2, <2>3
<1>7. ASSUME NEW k \in Nat, k < o.hi PROVE \E j \in 1 .. n + 1 : d[j].lo <= k /\ k < d[j].hi
  <2>1. CASE k < Front1
    <3>1. PICK j \in 1 .. n : c[j].lo <= k /\ k < c[j].hi
      BY <1>4, <2>1
    <3> QED
      BY <1>1, <3>1
  <2>2. CASE ~ (k < Front1)
    <3>1. d[n + 1].lo <= k /\ k < d[n + 1].hi /\ n + 1 \in 1 .. n + 1
      BY <1>1, <1>3, <1>7, <2>2
    <3> QED
      BY <3>1
  <2> QED
    BY <2>1, <2>2
<1> QED
  BY <1>1, <1>2, <1>5, <1>6, <1>7 DEF Emits, d

LEMMA DoReorderOutput ==
  ASSUME TypeInv, BlocksInv, Emits, OutputInv, NEW w \in Workers, DoReorder(w)
  PROVE  Emits' /\ OutputInv'
<1> DEFINE b == peek(reord_q)
           o == Output(b)
<1>1. /\ b \in WorkBlk /\ Front1 = b.lo /\ b.lo < b.hi /\ b \in WorkBlks
      /\ InFlight(file_len, WorkBlks, Ins, order, Front1, next_id)
  BY ReorderTurn DEF BlocksInv, DataInv
<1>2. /\ combined_crc' = Append(combined_crc, o) /\ output_q' = Append(output_q, o)
      /\ sink' = (IF sink = "stalled" THEN "top" ELSE sink) /\ UNCHANGED <<block, written, file_len>>
  BY DEF DoReorder, SinkWriteBuffer, sourceVars
<1>3. o \in OutBlk /\ o.lo = b.lo /\ o.hi = b.hi
  BY <1>1 DEF Output, OutBlk, WorkBlk
<1> HIDE DEF o
<1>4. b.hi <= file_len
  <2>1. <<b.next, b.hi>> \in Claims(file_len, WorkBlks, Ins, order, Front1, next_id)
    BY <1>1 DEF Claims
  <2>2. <<<<next_id, 0>>, Start(file_len, next_id)>> \in Claims(file_len, WorkBlks, Ins, order, Front1, next_id)
    BY DEF Claims
  <2>3. pos_le(b.next, <<next_id, 0>>) /\ b.hi <= Start(file_len, next_id)
    BY <1>1, <2>1, <2>2 DEF InFlight, Agree
  <2>4. file_len \in Nat /\ next_id \in Nat /\ b.hi \in Nat
    BY <1>1 DEF WorkBlk, TypeInv, TypeOK, SourceTypeOK, QueueTypeOK
  <2>5. Start(file_len, next_id) <= file_len /\ Start(file_len, next_id) \in Nat
    BY <2>4, StartOrder
  <2> QED
    BY <2>3, <2>4, <2>5
<1>5. Emits'
  BY <1>1, <1>2, <1>3, <1>4, EmitsAppend
<1> DEFINE n == Len(combined_crc)
           m == Len(written) + SinkHas
           q == Len(output_q)
<1>6. /\ n \in Nat /\ q \in Nat /\ Len(written) \in Nat /\ m \in Nat /\ SinkHas' = SinkHas /\ n = m + q
      /\ Len(combined_crc') = n + 1 /\ Len(output_q') = q + 1
      /\ combined_crc'[n + 1] = o /\ \A j \in 1 .. n : combined_crc'[j] = combined_crc[j]
      /\ output_q'[q + 1] = o /\ \A j \in 1 .. q : output_q'[j] = output_q[j]
  <2>1. combined_crc \in Seq(OutBlk) /\ output_q \in Seq(OutBlk) /\ written \in Seq(OutBlk)
    BY DEF TypeInv, TypeOK, QueueTypeOK, SinkTypeOK
  <2>2. /\ n \in Nat /\ Len(combined_crc') = n + 1 /\ combined_crc'[n + 1] = o
        /\ \A j \in 1 .. n : combined_crc'[j] = combined_crc[j]
    BY <1>2, <1>3, <2>1
  <2>3. /\ q \in Nat /\ Len(output_q') = q + 1 /\ output_q'[q + 1] = o
        /\ \A j \in 1 .. q : output_q'[j] = output_q[j]
    BY <1>2, <1>3, <2>1
  <2>4. SinkHas \in Nat /\ SinkHas' = SinkHas
    BY <1>2 DEF SinkHas
  <2>5. n = m + q
    BY DEF OutputInv
  <2>6. Len(written) \in Nat /\ m \in Nat
    BY <2>1, <2>4
  <2> QED
    BY <2>2, <2>3, <2>4, <2>5, <2>6
<1>7. /\ \A j \in 1 .. Len(written) : combined_crc'[j] = written'[j]
      /\ sink' = "write" => combined_crc'[Len(written) + 1] = block'
  BY <1>2, <1>6 DEF OutputInv, SinkHas
<1>8. ASSUME NEW j \in 1 .. q + 1 PROVE combined_crc'[m + j] = output_q'[j]
  <2>1. CASE j \in 1 .. q
    <3>1. m + j \in 1 .. n
      BY <1>6, <2>1
    <3> QED
      BY <1>6, <2>1, <3>1 DEF OutputInv
  <2>2. CASE j = q + 1
    BY <1>6, <2>2
  <2> QED
    BY <1>6, <2>1, <2>2
<1>9. OutputInv'
  <2>1. written' = written /\ Len(written') + SinkHas' = m
    BY <1>2, <1>6
  <2>2. Len(combined_crc') = Len(written') + SinkHas' + Len(output_q')
    BY <1>6, <2>1
  <2>3. \A j \in 1 .. Len(output_q') : combined_crc'[Len(written') + SinkHas' + j] = output_q'[j]
    BY <1>6, <1>8, <2>1
  <2> QED
    BY <1>7, <2>1, <2>2, <2>3 DEF OutputInv
<1> QED
  BY <1>5, <1>9

LEMMA EmitsStill ==
  ASSUME Emits, UNCHANGED <<combined_crc, file_len>>
  PROVE  Emits'
  BY DEF Emits, Front1

(* Steps of the others: the sink thread may be woken.                      *)
LEMMA OutputStill ==
  ASSUME OutputInv, UNCHANGED <<combined_crc, written, output_q>>,
         UNCHANGED <<sink, block>> \/ (sink # "write" /\ sink' # "write")
  PROVE  OutputInv'
<1>1. CASE UNCHANGED <<sink, block>>
  BY <1>1 DEF OutputInv, SinkHas
<1>2. CASE sink # "write" /\ sink' # "write"
  BY <1>2 DEF OutputInv, SinkHas
<1> QED
  BY <1>1, <1>2

LEMMA SinkTakeOutput ==
  ASSUME TypeInv, OutputInv, SinkTake, combined_crc' = combined_crc
  PROVE  OutputInv'
<1> DEFINE q == Len(output_q)
           m == Len(written)
<1>1. /\ sink # "write" /\ sink' = "write" /\ block' = Head(output_q) /\ output_q' = Tail(output_q)
      /\ written' = written /\ output_q # <<>>
  BY DEF SinkTake
<1>2. /\ q \in Nat \ {0} /\ m \in Nat /\ Head(output_q) = output_q[1] /\ Len(output_q') = q - 1
      /\ \A j \in 1 .. q - 1 : output_q'[j] = output_q[j + 1]
  BY <1>1 DEF TypeInv, TypeOK, SinkTypeOK
<1>3. /\ Len(combined_crc) = m + 0 + q
      /\ \A j \in 1 .. m : combined_crc[j] = written[j]
      /\ \A j \in 1 .. q : combined_crc[m + 0 + j] = output_q[j]
  BY <1>1 DEF OutputInv, SinkHas
<1>4. SinkHas' = 1
  BY <1>1 DEF SinkHas
<1> HIDE DEF q
<1>5. Len(combined_crc) = m + 1 + (q - 1) /\ combined_crc[m + 1] = output_q[1]
  BY <1>2, <1>3
<1>6. ASSUME NEW j \in 1 .. q - 1 PROVE combined_crc[m + 1 + j] = output_q'[j]
  <2>1. j + 1 \in 1 .. q /\ m + 1 + j = m + 0 + (j + 1)
    BY <1>2
  <2> QED
    BY <1>2, <1>3, <2>1
<1> QED
  BY <1>1, <1>2, <1>3, <1>4, <1>5, <1>6 DEF OutputInv

LEMMA SinkWriteOutput ==
  ASSUME TypeInv, OutputInv, SinkWrite, combined_crc' = combined_crc
  PROVE  OutputInv'
<1> DEFINE q == Len(output_q)
           m == Len(written)
<1>1. /\ sink = "write" /\ sink' = "release" /\ written' = Append(written, block)
      /\ output_q' = output_q /\ block \in OutBlk
  BY DEF SinkWrite, TypeInv, TypeOK, SinkTypeOK, InHand
<1>2. /\ q \in Nat /\ m \in Nat /\ Len(written') = m + 1
      /\ written'[m + 1] = block /\ \A j \in 1 .. m : written'[j] = written[j]
  BY <1>1 DEF TypeInv, TypeOK, SinkTypeOK
<1>3. /\ Len(combined_crc) = m + 1 + q
      /\ \A j \in 1 .. m : combined_crc[j] = written[j]
      /\ combined_crc[m + 1] = block
      /\ \A j \in 1 .. q : combined_crc[m + 1 + j] = output_q[j]
  BY <1>1 DEF OutputInv, SinkHas
<1>4. SinkHas' = 0
  BY <1>1 DEF SinkHas
<1> HIDE DEF q, m
<1>5. \A j \in 1 .. m + 1 : combined_crc[j] = written'[j]
  BY <1>2, <1>3
<1>6. Len(combined_crc) = m + 1 + 0 + q /\ \A j \in 1 .. q : combined_crc[m + 1 + 0 + j] = output_q[j]
  BY <1>2, <1>3
<1> QED
  BY <1>1, <1>2, <1>4, <1>5, <1>6 DEF OutputInv, q

LEMMA NextOutput ==
  TypeInv /\ BlocksInv /\ Emits /\ OutputInv /\ [Next]_vars => Emits' /\ OutputInv'
<1> SUFFICES ASSUME TypeInv, BlocksInv, Emits, OutputInv, [Next]_vars PROVE Emits' /\ OutputInv'
  OBVIOUS
<1>1. ASSUME NEW w \in Workers, Worker(w) PROVE Emits' /\ OutputInv'
  <2>1. CASE DoReorder(w)
    BY <2>1, DoReorderOutput
  <2>2. CASE UNCHANGED <<output_q, sink, combined_crc>>
    BY <1>1, <2>2, WorkerIO, EmitsStill, OutputStill
  <2> QED
    BY <1>1, <2>1, <2>2, WorkerIO
<1>2. CASE Source
  <2>1. UNCHANGED <<sinkVars, combined_crc, file_len>>
    BY <1>2 DEF Source, OnInputAvail, SourceOnly, SourceStall, SourceTakeSlot, SourceClosed, SourceRead,
                SourceSetsEof, jobVars
  <2> QED
    BY <2>1, EmitsStill, OutputStill DEF sinkVars
<1>3. CASE Sink
  <2>1. UNCHANGED <<combined_crc, file_len>>
    BY <1>3 DEF Sink, OnWriteComplete, SinkOnly, SinkStall, SinkTake, SinkWrite, SinkExit, jobVars, sourceVars
  <2>2. CASE SinkTake
    BY <2>1, <2>2, EmitsStill, SinkTakeOutput
  <2>3. CASE SinkWrite
    BY <2>1, <2>3, EmitsStill, SinkWriteOutput
  <2>4. CASE SinkStall \/ SinkExit \/ OnWriteComplete
    BY <2>1, <2>4, EmitsStill, OutputStill DEF SinkStall, SinkExit, OnWriteComplete
  <2> QED
    BY <1>3, <2>2, <2>3, <2>4 DEF Sink, SinkOnly
<1>4. CASE Primary \/ Spurious
  <2>1. UNCHANGED <<combined_crc, file_len, output_q, block, written>>
    BY <1>4 DEF Primary, PrimaryOnly, JoinWorkersAndSource, JoinSink, Spurious, SpuriousWakeup,
                jobVars, sourceVars, sinkVars
  <2>2. sink' = sink \/ (sink = "stalled" /\ sink' = "top")
    BY <1>4 DEF Primary, PrimaryOnly, JoinWorkersAndSource, JoinSink, Spurious, SpuriousWakeup, sinkVars
  <2> QED
    BY <2>1, <2>2, EmitsStill, OutputStill
<1>5. CASE UNCHANGED vars
  BY <1>5, EmitsStill, OutputStill DEF vars, procVars, sourceVars, sinkVars, jobVars
<1> QED
  BY <1>1, <1>2, <1>3, <1>4, <1>5 DEF Next, Over

(***************************************************************************)
(* The end of the job.                                                     *)
(***************************************************************************)
(* When a worker finds the job finished, nobody holds anything.            *)
Quiet ==
  /\ coll_q = <<>> /\ trans_q = <<>> /\ reord_q = <<>> /\ output_q = <<>>
  /\ unfinished_work = NULL /\ block = NULL
  /\ \A w \in Workers : /\ iblk[w] = NULL /\ wblk[w] = NULL
                        /\ pc[w] \in {"enter", "waiting", "loop", "done"}

LEMMA AllQuiet ==
  ASSUME TypeInv, WorkUnitsConserved, OutSlotsConserved, can_terminate
  PROVE  Quiet
<1> DEFINE H == Cardinality(Holding(wblk))
           T == Cardinality(At({"transmit"}))
<1>1. IsFiniteSet(Holding(wblk)) /\ IsFiniteSet(At({"transmit"}))
  BY ProcessAssumption, FS_Subset DEF Holding, At
<1>2. H \in Nat /\ T \in Nat /\ (H = 0 <=> Holding(wblk) = {})
  BY <1>1, FS_CardinalityType, FS_EmptySet
<1>3. /\ Len(trans_q) \in Nat /\ Len(reord_q) \in Nat /\ Len(output_q) \in Nat
      /\ trans_q = <<>> <=> Len(trans_q) = 0
      /\ reord_q = <<>> <=> Len(reord_q) = 0
      /\ output_q = <<>> <=> Len(output_q) = 0
  BY DEF TypeInv, TypeOK, QueueTypeOK, SinkTypeOK
<1>4. num_worker \in Nat /\ TotalOutSlots \in Nat
  BY ProcessAssumption, FS_CardinalityType DEF num_worker
<1>5. /\ num_worker + H + Len(trans_q) + UnitsUnfinished = num_worker
      /\ TotalOutSlots + T + Len(reord_q) + SlotsInSink = TotalOutSlots
  BY DEF can_terminate, WorkUnitsConserved, OutSlotsConserved, AllWorkUnits, AllOutSlots
<1> HIDE DEF H, T
<1>6. UnitsUnfinished \in Nat /\ (UnitsUnfinished = 0 <=> unfinished_work = NULL)
  BY DEF UnitsUnfinished
<1>7. SlotsInSink \in Nat /\ (SlotsInSink = 0 => Len(output_q) = 0 /\ block = NULL)
  BY <1>3 DEF SlotsInSink
<1>8. H = 0 /\ Len(trans_q) = 0 /\ UnitsUnfinished = 0
  BY <1>2, <1>3, <1>4, <1>5, <1>6
<1>9. Len(reord_q) = 0 /\ SlotsInSink = 0
  BY <1>2, <1>3, <1>4, <1>5, <1>7
<1>10. \A w \in Workers : wblk[w] = NULL
  BY <1>2, <1>8 DEF Holding
<1>11. ASSUME NEW w \in Workers
       PROVE  iblk[w] = NULL /\ pc[w] \in {"enter", "waiting", "loop", "done"}
  <2>1. pc[w] \notin HoldsWorkBlk /\ pc[w] \in WorkerStates
    BY <1>10, BlockTypes DEF TypeInv, InHand
  <2>2. iblk[w] = NULL
    BY <2>1 DEF TypeInv, InHand, HoldsInBlk, HoldsWorkBlk
  <2> QED
    BY <2>1, <2>2 DEF HoldsWorkBlk, WorkerStates
<1> QED
  BY <1>3, <1>6, <1>7, <1>8, <1>9, <1>10, <1>11 DEF Quiet, can_terminate

(* What is known of the end of the job when a step begins.                 *)
Known == TypeInv /\ WorkUnitsConserved /\ OutSlotsConserved /\ SourceInv

(* From then on the workers only leave.                                    *)
LEMMA QuietWorker ==
  ASSUME Known, can_terminate, NEW w \in Workers, Worker(w)
  PROVE  /\ WorkerEnter(w) \/ WorkerWait(w, can_terminate) \/ WorkerExit(w, can_terminate)
         /\ UNCHANGED <<jobVars, iblk, wblk>>
<1>1. Quiet
  BY AllQuiet DEF Known
<1>2. pc[w] \in {"enter", "waiting", "loop", "done"}
  BY <1>1 DEF Quiet
<1>3. next_task = NoTask
  BY <1>1 DEF Known, TypeInv, NextTaskFresh, SelectTask, can_collect_seq, can_reorder, can_transmit,
              can_collect, Quiet
<1>4. ~ DoCollect(w) /\ ~ DoCollectSeq(w) /\ ~ DoTransmit(w) /\ ~ DoReorder(w)
  BY <1>3 DEF DoCollect, DoCollectSeq, DoTransmit, DoReorder, AtTask, NoTask
<1>5. /\ ~ CollectPart(w) /\ ~ CollectAll(w) /\ ~ CollectSeqPart(w) /\ ~ CollectSeqAll(w)
      /\ ~ KeepUnfinished(w) /\ ~ PassToken(w) /\ ~ Encoded(w) /\ ~ Transmitted(w)
  BY <1>2 DEF CollectPart, CollectAll, CollectSeqPart, CollectSeqAll, KeepUnfinished, PassToken,
              Encoded, Transmitted
<1> QED
  BY <1>4, <1>5 DEF Worker

LEMMA QuietStep ==
  ASSUME Known, can_terminate, [Next]_vars
  PROVE  can_terminate'
<1>1. Quiet /\ eof /\ source = "done"
  BY AllQuiet DEF Known, can_terminate, SourceInv
<1>2. ASSUME UNCHANGED <<coll_q, eof, work_units, out_slots>> PROVE can_terminate'
  BY <1>2 DEF can_terminate
<1>3. ASSUME NEW w \in Workers, Worker(w) PROVE can_terminate'
  <2>1. /\ WorkerEnter(w) \/ WorkerWait(w, can_terminate) \/ WorkerExit(w, can_terminate)
        /\ UNCHANGED <<jobVars, iblk, wblk>>
    BY <1>3, QuietWorker
  <2>2. UNCHANGED <<coll_q, eof, work_units, out_slots>>
    BY <2>1 DEF WorkerEnter, WorkerWait, WorkerExit, slotVars, jobVars
  <2> QED
    BY <1>2, <2>2
<1>4. ~ Source
  BY <1>1 DEF Source, OnInputAvail, SourceOnly, SourceStall, SourceTakeSlot, SourceClosed, SourceRead,
              SourceSetsEof
<1>5. CASE Sink
  <2>1. sink # "release"
    BY <1>1 DEF Known, TypeInv, InHand, Quiet
  <2>2. SinkOnly /\ UNCHANGED jobVars
    BY <1>5, <2>1 DEF Sink, OnWriteComplete
  <2>3. UNCHANGED <<coll_q, eof, work_units, out_slots>>
    BY <2>2 DEF SinkOnly, SinkStall, SinkTake, SinkWrite, SinkExit, jobVars, slotVars
  <2> QED
    BY <1>2, <2>3
<1>6. CASE Primary \/ Spurious \/ UNCHANGED vars
  <2>1. UNCHANGED <<coll_q, eof, work_units, out_slots>>
    BY <1>6 DEF Primary, PrimaryOnly, JoinWorkersAndSource, JoinSink, Spurious, SpuriousWakeup, vars,
                procVars, jobVars, slotVars
  <2> QED
    BY <1>2, <2>1
<1> QED
  BY <1>3, <1>4, <1>5, <1>6 DEF Next, Over

(* No one wakes who has left, and only a worker that finds the job         *)
(* finished leaves.                                                        *)
LEMMA DoneStep ==
  ASSUME TypeInv, [Next]_vars, NEW v \in Workers
  PROVE  /\ pc[v] = "done" => pc'[v] = "done"
         /\ pc'[v] = "done" => pc[v] = "done" \/ can_terminate
<1>0. pc \in [Workers -> WorkerStates]
  BY BlockTypes
<1>1. ASSUME NEW w \in Workers, NEW s \in WorkerStates \ {"done"}, pc[w] # "done",
             Moves(w, s) \/ pc' = [pc EXCEPT ![w] = s]
      PROVE  pc[v] = "done" <=> pc'[v] = "done"
  BY <1>0, <1>1 DEF Moves
<1>2. ASSUME Unlock(pc) PROVE pc[v] = "done" <=> pc'[v] = "done"
  BY <1>0, <1>2, UnlockEffect
<1>3. ASSUME NEW w \in Workers, Worker(w)
      PROVE  /\ pc[v] = "done" => pc'[v] = "done"
             /\ pc'[v] = "done" => pc[v] = "done" \/ can_terminate
  <2>1. CASE DoCollect(w)
    <3>1. Moves(w, "collect") /\ pc[w] # "done"
      BY <2>1, UnlockMoves DEF DoCollect, AtTask, WorkerStates
    <3> QED
      BY <1>1, <3>1 DEF WorkerStates
  <2>2. CASE CollectPart(w) \/ PassToken(w)
    <3>1. Moves(w, "encode") /\ pc[w] # "done"
      BY <2>2, UnlockMoves DEF CollectPart, PassToken, WorkerStates
    <3> QED
      BY <1>1, <3>1 DEF WorkerStates
  <2>3. CASE CollectAll(w) \/ CollectSeqAll(w)
    <3>1. /\ pc[w] # "done"
          /\ \E s \in {"encode", "full", "unfinished"} : pc' = [pc EXCEPT ![w] = s]
      BY <2>3 DEF CollectAll, CollectSeqAll, TakeAll
    <3> QED
      BY <1>1, <3>1 DEF WorkerStates
  <2>4. CASE DoCollectSeq(w)
    <3> DEFINE s == IF coll_q # <<>> THEN "collect_seq" ELSE "full"
    <3>1. pc[w] # "done" /\ Unlock([pc EXCEPT ![w] = s]) /\ s \in WorkerStates \ {"waiting", "done"}
      BY <2>4 DEF DoCollectSeq, AtTask, WorkerStates
    <3> HIDE DEF s
    <3>2. Moves(w, s)
      BY <3>1, UnlockMoves
    <3> QED
      BY <1>1, <3>1, <3>2
  <2>5. CASE CollectSeqPart(w)
    <3>1. Moves(w, "full") /\ pc[w] # "done"
      BY <2>5, UnlockMoves DEF CollectSeqPart, WorkerStates
    <3> QED
      BY <1>1, <3>1 DEF WorkerStates
  <2>6. CASE KeepUnfinished(w) \/ Encoded(w) \/ Transmitted(w)
    <3>1. Moves(w, "loop") /\ pc[w] # "done"
      BY <2>6, ReturnMoves DEF KeepUnfinished, Encoded, Transmitted
    <3> QED
      BY <1>1, <3>1 DEF WorkerStates
  <2>7. CASE DoTransmit(w)
    <3>1. Moves(w, "transmit") /\ pc[w] # "done"
      BY <2>7, UnlockMoves DEF DoTransmit, AtTask, WorkerStates
    <3> QED
      BY <1>1, <3>1 DEF WorkerStates
  <2>8. CASE DoReorder(w)
    BY <2>8 DEF DoReorder
  <2>9. CASE WorkerEnter(w) \/ WorkerWait(w, can_terminate)
    BY <1>0, <2>9 DEF WorkerEnter, WorkerWait, AtTask
  <2>10. CASE WorkerExit(w, can_terminate)
    BY <1>0, <2>10 DEF WorkerExit, AtTask
  <2> QED
    BY <1>3, <2>1, <2>2, <2>3, <2>4, <2>5, <2>6, <2>7, <2>8, <2>9, <2>10 DEF Worker
<1>4. CASE Source
  BY <1>2, <1>4 DEF Source, OnInputAvail, SourceOnly, SourceStall, SourceTakeSlot, SourceClosed,
                    SourceRead, SourceSetsEof, Unlock, schedVars
<1>5. CASE Sink
  BY <1>2, <1>5 DEF Sink, OnWriteComplete, SinkOnly, SinkStall, SinkTake, SinkWrite, SinkExit, schedVars
<1>6. CASE Primary
  BY <1>6 DEF Primary, PrimaryOnly, JoinWorkersAndSource, JoinSink, schedVars
<1>7. CASE Spurious
  BY <1>0, <1>7 DEF Spurious, SpuriousWakeup, Waiting
<1>8. CASE UNCHANGED vars
  BY <1>8 DEF vars, procVars, schedVars
<1> QED
  BY <1>3, <1>4, <1>5, <1>6, <1>7, <1>8 DEF Next, Over

(* What the primary thread and the sink thread do at the end.              *)
LEMMA EndMoves ==
  ASSUME [Next]_vars, \A w \in Workers : ~ DoReorder(w)
  PROVE  /\ output_q' = output_q \/ SinkTake
         /\ UNCHANGED <<finish, shutdown>> \/ JoinWorkersAndSource
              \/ (finish' = finish /\ sink' = sink /\ sink = "done" /\ shutdown' = "done")
         /\ sink' = "done" => sink = "done" \/ SinkExit
         /\ sink = "done" => sink' = "done"
<1>1. ASSUME NEW w \in Workers, Worker(w)
      PROVE  UNCHANGED <<output_q, sink, finish, shutdown>>
  BY <1>1, WorkerIO
<1>2. CASE Source
  <2>1. UNCHANGED <<sinkVars, shutdown>>
    BY <1>2 DEF Source, OnInputAvail, SourceOnly, SourceStall, SourceTakeSlot, SourceClosed, SourceRead,
                SourceSetsEof
  <2> QED
    BY <2>1 DEF sinkVars
<1>3. CASE Sink
  BY <1>3 DEF Sink, OnWriteComplete, SinkOnly, SinkStall, SinkTake, SinkWrite, SinkExit
<1>4. CASE Primary
  BY <1>4 DEF Primary, PrimaryOnly, JoinWorkersAndSource, JoinSink, sinkVars
<1>5. CASE Spurious
  BY <1>5 DEF Spurious, SpuriousWakeup
<1>6. CASE UNCHANGED vars
  BY <1>6 DEF vars, procVars, sinkVars
<1> QED
  BY <1>1, <1>2, <1>3, <1>4, <1>5, <1>6 DEF Next, Over

LEMMA NextEnd == Known /\ EndInv /\ [Next]_vars => EndInv'
<1> SUFFICES ASSUME Known, EndInv, [Next]_vars PROVE EndInv'
  OBVIOUS
<1> USE DEF Known
<1>1. can_terminate => can_terminate'
  BY QuietStep
<1>2. \A v \in Workers : pc'[v] = "done" => can_terminate'
  BY <1>1, DoneStep DEF EndInv
<1>3. (\A v \in Workers : pc[v] = "done") => \A v \in Workers : pc'[v] = "done"
  BY DoneStep
<1>4. CASE \E w \in Workers : DoReorder(w)
  <2>1. PICK w \in Workers : DoReorder(w)
    BY <1>4
  <2>2. pc[w] # "done" /\ UNCHANGED <<finish, shutdown>> /\ sink' = (IF sink = "stalled" THEN "top" ELSE sink)
    BY <2>1 DEF DoReorder, AtTask, SinkWriteBuffer
  <2>3. shutdown = "running" /\ ~ finish /\ sink # "done"
    BY <2>2 DEF EndInv, TypeInv, TypeOK, MonitorTypeOK
  <2> QED
    BY <1>2, <2>2, <2>3 DEF EndInv
<1>5. CASE \A w \in Workers : ~ DoReorder(w)
  <2>1. shutdown' # "running" => \A w \in Workers : pc'[w] = "done"
    BY <1>3, <1>5, EndMoves DEF EndInv, JoinWorkersAndSource
  <2>2. finish' => shutdown' # "running"
    BY <1>5, EndMoves DEF EndInv, JoinWorkersAndSource
  <2>3. sink' = "done" => finish' /\ output_q' = <<>>
    BY <1>5, EndMoves DEF EndInv, JoinWorkersAndSource, SinkExit, SinkTake
  <2>4. shutdown' = "done" => sink' = "done"
    BY <1>5, EndMoves DEF EndInv, JoinWorkersAndSource
  <2> QED
    BY <1>2, <2>1, <2>2, <2>3, <2>4 DEF EndInv
<1> QED
  BY <1>4, <1>5

(* While the token is away, somebody has it.                               *)
TokenHeld == collect_token \/ \E w \in Workers : pc[w] \in Collector

LEMMA NextTokenHeld == TypeInv /\ TokenHeld /\ [Next]_vars => TokenHeld'
<1> SUFFICES ASSUME TypeInv, TokenHeld, [Next]_vars PROVE TokenHeld'
  OBVIOUS
<1>0. pc \in [Workers -> WorkerStates]
  BY BlockTypes
<1>1. ASSUME collect_token' = collect_token, \A v \in Workers : pc[v] \in Collector => pc'[v] \in Collector
      PROVE  TokenHeld'
  BY <1>1 DEF TokenHeld
<1>2. ASSUME NEW w \in Workers, NEW s, collect_token' = collect_token, Moves(w, s), pc[w] \notin Collector
      PROVE  TokenHeld'
  BY <1>1, <1>2 DEF Moves, Collector
<1>3. ASSUME NEW w \in Workers, NEW s \in Collector, Moves(w, s) PROVE TokenHeld'
  BY <1>3 DEF TokenHeld, Moves
<1>4. ASSUME NEW w \in Workers, Worker(w) PROVE TokenHeld'
  <2>1. CASE DoCollect(w)
    <3>1. Moves(w, "collect") /\ pc[w] \notin Collector /\ collect_token' = collect_token
      BY <2>1, UnlockMoves DEF DoCollect, AtTask, WorkerStates, Collector
    <3> QED
      BY <1>2, <3>1
  <2>2. CASE CollectPart(w)
    <3>1. Moves(w, "encode") /\ pc[w] \notin Collector /\ collect_token' = collect_token
      BY <2>2, UnlockMoves DEF CollectPart, TakePart, WorkerStates, Collector
    <3> QED
      BY <1>2, <3>1
  <2>3. CASE CollectAll(w)
    <3>1. Moves(w, "encode") /\ pc[w] \notin Collector /\ collect_token' = collect_token
      BY <1>0, <2>3 DEF CollectAll, TakeAll, Moves, Collector, jobVars
    <3> QED
      BY <1>2, <3>1
  <2>4. CASE DoCollectSeq(w)
    <3> DEFINE s == IF coll_q # <<>> THEN "collect_seq" ELSE "full"
    <3>1. Unlock([pc EXCEPT ![w] = s]) /\ s \in WorkerStates \ {"waiting"} /\ s \in Collector
      BY <2>4 DEF DoCollectSeq, AtTask, WorkerStates, Collector
    <3> HIDE DEF s
    <3>2. Moves(w, s)
      BY <3>1, UnlockMoves
    <3> QED
      BY <1>3, <3>1, <3>2
  <2>5. CASE CollectSeqPart(w)
    <3>1. Moves(w, "full")
      BY <2>5, UnlockMoves DEF CollectSeqPart, WorkerStates
    <3> QED
      BY <1>3, <3>1 DEF Collector
  <2>6. CASE CollectSeqAll(w)
    <3>1. Moves(w, "full") \/ Moves(w, "unfinished")
      BY <1>0, <2>6 DEF CollectSeqAll, TakeAll, Moves
    <3> QED
      BY <1>3, <3>1 DEF Collector
  <2>7. CASE KeepUnfinished(w) \/ PassToken(w)
    BY <2>7 DEF KeepUnfinished, PassToken, TokenHeld
  <2>8. CASE Encoded(w) \/ Transmitted(w)
    <3>1. Moves(w, "loop") /\ pc[w] \notin Collector /\ collect_token' = collect_token
      BY <2>8, ReturnMoves DEF Encoded, Transmitted, Collector
    <3> QED
      BY <1>2, <3>1
  <2>9. CASE DoTransmit(w)
    <3>1. Moves(w, "transmit") /\ pc[w] \notin Collector /\ collect_token' = collect_token
      BY <2>9, UnlockMoves DEF DoTransmit, AtTask, WorkerStates, Collector
    <3> QED
      BY <1>2, <3>1
  <2>10. CASE DoReorder(w)
    BY <1>1, <2>10 DEF DoReorder
  <2>11. CASE /\ WorkerEnter(w) \/ WorkerWait(w, can_terminate) \/ WorkerExit(w, can_terminate)
              /\ UNCHANGED <<jobVars, iblk, wblk>>
    <3>1. collect_token' = collect_token
      BY <2>11 DEF jobVars
    <3>2. \A v \in Workers : pc[v] \in Collector => pc'[v] \in Collector
      BY <1>0, <2>11 DEF WorkerEnter, WorkerWait, WorkerExit, AtTask, Collector
    <3> QED
      BY <1>1, <3>1, <3>2
  <2> QED
    BY <1>4, <2>1, <2>2, <2>3, <2>4, <2>5, <2>6, <2>7, <2>8, <2>9, <2>10, <2>11 DEF Worker
<1>5. ASSUME Unlock(pc), collect_token' = collect_token PROVE TokenHeld'
  <2>1. \A v \in Workers : pc'[v] = pc[v] \/ pc[v] = "waiting"
    BY <1>0, <1>5, UnlockEffect
  <2> QED
    BY <1>1, <1>5, <2>1 DEF Collector
<1>6. CASE Source
  BY <1>1, <1>5, <1>6 DEF Source, OnInputAvail, SourceOnly, SourceStall, SourceTakeSlot, SourceClosed,
                          SourceRead, SourceSetsEof, Unlock, schedVars, jobVars
<1>7. CASE Sink
  BY <1>1, <1>5, <1>7 DEF Sink, OnWriteComplete, SinkOnly, SinkStall, SinkTake, SinkWrite, SinkExit,
                          schedVars, jobVars
<1>8. CASE Primary
  BY <1>1, <1>8 DEF Primary, PrimaryOnly, JoinWorkersAndSource, JoinSink, schedVars, jobVars
<1>9. CASE Spurious
  BY <1>0, <1>1, <1>9 DEF Spurious, SpuriousWakeup, Waiting, Collector, jobVars
<1>10. CASE UNCHANGED vars
  BY <1>1, <1>10 DEF vars, procVars, schedVars, jobVars
<1> QED
  BY <1>4, <1>6, <1>7, <1>8, <1>9, <1>10 DEF Next, Over

(***************************************************************************)
(* All of it together.                                                     *)
(***************************************************************************)
LEMMA InitOrder == Init => OrderInv /\ TokenHeld
<1> SUFFICES ASSUME Init PROVE OrderInv /\ TokenHeld
  OBVIOUS
<1> USE ProcessAssumption DEF Init, ProcessInit
<1>1. WorkBlks = {} /\ Ins = {} /\ Front1 = 0 /\ Hands(iblk) = {} /\ Hands(wblk) = {}
  <2>1. \A q : ToSet(<<>>) = {}
    BY DEF ToSet
  <2>2. Hands(iblk) = {} /\ Hands(wblk) = {}
    BY DEF Hands, Holding
  <2> QED
    BY <2>1, <2>2, WorkBlksAre, InsAre DEF Front1, Abstract!Covered
<1>2. file_len \in Nat /\ Start(file_len, 0) = 0 /\ 0 * InGranul = 0
  BY StartOrder
<1>3. InFlight(file_len, {}, {}, <<0, 0>>, 0, 0)
  <2> DEFINE K == Claims(file_len, {}, {}, <<0, 0>>, 0, 0)
  <2>1. K = {<<<<0, 0>>, 0>>}
    BY <1>2 DEF Claims
  <2>2. InFlightType(file_len, {}, {}, <<0, 0>>, 0, 0)
    BY <1>2 DEF InFlightType, Position
  <2>3. Agree(file_len, K, 0)
    BY <1>2, <2>1 DEF Agree, pos_le, pos_lt
  <2>4. Rests(file_len, {}, 0) /\ Latest({}, K) /\ Filled({}, {}) /\ Apart({}, {}) /\ NotBehind({}, {}, <<0, 0>>)
    BY DEF Rests, Latest, Filled, Apart, NotBehind
  <2>5. Linked({}, {}, <<0, 0>>, 0) /\ Held(file_len, {}, {}, 0, 0)
    BY <1>2 DEF Linked, Reached, Held
  <2> QED
    BY <2>2, <2>3, <2>4, <2>5 DEF InFlight
<1>4. DataInv
  BY <1>1, <1>3 DEF DataInv
<1>5. PlaceInv
  <2>1. Sorted(coll_q) /\ Sorted(trans_q) /\ Sorted(reord_q)
    BY DEF Sorted
  <2>2. Distinct(iblk) /\ Distinct(wblk)
    BY DEF Distinct, Holding
  <2>3. ToSet(coll_q) = {} /\ ToSet(trans_q) = {} /\ ToSet(reord_q) = {}
    BY DEF ToSet
  <2> QED
    BY <1>1, <2>1, <2>2, <2>3 DEF PlaceInv
<1>6. EncoderInv
  <2>1. ToSet(trans_q) = {} /\ ToSet(reord_q) = {}
    BY DEF ToSet
  <2> QED
    BY <2>1 DEF EncoderInv, HoldsInBlk, FilledStates
<1>7. UltraInv
  BY <1>1 DEF UltraInv, At
<1>8. SourceInv
  BY <1>2 DEF SourceInv
<1>9. Emits /\ OutputInv
  BY <1>1, <1>2 DEF Emits, OutputInv, SinkHas
<1>10. EndInv
  BY DEF EndInv
<1> QED
  BY <1>4, <1>5, <1>6, <1>7, <1>8, <1>9, <1>10 DEF OrderInv, BlocksInv, TokenHeld

Inv == Known /\ OutSlotsConserved /\ InSlotsConserved /\ TokenInv /\ TokenHeld /\ OrderInv

LEMMA Safe == Spec => []Inv
<1> DEFINE Counts == WorkUnitsConserved /\ OutSlotsConserved /\ InSlotsConserved
           Types == TypeInv /\ TokenInv
<1>1. Spec => []Counts
  BY WorkUnits, OutSlots, InSlots, PTL
<1>2. Init => OrderInv /\ TokenHeld
  BY InitOrder
<1>3. Types /\ Counts /\ OrderInv /\ TokenHeld /\ [Next]_vars => (OrderInv /\ TokenHeld)'
  BY NextBlocks, NextSource, NextOutput, NextEnd, NextTokenHeld DEF OrderInv, Known
<1>4. Types /\ Counts /\ OrderInv /\ TokenHeld => Inv
  BY DEF Inv, Known, OrderInv
<1>5. Spec => []Types
  BY TokenSafe, PTL
<1> HIDE DEF Counts, Types
<1> QED
  BY <1>1, <1>2, <1>3, <1>4, <1>5, PTL DEF Spec

(***************************************************************************)
(* What follows.                                                           *)
(***************************************************************************)
(* When the sink thread has left, all has been written.                    *)
LEMMA AllWritten ==
  ASSUME Inv, sink = "done"
  PROVE  /\ Quiet /\ can_terminate /\ \A w \in Workers : pc[w] = "done"
         /\ combined_crc = written /\ Front1 = file_len /\ source = "done"
<1> USE DEF Inv, OrderInv
<1>1. finish /\ output_q = <<>> /\ shutdown # "running" /\ \A w \in Workers : pc[w] = "done"
  BY DEF EndInv
<1>2. can_terminate
  BY <1>1, CompressionAssumption DEF EndInv
<1>3. Quiet
  BY <1>2, AllQuiet DEF Known
<1>4. source = "done" /\ Start(file_len, next_id) = file_len
  BY <1>2 DEF can_terminate, SourceInv
<1>5. WorkBlks = {} /\ Ins = {}
  <2>1. ToSet(coll_q) = {} /\ ToSet(trans_q) = {} /\ ToSet(reord_q) = {}
    BY <1>3 DEF Quiet, ToSet
  <2>2. Hands(iblk) = {} /\ Hands(wblk) = {}
    BY <1>3 DEF Quiet, Hands, Holding
  <2> QED
    BY <1>3, <2>1, <2>2, WorkBlksAre, InsAre DEF Quiet
<1>6. Front1 = file_len
  <2>1. InFlight(file_len, {}, {}, order, Front1, next_id)
    BY <1>5 DEF BlocksInv, DataInv
  <2> QED
    BY <1>4, <2>1, Empty
<1>7. combined_crc = written
  <2>1. combined_crc \in Seq(OutBlk) /\ written \in Seq(OutBlk)
    BY DEF Known, TypeInv, TypeOK, QueueTypeOK, SinkTypeOK
  <2>2. Len(combined_crc) = Len(written) /\ \A j \in 1 .. Len(written) : combined_crc[j] = written[j]
    BY <1>1, <2>1 DEF OutputInv, SinkHas
  <2> QED
    BY <2>1, <2>2
<1> QED
  BY <1>1, <1>2, <1>3, <1>4, <1>6, <1>7

(* The sink thread writes the blocks it is given in the order in which     *)
(* their checksums were combined, which is that of the input, and the      *)
(* trailer is written when the blocks cover the input: the compressor      *)
(* implements OrderedOutput, for any number of workers and of slots, any   *)
(* length of input and both ways of collecting.                            *)
THEOREM Ordered == Spec => ImplementsOrderedOutput
<1>1. Init => Abstract!Init
  BY ProcessAssumption DEF Init, ProcessInit, Abstract!Init, trailer
<1>2. Inv /\ Inv' /\ [Next]_vars => [Abstract!Next]_(Abstract!vars)
  <2> SUFFICES ASSUME Inv, Inv', [Next]_vars PROVE [Abstract!Next]_(Abstract!vars)
    OBVIOUS
  <2>1. ASSUME UNCHANGED <<file_len, written, trailer>> PROVE [Abstract!Next]_(Abstract!vars)
    BY <2>1 DEF Abstract!vars
  <2>2. CASE SinkWrite /\ UNCHANGED jobVars
    <3> DEFINE m == Len(written)
    <3>1. /\ sink = "write" /\ written' = Append(written, block) /\ UNCHANGED <<file_len, shutdown>>
          /\ combined_crc' = combined_crc
      BY <2>2 DEF SinkWrite, sourceVars, jobVars
    <3>2. shutdown # "done" /\ trailer = NULL /\ trailer' = NULL
      BY <3>1 DEF Inv, OrderInv, EndInv, trailer
    <3>3. /\ written \in Seq(OutBlk) /\ m \in Nat /\ combined_crc \in Seq(OutBlk)
          /\ block \in OutBlk /\ Len(output_q) \in Nat
      BY <3>1 DEF Inv, Known, TypeInv, TypeOK, QueueTypeOK, SinkTypeOK, InHand
    <3>4. /\ m + 1 \in 1 .. Len(combined_crc) /\ block = combined_crc[m + 1]
          /\ \A j \in 1 .. m : combined_crc[j] = written[j]
      BY <3>1, <3>3 DEF Inv, OrderInv, OutputInv, SinkHas
    <3>5. block.lo = (IF m + 1 = 1 THEN 0 ELSE combined_crc[m].hi) /\ block.lo < block.hi /\ block.hi <= file_len
      <4>1. (m + 1) - 1 = m
        BY <3>3
      <4>2. /\ combined_crc[m + 1].hi <= Front1 /\ Front1 <= file_len
            /\ combined_crc[m + 1].lo < combined_crc[m + 1].hi
            /\ combined_crc[m + 1].lo = IF m + 1 = 1 THEN 0 ELSE combined_crc[(m + 1) - 1].hi
        BY <3>4 DEF Inv, OrderInv, Emits
      <4>3. Front1 \in Nat /\ file_len \in Nat /\ block.hi \in Nat
        BY <3>3 DEF Inv, OrderInv, BlocksInv, DataInv, InFlight, InFlightType, OutBlk
      <4> QED
        BY <3>4, <4>1, <4>2, <4>3
    <3>6. Abstract!Covered(written) = block.lo
      <4>1. written = <<>> <=> m = 0
        BY <3>3
      <4>2. m # 0 => m \in 1 .. m /\ written[m] = combined_crc[m]
        BY <3>3, <3>4
      <4> QED
        BY <3>3, <3>5, <4>1, <4>2 DEF Abstract!Covered
    <3>7. /\ block = [lo |-> block.lo, hi |-> block.hi] /\ block.lo \in Nat /\ block.hi \in Nat
          /\ file_len \in Nat
      BY <3>3 DEF OutBlk, Inv, Known, TypeInv, TypeOK, SourceTypeOK
    <3>8. block.hi \in Abstract!Covered(written) + 1 .. file_len
      BY <3>5, <3>6, <3>7
    <3>9. written' = Append(written, [lo |-> Abstract!Covered(written), hi |-> block.hi])
      BY <3>1, <3>6, <3>7
    <3>10. Abstract!Emit
      BY <3>1, <3>2, <3>8, <3>9 DEF Abstract!Emit
    <3> QED
      BY <3>10 DEF Abstract!Next
  <2>3. CASE JoinSink /\ UNCHANGED jobVars
    <3>1. /\ sink = "done" /\ shutdown # "done" /\ shutdown' = "done"
          /\ UNCHANGED <<file_len, written, combined_crc>>
      BY <2>3 DEF JoinSink, sourceVars, sinkVars, jobVars
    <3>2. combined_crc = written /\ Front1 = file_len
      BY <3>1, AllWritten
    <3>3. trailer = NULL /\ trailer' = written /\ Abstract!Covered(written) = file_len
      BY <3>1, <3>2 DEF trailer, Front1
    <3>4. Abstract!Close
      BY <3>1, <3>3 DEF Abstract!Close
    <3> QED
      BY <3>4 DEF Abstract!Next
  <2>4. ASSUME UNCHANGED <<file_len, written, shutdown>>, shutdown # "done" \/ combined_crc' = combined_crc
        PROVE  [Abstract!Next]_(Abstract!vars)
    BY <2>1, <2>4 DEF trailer
  <2>5. ASSUME NEW w \in Workers, Worker(w) PROVE [Abstract!Next]_(Abstract!vars)
    <3>1. UNCHANGED <<file_len, written, shutdown>> /\ (DoReorder(w) \/ combined_crc' = combined_crc)
      BY <2>5, WorkerIO
    <3>2. DoReorder(w) => shutdown # "done"
      BY DEF DoReorder, AtTask, Inv, OrderInv, EndInv
    <3> QED
      BY <2>4, <3>1, <3>2
  <2>6. CASE Source
    <3>1. UNCHANGED <<file_len, written, shutdown, combined_crc>>
      BY <2>6 DEF Source, OnInputAvail, SourceOnly, SourceStall, SourceTakeSlot, SourceClosed, SourceRead,
                  SourceSetsEof, sinkVars, jobVars
    <3> QED
      BY <2>4, <3>1
  <2>7. CASE Sink
    <3>1. CASE SinkWrite /\ UNCHANGED <<jobVars, iblk, wblk>>
      BY <2>2, <3>1
    <3>2. CASE (SinkStall \/ SinkTake \/ SinkExit) /\ UNCHANGED <<jobVars, iblk, wblk>>
      <4>1. UNCHANGED <<file_len, written, shutdown, combined_crc>>
        BY <3>2 DEF SinkStall, SinkTake, SinkExit, sourceVars, jobVars
      <4> QED
        BY <2>4, <4>1
    <3>3. CASE OnWriteComplete
      <4>1. UNCHANGED <<file_len, written, shutdown, combined_crc>>
        BY <3>3 DEF OnWriteComplete, sourceVars, jobVars
      <4> QED
        BY <2>4, <4>1
    <3> QED
      BY <2>7, <3>1, <3>2, <3>3 DEF Sink, SinkOnly
  <2>8. CASE Primary
    <3>1. CASE JoinWorkersAndSource /\ UNCHANGED <<jobVars, iblk, wblk>>
      <4>1. UNCHANGED <<file_len, written>> /\ shutdown # "done" /\ shutdown' # "done"
        BY <3>1 DEF JoinWorkersAndSource, sourceVars
      <4> QED
        BY <2>1, <4>1 DEF trailer
    <3> QED
      BY <2>3, <2>8, <3>1 DEF Primary, PrimaryOnly
  <2>9. CASE Spurious \/ UNCHANGED vars
    <3>1. UNCHANGED <<file_len, written, shutdown, combined_crc>>
      BY <2>9 DEF Spurious, SpuriousWakeup, vars, procVars, sourceVars, sinkVars, jobVars
    <3> QED
      BY <2>4, <3>1
  <2> QED
    BY <2>5, <2>6, <2>7, <2>8, <2>9 DEF Next, Over
<1> QED
  BY <1>1, <1>2, Safe, PTL DEF Spec, ImplementsOrderedOutput

(* When the job is over nothing is left in a queue, every slot and unit is *)
(* back, and the collect token is where the next file expects it.          *)
THEOREM EndsClean == Spec => []AtExitClean
<1>1. Inv => AtExitClean
  <2> SUFFICES ASSUME Inv, shutdown = "done"
               PROVE  /\ eof /\ in_slots = TotalInSlots
                      /\ out_slots = TotalOutSlots /\ work_units = num_worker
                      /\ coll_q = <<>> /\ trans_q = <<>> /\ reord_q = <<>> /\ output_q = <<>>
                      /\ collect_token /\ unfinished_work = NULL
    BY DEF AtExitClean
  <2>1. sink = "done"
    BY DEF Inv, OrderInv, EndInv
  <2>2. Quiet /\ can_terminate /\ source = "done" /\ \A w \in Workers : pc[w] = "done"
    BY <2>1, AllWritten
  <2>3. collect_token
    BY <2>2 DEF Inv, TokenHeld, Collector
  <2>4. in_slots = TotalInSlots
    <3>1. Holding(iblk) = {} /\ Len(coll_q) = 0 /\ SlotsInSource = 0
      BY <2>2 DEF Quiet, Holding, SlotsInSource
    <3>2. Cardinality(Holding(iblk)) = 0
      BY <3>1, FS_EmptySet
    <3>3. in_slots \in Nat
      BY DEF Inv, Known, TypeInv, TypeOK, SourceTypeOK
    <3> QED
      BY <3>1, <3>2, <3>3 DEF Inv, InSlotsConserved, AllInSlots
  <2> QED
    BY <2>2, <2>3, <2>4 DEF Quiet, can_terminate
<1> QED
  BY <1>1, Safe, PTL

(***************************************************************************)
(* The blocks in flight, with the buffer that is about to be delivered.    *)
(***************************************************************************)
(* Byte k is in the block that is x.                                       *)
In(k, x) == x.lo <= k /\ k < x.hi

(* The items of the property are the blocks in flight.                     *)
LEMMA ItemsAre ==
  /\ \A x \in Items : \/ \E b \in WorkBlks : x = WorkItem(b)
                      \/ \E i \in Ins : x = InItem(i)
                      \/ source = "deliver" /\ x = InItem(NewInBlk)
  /\ \A b \in WorkBlks : WorkItem(b) \in Items
  /\ \A i \in Ins : InItem(i) \in Items
  /\ source = "deliver" => InItem(NewInBlk) \in Items
  BY DEF Items, InBlks, Ins, Hands

LEMMA ItemFields ==
  /\ \A b : WorkItem(b).pos = b.pos /\ WorkItem(b).lo = b.lo /\ WorkItem(b).hi = b.hi
  /\ \A i : InItem(i).pos = i.pos /\ InItem(i).lo = i.next /\ InItem(i).hi = i.next + i.left
  BY DEF WorkItem, InItem

LEMMA Delivered ==
  ASSUME Inv, source = "deliver"
  PROVE  /\ InItem(NewInBlk).pos = <<next_id, 0>> /\ InItem(NewInBlk).lo = Start(file_len, next_id)
         /\ InItem(NewInBlk).hi = ispec_total /\ Start(file_len, next_id) < ispec_total
<1> DEFINE g == next_id * InGranul
<1>1. /\ 0 < avail /\ ispec_total - avail = g /\ avail = min(InGranul, file_len - g)
  BY DEF Inv, OrderInv, SourceInv
<1>2. file_len \in Nat /\ ispec_total \in Nat /\ avail \in Nat /\ g \in Nat /\ InGranul \in Nat
  BY StartNext, ProcessAssumption DEF Inv, Known, TypeInv, TypeOK, SourceTypeOK, QueueTypeOK
<1>3. Start(file_len, next_id) = min(g, file_len)
  BY DEF Start
<1>4. /\ NewInBlk.pos = <<next_id, 0>> /\ NewInBlk.next = ispec_total - avail /\ NewInBlk.left = avail
  BY DEF NewInBlk
<1> HIDE DEF g
<1>5. min(g, file_len) = g
  BY <1>1, <1>2 DEF min
<1> QED
  BY <1>1, <1>2, <1>3, <1>4, <1>5, ItemFields

(* The facts about the blocks in flight that are used below.               *)
LEMMA Facts ==
  ASSUME Inv
  PROVE  /\ InFlight(file_len, WorkBlks, Ins, order, Front1, next_id)
         /\ file_len \in Nat /\ next_id \in Nat /\ Front1 \in Nat /\ order \in Position
         /\ <<next_id, 0>> \in Position
         /\ Start(file_len, next_id) \in Nat
         /\ \A b \in WorkBlks : /\ b.pos \in Position /\ b.next \in Position
                                /\ b.lo \in Nat /\ b.hi \in Nat
         /\ \A i \in Ins : i.pos \in Position /\ i.next \in Nat /\ i.left \in Nat
<1>1. InFlight(file_len, WorkBlks, Ins, order, Front1, next_id)
  BY DEF Inv, OrderInv, BlocksInv, DataInv
<1>2. InFlightType(file_len, WorkBlks, Ins, order, Front1, next_id)
  BY <1>1 DEF InFlight
<1>3. /\ file_len \in Nat /\ next_id \in Nat /\ Front1 \in Nat /\ order \in Position
      /\ \A b \in WorkBlks : b \in WorkBlk
      /\ \A i \in Ins : i \in InBlk
  BY <1>2 DEF InFlightType
<1>4. <<next_id, 0>> \in Position /\ Start(file_len, next_id) \in Nat
  BY <1>3, StartOrder DEF Position
<1> QED
  BY <1>1, <1>3, <1>4 DEF WorkBlk, InBlk

(* What an item says of the byte at its position.                          *)
LEMMA ItemClaims ==
  ASSUME Inv, NEW x \in Items
  PROVE  /\ <<x.pos, x.lo>> \in Claims(file_len, WorkBlks, Ins, order, Front1, next_id)
         /\ x.pos \in Position /\ x.lo \in Nat
         /\ pos_le(order, x.pos) /\ Front1 <= x.lo
<1> DEFINE K == Claims(file_len, WorkBlks, Ins, order, Front1, next_id)
<1>1. \A c, d \in K : pos_le(c[1], d[1]) => c[2] <= d[2]
  BY Facts DEF InFlight, Agree
<1>2. <<order, Front1>> \in K /\ <<<<next_id, 0>>, Start(file_len, next_id)>> \in K
  BY DEF Claims
<1>3. NotBehind(WorkBlks, Ins, order) /\ \A c \in K : pos_le(c[1], <<next_id, 0>>)
  BY Facts DEF InFlight, Agree
<1>4. CASE \E b \in WorkBlks : x = WorkItem(b)
  <2>1. PICK b \in WorkBlks : x.pos = b.pos /\ x.lo = b.lo
    BY <1>4, ItemFields
  <2>2. <<b.pos, b.lo>> \in K /\ pos_le(order, b.pos)
    BY <1>3 DEF Claims, NotBehind
  <2>3. Front1 <= b.lo
    BY <1>1, <1>2, <2>2
  <2> QED
    BY <2>1, <2>2, <2>3, Facts
<1>5. CASE \E i \in Ins : x = InItem(i)
  <2>1. PICK i \in Ins : x.pos = i.pos /\ x.lo = i.next
    BY <1>5, ItemFields
  <2>2. <<i.pos, i.next>> \in K /\ pos_le(order, i.pos)
    BY <1>3 DEF Claims, NotBehind
  <2>3. Front1 <= i.next
    BY <1>1, <1>2, <2>2
  <2> QED
    BY <2>1, <2>2, <2>3, Facts
<1>6. CASE source = "deliver" /\ x = InItem(NewInBlk)
  <2>1. x.pos = <<next_id, 0>> /\ x.lo = Start(file_len, next_id)
    BY <1>6, Delivered
  <2>2. pos_le(order, <<next_id, 0>>)
    BY <1>2, <1>3
  <2>3. Front1 <= Start(file_len, next_id)
    BY <1>1, <1>2, <2>2
  <2> QED
    BY <1>2, <2>1, <2>2, <2>3, Facts
<1> QED
  BY <1>4, <1>5, <1>6, ItemsAre

(* Positions order the blocks as their bytes are ordered in the input, and *)
(* no queue holds two blocks of one position: the sort order of the heaps  *)
(* is that of the data, whatever the workers do.                           *)
THEOREM Positions == Spec => []PositionsFollowBytes
<1>1. Inv => PositionsFollowBytes
  <2> SUFFICES ASSUME Inv PROVE PositionsFollowBytes
    OBVIOUS
  <2>1. ASSUME NEW x \in Items, NEW y \in Items, x.lo < y.lo PROVE pos_lt(x.pos, y.pos)
    <3> DEFINE K == Claims(file_len, WorkBlks, Ins, order, Front1, next_id)
    <3>1. \A c, d \in K : pos_le(c[1], d[1]) => c[2] <= d[2]
      BY Facts DEF InFlight, Agree
    <3>2. <<x.pos, x.lo>> \in K /\ <<y.pos, y.lo>> \in K
      BY ItemClaims
    <3>3. x.pos \in Position /\ y.pos \in Position /\ x.lo \in Nat /\ y.lo \in Nat
      BY ItemClaims
    <3>4. pos_le(y.pos, x.pos) => y.lo <= x.lo
      BY <3>1, <3>2
    <3> QED
      BY <2>1, <3>3, <3>4, PosOrder
  <2>2. ASSUME NEW x \in Items PROVE ~ pos_lt(x.pos, order)
    BY ItemClaims, Facts, PosOrder
  <2>3. ASSUME NEW q \in {coll_q, trans_q, reord_q}, NEW i \in 1 .. Len(q) - 1
        PROVE  pos_lt(q[i].pos, q[i + 1].pos)
    <3>1. Sorted(q) /\ Len(q) \in Nat
      BY BlockTypes DEF Inv, OrderInv, BlocksInv, PlaceInv, Known
    <3>2. i \in 1 .. Len(q) /\ i + 1 \in 1 .. Len(q) /\ i < i + 1
      BY <3>1
    <3> QED
      BY <3>1, <3>2 DEF Sorted
  <2> QED
    BY <2>1, <2>2, <2>3 DEF PositionsFollowBytes
<1> QED
  BY <1>1, Safe, PTL

(* A block is somewhere between the front and the next buffer.             *)
LEMMA Behind ==
  ASSUME Inv
  PROVE  /\ \A b \in WorkBlks : b.hi <= Start(file_len, next_id)
         /\ \A i \in Ins : /\ i.next + i.left = Start(file_len, i.pos[1] + 1) /\ 0 < i.left
                           /\ i.next + i.left <= Start(file_len, next_id)
<1> DEFINE K == Claims(file_len, WorkBlks, Ins, order, Front1, next_id)
           S == Start(file_len, next_id)
<1>1. /\ \A c, d \in K : pos_le(c[1], d[1]) => c[2] <= d[2]
      /\ \A c \in K : pos_le(c[1], <<next_id, 0>>)
  BY Facts DEF InFlight, Agree
<1>2. <<<<next_id, 0>>, S>> \in K
  BY DEF Claims
<1>3. ASSUME NEW b \in WorkBlks PROVE b.hi <= S
  <2>1. <<b.next, b.hi>> \in K
    BY DEF Claims
  <2> QED
    BY <1>1, <1>2, <2>1
<1>4. ASSUME NEW i \in Ins
      PROVE  /\ i.next + i.left = Start(file_len, i.pos[1] + 1) /\ 0 < i.left /\ i.next + i.left <= S
  <2>1. /\ i.next + i.left = Start(file_len, i.pos[1] + 1) /\ 0 < i.left /\ i.pos[1] < next_id
    BY Facts DEF InFlight, Rests
  <2>2. i.pos[1] + 1 \in Nat /\ next_id \in Nat /\ i.pos[1] + 1 <= next_id /\ file_len \in Nat
    <3>1. next_id \in Nat /\ file_len \in Nat /\ i.pos \in Position
      BY Facts
    <3>2. i.pos[1] \in Nat
      BY <3>1 DEF Position
    <3> QED
      BY <2>1, <3>1, <3>2
  <2>3. Start(file_len, i.pos[1] + 1) <= S
    BY <2>2, StartOrder
  <2> QED
    BY <2>1, <2>3
<1> QED
  BY <1>3, <1>4

(* Behind a complete block the chain of positions leads to the block that  *)
(* has the next byte: do_reorder() never waits for a block that does not   *)
(* come.                                                                   *)
THEOREM Successor == Spec => []NextIsSuccessor
<1>1. Inv => NextIsSuccessor
  <2> SUFFICES ASSUME Inv, NEW b \in WorkBlks, Complete(b), b # unfinished_work
               PROVE  IF \E x \in Items : x.lo = b.hi /\ x.lo < x.hi
                      THEN \E x \in Items : x.lo = b.hi /\ x.pos = b.next
                      ELSE b.next = <<next_id, 0>>
    BY DEF NextIsSuccessor
  <2> DEFINE K == Claims(file_len, WorkBlks, Ins, order, Front1, next_id)
             S == Start(file_len, next_id)
  <2>1. /\ \A c, d \in K : pos_le(c[1], d[1]) => c[2] <= d[2]
        /\ <<b.next, b.hi>> \in K /\ <<<<next_id, 0>>, S>> \in K
        /\ \A c \in WorkBlks : <<c.pos, c.lo>> \in K
        /\ \A i \in Ins : <<i.pos, i.next>> \in K
    BY Facts DEF InFlight, Agree, Claims
  <2>2. b.next \in Position /\ b.hi \in Nat /\ pos_le(b.next, b.next)
    BY Facts, PosOrder
  <2>3. /\ b.next = <<next_id, 0>> => b.hi = S
        /\ \A c \in WorkBlks : c.pos = b.next => c.lo = b.hi
        /\ \A i \in Ins : i.pos = b.next => i.next = b.hi
    <3>1. ASSUME NEW k \in Nat, <<b.next, k>> \in K PROVE k = b.hi
      <4>1. k <= b.hi /\ b.hi <= k
        BY <2>1, <2>2, <3>1
      <4> QED
        BY <2>2, <4>1
    <3> QED
      BY <2>1, <3>1, Facts
  <2>4. b.next = <<next_id, 0>> \/ (\E c \in WorkBlks : c.pos = b.next) \/ (\E i \in Ins : i.pos = b.next)
    BY Facts DEF InFlight, Linked, Reached
  <2>5. ASSUME NEW i \in Ins, i.pos = b.next
        PROVE  \E x \in Items : x.lo = b.hi /\ x.lo < x.hi /\ x.pos = b.next
    <3>1. InItem(i) \in Items /\ InItem(i).lo = b.hi /\ InItem(i).pos = b.next /\ InItem(i).hi = i.next + i.left
      BY <2>3, <2>5, ItemsAre, ItemFields
    <3>2. InItem(i).lo < InItem(i).hi
      BY <2>3, <2>5, <3>1, Behind, Facts
    <3> QED
      BY <3>1, <3>2
  <2>6. ASSUME NEW c \in WorkBlks, c.pos = b.next
        PROVE  \E x \in Items : x.lo = b.hi /\ x.lo < x.hi /\ x.pos = b.next
    <3>1. CASE c.pos # c.next
      <4>1. c.lo < c.hi
        BY <3>1, Facts DEF InFlight, Filled
      <4>2. WorkItem(c) \in Items /\ WorkItem(c).lo = b.hi /\ WorkItem(c).pos = b.next /\ WorkItem(c).hi = c.hi
        BY <2>3, <2>6, ItemsAre, ItemFields
      <4> QED
        BY <2>3, <2>6, <4>1, <4>2
    <3>2. CASE c.pos = c.next
      <4>1. \E i \in Ins : i.pos = c.pos
        BY <3>2, Facts DEF InFlight, Filled
      <4> QED
        BY <2>5, <2>6, <4>1
    <3> QED
      BY <3>1, <3>2
  <2>7. CASE b.next = <<next_id, 0>>
    <3>1. ASSUME NEW x \in Items, x.lo = b.hi, x.lo < x.hi PROVE x.pos = b.next
      <4>1. x.lo = S
        BY <2>3, <2>7, <3>1
      <4>2. CASE \E c \in WorkBlks : x = WorkItem(c)
        <5>1. PICK c \in WorkBlks : x = WorkItem(c)
          BY <4>2
        <5>2. x.hi <= S /\ x.hi \in Nat /\ S \in Nat
          BY <5>1, ItemFields, Behind, Facts
        <5> QED
          BY <3>1, <4>1, <5>2
      <4>3. CASE \E i \in Ins : x = InItem(i)
        <5>1. PICK i \in Ins : x = InItem(i)
          BY <4>3
        <5>2. x.hi <= S /\ x.hi \in Nat /\ S \in Nat
          BY <5>1, ItemFields, Behind, Facts
        <5> QED
          BY <3>1, <4>1, <5>2
      <4>4. CASE source = "deliver" /\ x = InItem(NewInBlk)
        BY <2>7, <4>4, Delivered
      <4> QED
        BY <4>2, <4>3, <4>4, ItemsAre
    <3> QED
      BY <2>7, <3>1
  <2> QED
    BY <2>4, <2>5, <2>6, <2>7
<1> QED
  BY <1>1, Safe, PTL

(***************************************************************************)
(* Every byte once.                                                        *)
(***************************************************************************)
(* No two blocks have a byte in common.                                    *)
LEMMA WorkAlone ==
  ASSUME Inv, NEW k \in Nat, NEW b \in WorkBlks, NEW c \in WorkBlks,
         b.lo <= k, k < b.hi, c.lo <= k, k < c.hi
  PROVE  b = c
<1> DEFINE K == Claims(file_len, WorkBlks, Ins, order, Front1, next_id)
<1>1. \A p, q \in K : pos_le(p[1], q[1]) => p[2] <= q[2]
  BY Facts DEF InFlight, Agree
<1>2. ASSUME NEW x \in WorkBlks, NEW y \in WorkBlks, x # y, x.lo <= k, k < x.hi, y.lo <= k, k < y.hi,
             pos_le(x.pos, y.pos)
      PROVE  FALSE
  <2>1. /\ x.pos \in Position /\ x.next \in Position /\ x.lo \in Nat /\ x.hi \in Nat
        /\ y.pos \in Position /\ y.lo \in Nat
    BY Facts
  <2>2. ~ Within(y.pos, x)
    BY <1>2, Facts DEF InFlight, Apart
  <2>3. pos_le(x.next, y.pos)
    BY <1>2, <2>1, <2>2, PosOrder DEF Within
  <2>4. <<x.next, x.hi>> \in K /\ <<y.pos, y.lo>> \in K
    BY DEF Claims
  <2>5. x.hi <= y.lo
    BY <1>1, <2>3, <2>4
  <2> QED
    BY <1>2, <2>1, <2>5
<1>3. b.pos \in Position /\ c.pos \in Position
  BY Facts
<1>4. pos_le(b.pos, c.pos) \/ pos_le(c.pos, b.pos)
  BY <1>3, PosOrder
<1> QED
  BY <1>2, <1>4

LEMMA WorkAndInApart ==
  ASSUME Inv, NEW k \in Nat, NEW b \in WorkBlks, NEW i \in Ins,
         b.lo <= k, k < b.hi, i.next <= k, k < i.next + i.left
  PROVE  FALSE
<1> DEFINE K == Claims(file_len, WorkBlks, Ins, order, Front1, next_id)
<1>1. /\ \A p, q \in K : pos_le(p[1], q[1]) => p[2] <= q[2]
      /\ \A p \in K : Start(file_len, p[1][1]) <= p[2]
  BY Facts DEF InFlight, Agree
<1>2. /\ b.pos \in Position /\ b.next \in Position /\ b.lo \in Nat /\ b.hi \in Nat
      /\ i.pos \in Position /\ i.next \in Nat /\ i.left \in Nat /\ file_len \in Nat
  BY Facts
<1>3. <<b.next, b.hi>> \in K /\ <<b.pos, b.lo>> \in K /\ <<i.pos, i.next>> \in K
  BY DEF Claims
<1>4. ~ Within(i.pos, b)
  BY Facts DEF InFlight, Apart
<1>5. CASE pos_le(b.next, i.pos)
  <2>1. b.hi <= i.next
    BY <1>1, <1>3, <1>5
  <2> QED
    BY <1>2, <2>1
<1>6. CASE pos_lt(i.pos, b.pos)
  <2>1. b.pos[1] \in Nat /\ b.pos[2] \in Nat /\ i.pos[1] \in Nat /\ i.pos[2] \in Nat
    BY <1>2 DEF Position
  <2>2. b.pos[1] # i.pos[1]
    <3>1. \A p \in K : p[1][1] = i.pos[1] => p[1][2] <= i.pos[2]
      BY Facts DEF InFlight, Latest
    <3>2. b.pos[1] = i.pos[1] => b.pos[2] <= i.pos[2]
      BY <1>3, <3>1
    <3> QED
      BY <1>6, <2>1, <3>2 DEF pos_lt
  <2>3. i.pos[1] + 1 <= b.pos[1] /\ i.pos[1] + 1 \in Nat
    BY <1>6, <2>1, <2>2 DEF pos_lt
  <2>4. /\ Start(file_len, i.pos[1] + 1) <= Start(file_len, b.pos[1])
        /\ Start(file_len, i.pos[1] + 1) \in Nat /\ Start(file_len, b.pos[1]) \in Nat
    BY <1>2, <2>1, <2>3, StartOrder
  <2>5. Start(file_len, b.pos[1]) <= b.lo
    BY <1>1, <1>3
  <2>6. i.next + i.left = Start(file_len, i.pos[1] + 1)
    BY Behind
  <2> QED
    BY <1>2, <2>4, <2>5, <2>6
<1> QED
  BY <1>2, <1>4, <1>5, <1>6, PosOrder DEF Within

LEMMA InAlone ==
  ASSUME Inv, NEW k \in Nat, NEW i \in Ins, NEW j \in Ins,
         i.next <= k, k < i.next + i.left, j.next <= k, k < j.next + j.left
  PROVE  i = j
<1> DEFINE K == Claims(file_len, WorkBlks, Ins, order, Front1, next_id)
<1>1. ASSUME NEW x \in Ins, NEW y \in Ins, x.next <= k, k < x.next + x.left, y.next <= k, k < y.next + y.left,
             x.pos[1] < y.pos[1]
      PROVE  FALSE
  <2>1. /\ x.pos \in Position /\ x.next \in Nat /\ x.left \in Nat
        /\ y.pos \in Position /\ y.next \in Nat /\ file_len \in Nat
    BY Facts
  <2>2. x.pos[1] + 1 \in Nat /\ y.pos[1] \in Nat /\ x.pos[1] + 1 <= y.pos[1]
    BY <1>1, <2>1 DEF Position
  <2>3. /\ Start(file_len, x.pos[1] + 1) <= Start(file_len, y.pos[1])
        /\ Start(file_len, x.pos[1] + 1) \in Nat /\ Start(file_len, y.pos[1]) \in Nat
    BY <2>1, <2>2, StartOrder
  <2>4. <<y.pos, y.next>> \in K /\ \A p \in K : Start(file_len, p[1][1]) <= p[2]
    BY Facts DEF Claims, InFlight, Agree
  <2>5. Start(file_len, y.pos[1]) <= y.next
    BY <2>4
  <2>6. x.next + x.left = Start(file_len, x.pos[1] + 1)
    BY Behind
  <2> QED
    BY <1>1, <2>1, <2>3, <2>5, <2>6
<1>2. i.pos[1] \in Nat /\ j.pos[1] \in Nat
  BY Facts DEF Position
<1>3. i.pos[1] = j.pos[1]
  BY <1>1, <1>2
<1> QED
  BY <1>3, Facts DEF InFlight, Rests

(* A byte that has been delivered and not been written is in one block.    *)
LEMMA OneItem ==
  ASSUME Inv, NEW k \in Nat, Front1 <= k, k < Start(file_len, next_id)
  PROVE  \E x : {y \in Items : In(k, y)} = {x}
<1>1. ~ (source = "deliver" /\ In(k, InItem(NewInBlk)))
  <2>1. source = "deliver" => InItem(NewInBlk).lo = Start(file_len, next_id)
    BY Delivered
  <2> QED
    BY <2>1, Facts DEF In
<1>2. \A b : In(k, WorkItem(b)) <=> b.lo <= k /\ k < b.hi
  BY ItemFields DEF In
<1>3. \A i : In(k, InItem(i)) <=> i.next <= k /\ k < i.next + i.left
  BY ItemFields DEF In
<1>4. \/ \E b \in WorkBlks : b.lo <= k /\ k < b.hi
      \/ \E i \in Ins : i.next <= k /\ k < i.next + i.left
  BY Facts DEF InFlight, Held
<1>5. CASE \E b \in WorkBlks : b.lo <= k /\ k < b.hi
  <2>1. PICK b \in WorkBlks : b.lo <= k /\ k < b.hi
    BY <1>5
  <2>2. WorkItem(b) \in Items /\ In(k, WorkItem(b))
    BY <1>2, <2>1, ItemsAre
  <2>3. ASSUME NEW y \in Items, In(k, y) PROVE y = WorkItem(b)
    <3>1. CASE \E c \in WorkBlks : y = WorkItem(c)
      <4>1. PICK c \in WorkBlks : y = WorkItem(c)
        BY <3>1
      <4>2. c = b
        BY <1>2, <2>1, <2>3, <4>1, WorkAlone
      <4> QED
        BY <4>1, <4>2
    <3>2. ~ \E i \in Ins : y = InItem(i)
      BY <1>3, <2>1, <2>3, WorkAndInApart
    <3> QED
      BY <1>1, <2>3, <3>1, <3>2, ItemsAre
  <2> QED
    BY <2>2, <2>3
<1>6. CASE \E i \in Ins : i.next <= k /\ k < i.next + i.left
  <2>1. PICK i \in Ins : i.next <= k /\ k < i.next + i.left
    BY <1>6
  <2>2. InItem(i) \in Items /\ In(k, InItem(i))
    BY <1>3, <2>1, ItemsAre
  <2>3. ASSUME NEW y \in Items, In(k, y) PROVE y = InItem(i)
    <3>1. CASE \E j \in Ins : y = InItem(j)
      <4>1. PICK j \in Ins : y = InItem(j)
        BY <3>1
      <4>2. j = i
        BY <1>3, <2>1, <2>3, <4>1, InAlone
      <4> QED
        BY <4>1, <4>2
    <3>2. ~ \E b \in WorkBlks : y = WorkItem(b)
      BY <1>2, <2>1, <2>3, WorkAndInApart
    <3> QED
      BY <1>1, <2>3, <3>1, <3>2, ItemsAre
  <2> QED
    BY <2>2, <2>3
<1> QED
  BY <1>4, <1>5, <1>6

(* What has been read and not been delivered is in the buffer in hand.     *)
LEMMA OnlyNew ==
  ASSUME Inv, NEW k \in Nat, Start(file_len, next_id) <= k, k < ispec_total
  PROVE  \E x : {y \in Items : In(k, y)} = {x}
<1>1. source = "deliver"
  <2> DEFINE g == next_id * InGranul
  <2>1. /\ ispec_total \in Nat /\ file_len \in Nat /\ ispec_total <= file_len /\ g \in Nat
        /\ source \in {"top", "stalled", "read", "deliver", "eof", "done"}
    BY StartNext DEF Inv, Known, TypeInv, TypeOK, SourceTypeOK, QueueTypeOK, ReadSoFar
  <2>2. Start(file_len, next_id) = min(g, file_len)
    BY DEF Start
  <2>3. /\ source \in {"top", "stalled", "read"} => ispec_total = g
        /\ source \in {"eof", "done"} => ispec_total = file_len /\ Start(file_len, next_id) = file_len
    BY DEF Inv, OrderInv, SourceInv
  <2> HIDE DEF g
  <2>4. source \notin {"top", "stalled", "read"}
    BY <2>1, <2>2, <2>3 DEF min
  <2>5. source \notin {"eof", "done"}
    BY <2>1, <2>3
  <2> QED
    BY <2>1, <2>4, <2>5
<1> DEFINE new == InItem(NewInBlk)
<1>2. new \in Items /\ In(k, new)
  BY <1>1, Delivered, ItemsAre DEF In
<1>3. ASSUME NEW y \in Items, In(k, y) PROVE y = new
  <2>1. ~ \E b \in WorkBlks : y = WorkItem(b)
    <3> SUFFICES ASSUME NEW b \in WorkBlks, y = WorkItem(b) PROVE FALSE
      OBVIOUS
    <3>1. k < b.hi /\ b.hi <= Start(file_len, next_id)
      BY <1>3, ItemFields, Behind DEF In
    <3> QED
      BY <3>1, Facts
  <2>2. ~ \E i \in Ins : y = InItem(i)
    <3> SUFFICES ASSUME NEW i \in Ins, y = InItem(i) PROVE FALSE
      OBVIOUS
    <3>1. k < i.next + i.left /\ i.next + i.left <= Start(file_len, next_id)
      BY <1>3, ItemFields, Behind DEF In
    <3> QED
      BY <3>1, Facts
  <2> QED
    BY <2>1, <2>2, ItemsAre
<1> QED
  BY <1>2, <1>3

(* What has been put out is in one block of the output.                    *)
LEMMA OneEmitted ==
  ASSUME Inv, NEW k \in Nat
  PROVE  /\ k < Front1 => \E x : {o \in Emitted : In(k, o)} = {x}
         /\ ~ (k < Front1) => {o \in Emitted : In(k, o)} = {}
<1> DEFINE n == Len(combined_crc)
           c == combined_crc
<1>1. /\ c \in Seq(OutBlk) /\ n \in Nat /\ Front1 \in Nat
      /\ \A j \in 1 .. n : c[j] \in OutBlk /\ c[j].lo \in Nat /\ c[j].hi \in Nat
  <2>1. c \in Seq(OutBlk) /\ Front1 \in Nat
    BY Facts DEF Inv, Known, TypeInv, TypeOK, QueueTypeOK
  <2>2. n \in Nat /\ \A j \in 1 .. n : c[j] \in OutBlk
    BY <2>1
  <2>3. \A o \in OutBlk : o.lo \in Nat /\ o.hi \in Nat
    BY DEF OutBlk
  <2> QED
    BY <2>1, <2>2, <2>3
<1>2. \A o : o \in Emitted <=> \E j \in 1 .. n : c[j] = o
  BY <1>1, ToSetOf DEF Emitted
<1>3. /\ \A j \in 1 .. n : c[j].hi <= Front1
      /\ \A i, j \in 1 .. n : i < j => c[i].hi <= c[j].lo
      /\ k < Front1 => \E j \in 1 .. n : c[j].lo <= k /\ k < c[j].hi
  BY DEF Inv, OrderInv, Emits
<1> HIDE DEF n, c
<1>4. ASSUME k < Front1 PROVE \E x : {o \in Emitted : In(k, o)} = {x}
  <2>1. PICK j \in 1 .. n : c[j].lo <= k /\ k < c[j].hi
    BY <1>3, <1>4
  <2>2. c[j] \in Emitted /\ In(k, c[j])
    BY <1>2, <2>1 DEF In
  <2>3. ASSUME NEW o \in Emitted, In(k, o) PROVE o = c[j]
    <3>1. PICK i \in 1 .. n : c[i] = o
      BY <1>2
    <3>2. c[i].lo <= k /\ k < c[i].hi
      BY <2>3, <3>1 DEF In
    <3>3. ~ (i < j) /\ ~ (j < i)
      <4>1. /\ c[i].lo \in Nat /\ c[i].hi \in Nat /\ c[j].lo \in Nat /\ c[j].hi \in Nat
            /\ i < j => c[i].hi <= c[j].lo
            /\ j < i => c[j].hi <= c[i].lo
        BY <1>1, <1>3
      <4> QED
        BY <2>1, <3>2, <4>1
    <3>4. i = j
      BY <1>1, <3>3
    <3> QED
      BY <3>1, <3>4
  <2> QED
    BY <2>2, <2>3
<1>5. ASSUME ~ (k < Front1), NEW o \in Emitted, In(k, o) PROVE FALSE
  <2>1. PICK i \in 1 .. n : c[i] = o
    BY <1>2
  <2>2. k < c[i].hi
    BY <1>5, <2>1 DEF In
  <2> QED
    BY <1>1, <1>3, <1>5, <2>2
<1> QED
  BY <1>4, <1>5

(* Each byte that was read is in exactly one place, an input block, a work *)
(* block or a block handed to the sink, whatever the schedule of the       *)
(* workers: none is dropped and none is encoded twice.                     *)
THEOREM BytesOnce == Spec => []EveryByteOnce
<1>1. Inv => EveryByteOnce
  <2> SUFFICES ASSUME Inv, NEW k \in 0 .. ispec_total - 1
               PROVE  Cardinality({x \in Items : x.lo <= k /\ k < x.hi})
                        + Cardinality({o \in Emitted : o.lo <= k /\ k < o.hi}) = 1
    BY DEF EveryByteOnce
  <2> DEFINE I == {x \in Items : In(k, x)}
             O == {o \in Emitted : In(k, o)}
  <2>1. k \in Nat /\ k < ispec_total /\ ispec_total \in Nat
    BY DEF Inv, Known, TypeInv, TypeOK, SourceTypeOK
  <2>2. I = {x \in Items : x.lo <= k /\ k < x.hi} /\ O = {o \in Emitted : o.lo <= k /\ k < o.hi}
    BY DEF In
  <2>3. Cardinality({}) = 0 /\ \A x : Cardinality({x}) = 1
    BY FS_EmptySet, FS_Singleton
  <2> HIDE DEF I, O
  <2>4. CASE k < Front1
    <3>1. \E x : O = {x}
      BY <2>1, <2>4, OneEmitted DEF O
    <3>2. I = {}
      <4>1. \A x \in Items : Front1 <= x.lo /\ x.lo \in Nat
        BY ItemClaims
      <4> QED
        BY <2>1, <2>4, <4>1, Facts DEF In, I
    <3>3. Cardinality(I) = 0 /\ Cardinality(O) = 1
      BY <2>3, <3>1, <3>2
    <3> QED
      BY <2>2, <3>3
  <2>5. CASE ~ (k < Front1)
    <3>1. O = {}
      BY <2>1, <2>5, OneEmitted DEF O
    <3>2. \E x : I = {x}
      <4>1. Front1 \in Nat /\ Start(file_len, next_id) \in Nat
        BY Facts
      <4>2. CASE k < Start(file_len, next_id)
        <5>1. Front1 <= k
          BY <2>1, <2>5, <4>1
        <5> QED
          BY <2>1, <4>2, <5>1, OneItem DEF I
      <4>3. CASE ~ (k < Start(file_len, next_id))
        <5>1. Start(file_len, next_id) <= k
          BY <2>1, <4>1, <4>3
        <5> QED
          BY <2>1, <5>1, OnlyNew DEF I
      <4> QED
        BY <4>2, <4>3
    <3>3. Cardinality(I) = 1 /\ Cardinality(O) = 0
      BY <2>3, <3>1, <3>2
    <3> QED
      BY <2>2, <3>3
  <2> QED
    BY <2>4, <2>5
<1> QED
  BY <1>1, Safe, PTL

(***************************************************************************)
(* Progress of the pipeline: the block whose turn it is gets a slot, and   *)
(* the input block that is next in line gets a work unit.                  *)
(***************************************************************************)
(* Nothing is lost on the way into a queue or out of it.                   *)
LEMMA QueueKeeps ==
  ASSUME NEW S, NEW q \in Seq(S)
  PROVE  /\ \A e \in S : /\ \A x \in ToSet(q) : x \in ToSet(enqueue(q, e))
                         /\ e \in ToSet(enqueue(q, e))
                         /\ \/ peek(enqueue(q, e)) = e
                            \/ q # <<>> /\ peek(enqueue(q, e)) = peek(q)
         /\ q # <<>> => \A x \in ToSet(q) : x = peek(q) \/ x \in ToSet(dequeue(q))
<1> DEFINE n == Len(q)
<1>1. n \in Nat /\ \A x : x \in ToSet(q) <=> \E j \in 1 .. n : q[j] = x
  BY ToSetOf
<1>2. ASSUME NEW e \in S
      PROVE  /\ \A x \in ToSet(q) : x \in ToSet(enqueue(q, e))
             /\ e \in ToSet(enqueue(q, e))
             /\ \/ peek(enqueue(q, e)) = e
                \/ q # <<>> /\ peek(enqueue(q, e)) = peek(q)
  <2> DEFINE m == PlaceOf(q, e.pos)
             r == enqueue(q, e)
  <2>1. m \in 1 .. n + 1
    BY <1>1, PlaceOfRange
  <2>2. r \in Seq(S) /\ Len(r) = n + 1
    BY EnqueueType
  <2>3. \A x : x \in ToSet(r) <=> \E j \in 1 .. n + 1 : r[j] = x
    BY <2>2, ToSetOf
  <2>4. \A j \in 1 .. n + 1 : r[j] = IF j < m THEN q[j] ELSE IF j = m THEN e ELSE q[j - 1]
    BY <1>1, <2>1 DEF enqueue, InsertAt
  <2> HIDE DEF m, r, n
  <2>5. r[m] = e
    BY <2>1, <2>4
  <2>6. ASSUME NEW x \in ToSet(q) PROVE x \in ToSet(r)
    <3>1. PICK j \in 1 .. n : q[j] = x
      BY <1>1
    <3>2. CASE j < m
      <4>1. r[j] = x /\ j \in 1 .. n + 1
        BY <1>1, <2>1, <2>4, <3>1, <3>2
      <4> QED
        BY <2>3, <4>1
    <3>3. CASE ~ (j < m)
      <4>1. j + 1 \in 1 .. n + 1 /\ ~ (j + 1 < m) /\ j + 1 # m /\ (j + 1) - 1 = j
        BY <1>1, <2>1, <3>3
      <4>2. r[j + 1] = x
        BY <2>4, <3>1, <4>1
      <4> QED
        BY <2>3, <4>1, <4>2
    <3> QED
      BY <3>2, <3>3
  <2>7. r[1] = e \/ (q # <<>> /\ r[1] = q[1])
    <3>1. CASE m = 1
      BY <2>5, <3>1
    <3>2. CASE m # 1
      <4>1. 1 < m /\ 1 \in 1 .. n + 1 /\ n # 0
        BY <1>1, <2>1, <3>2
      <4>2. q # <<>>
        BY <4>1 DEF n
      <4> QED
        BY <2>4, <4>1, <4>2
    <3> QED
      BY <3>1, <3>2
  <2>8. peek(r) = r[1] /\ peek(q) = q[1]
    BY DEF peek
  <2> QED
    BY <2>1, <2>3, <2>5, <2>6, <2>7, <2>8 DEF r
<1>3. ASSUME q # <<>>, NEW x \in ToSet(q) PROVE x = peek(q) \/ x \in ToSet(dequeue(q))
  <2>1. PICK j \in 1 .. n : q[j] = x
    BY <1>1
  <2>2. dequeue(q) \in Seq(S) /\ Len(dequeue(q)) = n - 1 /\ \A i \in 1 .. n - 1 : dequeue(q)[i] = q[i + 1]
    BY <1>1, <1>3, DequeueType DEF dequeue
  <2>3. peek(q) = q[1]
    BY DEF peek
  <2>4. CASE j # 1
    <3>1. j - 1 \in 1 .. n - 1 /\ (j - 1) + 1 = j
      BY <1>1, <2>4
    <3>2. dequeue(q)[j - 1] = x
      BY <2>1, <2>2, <3>1
    <3> QED
      BY <2>2, <3>1, <3>2, ToSetOf
  <2> QED
    BY <2>1, <2>3, <2>4
<1> QED
  BY <1>2, <1>3

(* Filling an encoder does not change its position.                        *)
LEMMA FillStays ==
  ASSUME TypeInv, NEW w \in Workers, wblk[w] \in WorkBlk, NEW p \in Position, NEW k \in Nat,
         wblk' = [wblk EXCEPT ![w].next = p, ![w].hi = k]
  PROVE  /\ wblk'[w].pos = wblk[w].pos /\ wblk'[w] # NULL
         /\ \A v \in Workers \ {w} : wblk'[v] = wblk[v]
<1> DEFINE g == [wblk[w] EXCEPT !.next = p, !.hi = k]
<1>1. g \in WorkBlk
  BY WorkBlkExcept
<1>2. g.pos = wblk[w].pos
  BY DEF WorkBlk
<1>3. wblk \in [Workers -> WorkBlk \cup {NULL}] /\ NULL \notin WorkBlk
  BY BlockTypes
<1>4. wblk' = [wblk EXCEPT ![w] = g]
  BY <1>3
<1> HIDE DEF g
<1> QED
  BY <1>1, <1>2, <1>3, <1>4

LEMMA TakeStays ==
  ASSUME TypeInv, NEW w \in Workers, pc[w] \in HoldsInBlk,
         (\E n \in 0 .. iblk[w].left - 1 : TakePart(w, n)) \/ (\E s : TakeAll(w, s))
  PROVE  /\ wblk'[w].pos = wblk[w].pos /\ wblk'[w] # NULL
         /\ \A v \in Workers \ {w} : wblk'[v] = wblk[v]
<1>1. wblk[w] \in WorkBlk /\ iblk[w] \in InBlk
  BY BlockTypes DEF TypeInv, InHand, HoldsInBlk, HoldsWorkBlk
<1>2. /\ wblk[w].next \in Position /\ wblk[w].hi \in Nat /\ iblk[w].left \in Nat
  BY <1>1 DEF WorkBlk, InBlk
<1>3. ASSUME NEW n \in 0 .. iblk[w].left - 1, TakePart(w, n)
      PROVE  /\ wblk'[w].pos = wblk[w].pos /\ wblk'[w] # NULL
             /\ \A v \in Workers \ {w} : wblk'[v] = wblk[v]
  <2> DEFINE p == <<wblk[w].next[1], wblk[w].next[2] + 1>>
             k == wblk[w].hi + n
  <2>1. p \in Position /\ k \in Nat
    BY <1>2 DEF Position
  <2>2. wblk' = [wblk EXCEPT ![w].next = p, ![w].hi = k]
    BY <1>3 DEF TakePart
  <2> HIDE DEF p, k
  <2> QED
    BY <1>1, <2>1, <2>2, FillStays
<1>4. ASSUME NEW s, TakeAll(w, s)
      PROVE  /\ wblk'[w].pos = wblk[w].pos /\ wblk'[w] # NULL
             /\ \A v \in Workers \ {w} : wblk'[v] = wblk[v]
  <2> DEFINE p == <<wblk[w].next[1] + 1, 0>>
             k == wblk[w].hi + iblk[w].left
  <2>1. p \in Position /\ k \in Nat
    BY <1>2 DEF Position
  <2>2. wblk' = [wblk EXCEPT ![w].next = p, ![w].hi = k]
    BY <1>4 DEF TakeAll
  <2> HIDE DEF p, k
  <2> QED
    BY <1>1, <2>1, <2>2, FillStays
<1> QED
  BY <1>3, <1>4

(* One worker of a step; the others at most wake up.                       *)
OnlyOne(w) ==
  \A v \in Workers \ {w} : /\ wblk'[v] = wblk[v]
                           /\ pc'[v] = pc[v] \/ (pc[v] = "waiting" /\ pc'[v] = "enter")

LEMMA OthersStay ==
  ASSUME TypeInv, NEW w \in Workers, Worker(w)
  PROVE  OnlyOne(w)
<1>0. pc \in [Workers -> WorkerStates] /\ wblk \in [Workers -> WorkBlk \cup {NULL}]
  BY BlockTypes
<1>1. ASSUME NEW s, Moves(w, s), \E x : wblk' = [wblk EXCEPT ![w] = x] PROVE OnlyOne(w)
  BY <1>0, <1>1 DEF Moves, OnlyOne
<1>2. CASE DoCollect(w)
  <2>1. Moves(w, "collect")
    BY <1>2, UnlockMoves DEF DoCollect, WorkerStates
  <2>2. wblk' = [wblk EXCEPT ![w] = NewWorkBlk(peek(coll_q))]
    BY <1>2 DEF DoCollect
  <2> QED
    BY <1>1, <2>1, <2>2
<1>3. CASE CollectPart(w) \/ CollectSeqPart(w)
  <2>1. pc[w] \in HoldsInBlk
    BY <1>3 DEF CollectPart, CollectSeqPart, HoldsInBlk
  <2>2. iblk[w] \in InBlk
    BY <2>1, BlockTypes DEF TypeInv, InHand
  <2>3. \E n \in 0 .. iblk[w].left - 1 : TakePart(w, n)
    BY <1>3, <2>2 DEF CollectPart, CollectSeqPart, InBlk
  <2>4. Moves(w, "encode") \/ Moves(w, "full")
    BY <1>3, UnlockMoves DEF CollectPart, CollectSeqPart, WorkerStates
  <2> QED
    BY <2>1, <2>3, <2>4, TakeStays DEF Moves, OnlyOne
<1>4. CASE CollectAll(w) \/ CollectSeqAll(w)
  <2>1. pc[w] \in HoldsInBlk
    BY <1>4 DEF CollectAll, CollectSeqAll, HoldsInBlk
  <2>2. \E s : TakeAll(w, s)
    BY <1>4 DEF CollectAll, CollectSeqAll
  <2>3. \A v \in Workers \ {w} : pc'[v] = pc[v]
    BY <1>0, <2>2 DEF TakeAll
  <2> QED
    BY <2>1, <2>2, <2>3, TakeStays DEF OnlyOne
<1>5. CASE DoCollectSeq(w)
  <2> DEFINE s == IF coll_q # <<>> THEN "collect_seq" ELSE "full"
             x == IF unfinished_work = NULL THEN NewWorkBlk(peek(coll_q)) ELSE unfinished_work
  <2>1. Unlock([pc EXCEPT ![w] = s]) /\ s \in WorkerStates \ {"waiting"}
    BY <1>5 DEF DoCollectSeq, WorkerStates
  <2>2. wblk' = [wblk EXCEPT ![w] = x]
    BY <1>5 DEF DoCollectSeq
  <2> HIDE DEF s, x
  <2>3. Moves(w, s)
    BY <2>1, UnlockMoves
  <2> QED
    BY <1>1, <2>2, <2>3
<1>6. CASE KeepUnfinished(w) \/ Encoded(w) \/ Transmitted(w)
  <2>1. Moves(w, "loop")
    BY <1>6, ReturnMoves DEF KeepUnfinished, Encoded, Transmitted
  <2>2. wblk' = [wblk EXCEPT ![w] = NULL]
    BY <1>6 DEF KeepUnfinished, Encoded, Transmitted
  <2> QED
    BY <1>1, <2>1, <2>2
<1>7. CASE PassToken(w)
  <2>1. Moves(w, "encode")
    BY <1>7, UnlockMoves DEF PassToken, WorkerStates
  <2> QED
    BY <1>7, <2>1 DEF PassToken, Moves, OnlyOne
<1>8. CASE DoTransmit(w)
  <2>1. Moves(w, "transmit")
    BY <1>8, UnlockMoves DEF DoTransmit, WorkerStates
  <2>2. wblk' = [wblk EXCEPT ![w] = peek(trans_q)]
    BY <1>8 DEF DoTransmit
  <2> QED
    BY <1>1, <2>1, <2>2
<1>9. CASE DoReorder(w)
  BY <1>9 DEF DoReorder, OnlyOne
<1>10. CASE /\ WorkerEnter(w) \/ WorkerWait(w, can_terminate) \/ WorkerExit(w, can_terminate)
            /\ UNCHANGED <<jobVars, iblk, wblk>>
  BY <1>0, <1>10 DEF WorkerEnter, WorkerWait, WorkerExit, OnlyOne
<1> QED
  BY <1>2, <1>3, <1>4, <1>5, <1>6, <1>7, <1>8, <1>9, <1>10 DEF Worker

(***************************************************************************)
(* Output slots.                                                           *)
(***************************************************************************)
(* The block whose turn it is has a slot, or the sink has some block.      *)
TurnHeld ==
  \/ output_q # <<>> \/ block # NULL
  \/ \E x \in ToSet(reord_q) : x.pos = order
  \/ \E w \in Workers : pc[w] = "transmit" /\ wblk[w].pos = order

SlotInv == out_slots = 0 => TurnHeld

LEMMA TurnStill ==
  ASSUME TurnHeld, UNCHANGED <<output_q, block, order>>,
         \A x \in ToSet(reord_q) : x \in ToSet(reord_q'),
         \A v \in Workers : pc[v] = "transmit" =>
           (pc'[v] = "transmit" /\ wblk'[v] = wblk[v]) \/ wblk[v] \in ToSet(reord_q')
  PROVE  TurnHeld'
<1>1. CASE output_q # <<>> \/ block # NULL
  BY <1>1 DEF TurnHeld
<1>2. CASE \E x \in ToSet(reord_q) : x.pos = order
  BY <1>2 DEF TurnHeld
<1>3. CASE \E w \in Workers : pc[w] = "transmit" /\ wblk[w].pos = order
  <2>1. PICK w \in Workers : pc[w] = "transmit" /\ wblk[w].pos = order
    BY <1>3
  <2>2. CASE pc'[w] = "transmit" /\ wblk'[w] = wblk[w]
    BY <2>1, <2>2 DEF TurnHeld
  <2>3. CASE wblk[w] \in ToSet(reord_q')
    BY <2>1, <2>3 DEF TurnHeld
  <2> QED
    BY <2>1, <2>2, <2>3
<1> QED
  BY <1>1, <1>2, <1>3 DEF TurnHeld

LEMMA WorkerSlots ==
  ASSUME Inv, SlotInv, NEW w \in Workers, Worker(w)
  PROVE  SlotInv'
<1>0. TypeInv /\ OnlyOne(w) /\ block' = block
  BY OthersStay, WorkerIO DEF Inv, Known
<1>1. CASE DoTransmit(w)
  <2> SUFFICES ASSUME out_slots' = 0 PROVE TurnHeld'
    BY DEF SlotInv
  <2>1. can_transmit
    BY <1>0, <1>1, TaskReady DEF DoTransmit, AtTask, TypeInv
  <2>2. out_slots \in Nat /\ out_slots - 1 = 0
    BY <1>0, <1>1 DEF DoTransmit, TypeInv, TypeOK
  <2>3. peek(trans_q).pos = order
    BY <2>1, <2>2 DEF can_transmit, TRANSM_THRESH, pos_eq
  <2>4. wblk'[w] = peek(trans_q) /\ order' = order
    BY <1>0, <1>1, BlockTypes DEF DoTransmit
  <2>5. pc'[w] = "transmit"
    <3>1. Moves(w, "transmit")
      BY <1>0, <1>1, UnlockMoves DEF DoTransmit, WorkerStates
    <3> QED
      BY <3>1 DEF Moves
  <2> QED
    BY <2>3, <2>4, <2>5 DEF TurnHeld
<1>2. CASE DoReorder(w)
  <2>1. output_q' = Append(output_q, Output(peek(reord_q))) /\ output_q \in Seq(OutBlk)
    BY <1>0, <1>2 DEF DoReorder, SinkWriteBuffer, TypeInv, TypeOK, SinkTypeOK
  <2>2. output_q' # <<>>
    BY <2>1
  <2> QED
    BY <2>2 DEF SlotInv, TurnHeld
<1>3. CASE Transmitted(w)
  <2>1. /\ wblk[w] \in WorkBlk /\ reord_q \in Seq(WorkBlk) /\ reord_q' = enqueue(reord_q, wblk[w])
        /\ UNCHANGED <<order, out_slots>>
    BY <1>0, <1>3, BlockTypes DEF Transmitted, TypeInv, InHand, HoldsWorkBlk
  <2>2. output_q' = output_q
    BY <1>3 DEF Transmitted, sinkVars
  <2>3. (\A x \in ToSet(reord_q) : x \in ToSet(reord_q')) /\ wblk[w] \in ToSet(reord_q')
    BY <2>1, QueueKeeps
  <2>4. TurnHeld => TurnHeld'
    BY <1>0, <2>1, <2>2, <2>3, TurnStill DEF OnlyOne
  <2> QED
    BY <2>1, <2>4 DEF SlotInv
<1>4. ASSUME pc[w] # "transmit", UNCHANGED <<output_q, order, reord_q, out_slots>> PROVE SlotInv'
  <2>1. TurnHeld => TurnHeld'
    BY <1>0, <1>4, TurnStill DEF OnlyOne
  <2> QED
    BY <1>4, <2>1 DEF SlotInv
<1>5. ASSUME NEW n, TakePart(w, n) PROVE UNCHANGED <<output_q, order, reord_q, out_slots>>
  BY <1>5 DEF TakePart, sinkVars, slotVars
<1>6. ASSUME NEW s, TakeAll(w, s) PROVE UNCHANGED <<output_q, order, reord_q, out_slots>>
  BY <1>6 DEF TakeAll, sinkVars, slotVars, jobVars
<1>7. CASE CollectPart(w) \/ CollectSeqPart(w)
  BY <1>4, <1>5, <1>7 DEF CollectPart, CollectSeqPart
<1>8. CASE CollectAll(w) \/ CollectSeqAll(w)
  BY <1>4, <1>6, <1>8 DEF CollectAll, CollectSeqAll
<1>9. CASE DoCollect(w) \/ DoCollectSeq(w)
  BY <1>4, <1>9 DEF DoCollect, DoCollectSeq, AtTask, sinkVars
<1>10. CASE KeepUnfinished(w) \/ PassToken(w) \/ Encoded(w)
  BY <1>4, <1>10 DEF KeepUnfinished, PassToken, Encoded, sinkVars, slotVars
<1>11. CASE /\ WorkerEnter(w) \/ WorkerWait(w, can_terminate) \/ WorkerExit(w, can_terminate)
            /\ UNCHANGED <<jobVars, iblk, wblk>>
  BY <1>4, <1>11 DEF WorkerEnter, WorkerWait, WorkerExit, AtTask, sinkVars, slotVars, jobVars
<1> QED
  BY <1>1, <1>2, <1>3, <1>7, <1>8, <1>9, <1>10, <1>11 DEF Worker

LEMMA NextSlots == Inv /\ SlotInv /\ [Next]_vars => SlotInv'
<1> SUFFICES ASSUME Inv, SlotInv, [Next]_vars PROVE SlotInv'
  OBVIOUS
<1>0. TypeInv
  BY DEF Inv, Known
(* Steps that change nothing of what holds a slot.                         *)
<1>1. ASSUME UNCHANGED <<output_q, block, order, reord_q, out_slots, wblk>>,
             \A v \in Workers : pc'[v] = pc[v] \/ pc[v] = "waiting"
      PROVE  SlotInv'
  <2>1. TurnHeld => TurnHeld'
    BY <1>1, TurnStill
  <2> QED
    BY <1>1, <2>1 DEF SlotInv
<1>2. ASSUME Unlock(pc) PROVE \A v \in Workers : pc'[v] = pc[v] \/ pc[v] = "waiting"
  BY <1>0, <1>2, BlockTypes, UnlockEffect
<1>3. ASSUME NEW w \in Workers, Worker(w) PROVE SlotInv'
  BY <1>3, WorkerSlots
<1>4. CASE Source
  <2>1. UNCHANGED <<output_q, block, order, reord_q, out_slots, wblk>>
    BY <1>4 DEF Source, OnInputAvail, SourceOnly, SourceStall, SourceTakeSlot, SourceClosed, SourceRead,
                SourceSetsEof, sinkVars, slotVars, jobVars
  <2>2. Unlock(pc) \/ pc' = pc
    BY <1>4 DEF Source, OnInputAvail, SourceOnly, SourceStall, SourceTakeSlot, SourceClosed, SourceRead,
                SourceSetsEof, Unlock, schedVars
  <2> QED
    BY <1>1, <1>2, <2>1, <2>2
<1>5. CASE Sink
  <2>1. CASE OnWriteComplete
    <3>1. out_slots' # 0
      BY <1>0, <2>1 DEF OnWriteComplete, TypeInv, TypeOK
    <3> QED
      BY <3>1 DEF SlotInv
  <2>2. CASE SinkTake
    <3>1. block' # NULL
      <4>1. output_q \in Seq(OutBlk) /\ output_q # <<>> /\ block' = Head(output_q)
        BY <1>0, <2>2 DEF SinkTake, TypeInv, TypeOK, SinkTypeOK
      <4>2. block' \in OutBlk
        BY <4>1
      <4> QED
        BY <4>2, BlockAssumption
    <3> QED
      BY <3>1 DEF SlotInv, TurnHeld
  <2>3. CASE (SinkStall \/ SinkWrite \/ SinkExit) /\ UNCHANGED <<jobVars, iblk, wblk>>
    BY <1>1, <2>3 DEF SinkStall, SinkWrite, SinkExit, schedVars, slotVars, jobVars
  <2> QED
    BY <1>5, <2>1, <2>2, <2>3 DEF Sink, SinkOnly
<1>6. CASE Primary
  BY <1>1, <1>6 DEF Primary, PrimaryOnly, JoinWorkersAndSource, JoinSink, sinkVars, schedVars, slotVars, jobVars
<1>7. CASE Spurious
  <2>1. \A v \in Workers : pc'[v] = pc[v] \/ pc[v] = "waiting"
    BY <1>0, <1>7, BlockTypes DEF Spurious, SpuriousWakeup, Waiting
  <2> QED
    BY <1>1, <1>7, <2>1 DEF Spurious, SpuriousWakeup, slotVars, jobVars
<1>8. CASE UNCHANGED vars
  BY <1>1, <1>8 DEF vars, procVars, sinkVars, schedVars, slotVars, jobVars
<1> QED
  BY <1>3, <1>4, <1>5, <1>6, <1>7, <1>8 DEF Next, Over

(* When all output slots are taken the sink has something to write, or the *)
(* block whose turn it is can be handed to it or is being transmitted:     *)
(* the slots that TRANSM_THRESH keeps suffice, however many there are.     *)
THEOREM NeverStarves == Spec => []OutputNeverStarves
<1>1. Init => SlotInv
  BY ProcessAssumption DEF Init, ProcessInit, SlotInv
<1>2. Spec => []SlotInv
  BY <1>1, NextSlots, Safe, PTL DEF Spec
<1>3. Inv /\ SlotInv => OutputNeverStarves
  <2> SUFFICES ASSUME Inv, TurnHeld
               PROVE  \/ output_q # <<>> \/ block # NULL
                      \/ can_reorder
                      \/ \E w \in At({"transmit"}) : pos_eq(wblk[w].pos, order)
    BY DEF SlotInv, OutputNeverStarves
  <2>1. CASE \E x \in ToSet(reord_q) : x.pos = order
    <3>1. PICK x \in ToSet(reord_q) : x.pos = order
      BY <2>1
    <3>2. reord_q \in Seq(WorkBlk) /\ Sorted(reord_q) /\ \A b \in WorkBlk : b.pos \in Position
      BY BlockTypes DEF Inv, Known, OrderInv, BlocksInv, PlaceInv
    <3>3. reord_q # <<>>
      BY <3>1, <3>2, ToSetOf
    <3>4. /\ peek(reord_q) \in ToSet(reord_q) /\ pos_le(peek(reord_q).pos, order)
      BY <3>1, <3>2, <3>3, DequeueSorted
    <3>5. peek(reord_q) \in WorkBlks
      BY <3>4, WorkBlksAre
    <3>6. pos_le(order, peek(reord_q).pos) /\ peek(reord_q).pos \in Position /\ order \in Position
      BY <3>5, Facts DEF InFlight, NotBehind
    <3>7. peek(reord_q).pos = order
      BY <3>4, <3>6, PosOrder
    <3> QED
      BY <3>3, <3>7 DEF can_reorder, pos_eq
  <2>2. CASE \E w \in Workers : pc[w] = "transmit" /\ wblk[w].pos = order
    BY <2>2 DEF At, pos_eq
  <2> QED
    BY <2>1, <2>2 DEF TurnHeld
<1> QED
  BY <1>2, <1>3, Safe, PTL

(***************************************************************************)
(* Work units.                                                             *)
(***************************************************************************)
(* The blocks that have a work unit.                                       *)
InWork == ToSet(trans_q) \cup Hands(wblk) \cup ({unfinished_work} \ {NULL})

(* The first input block has a unit, or a block before it does.            *)
UnitInv ==
  coll_q # <<>> => work_units > 0 \/ \E b \in InWork : pos_lt(b.pos, peek(coll_q).pos)

LEMMA InWorkAre ==
  /\ \A x : x \in InWork <=> \/ x \in ToSet(trans_q) \/ (x # NULL /\ x = unfinished_work)
                             \/ \E v \in Workers : wblk[v] # NULL /\ wblk[v] = x
  /\ \A x : x \in InWork' <=> \/ x \in ToSet(trans_q') \/ (x # NULL /\ x = unfinished_work')
                              \/ \E v \in Workers : wblk'[v] # NULL /\ wblk'[v] = x
  BY DEF InWork, Hands, Holding

(* The blocks in work stay there, and the first input block is the same.   *)
LEMMA UnitStill ==
  ASSUME UnitInv, coll_q' # <<>> => coll_q # <<>> /\ peek(coll_q').pos = peek(coll_q).pos,
         work_units' = work_units, \A b \in InWork : \E c \in InWork' : c.pos = b.pos
  PROVE  UnitInv'
<1> SUFFICES ASSUME coll_q' # <<>>, ~ (work_units' > 0)
             PROVE  \E c \in InWork' : pos_lt(c.pos, peek(coll_q').pos)
  BY DEF UnitInv
<1>1. PICK b \in InWork : pos_lt(b.pos, peek(coll_q).pos)
  BY DEF UnitInv
<1>2. PICK c \in InWork' : c.pos = b.pos
  BY <1>1
<1> QED
  BY <1>1, <1>2

(* The worker of a step passes its block on.                               *)
LEMMA WorkStays ==
  ASSUME NEW w \in Workers, OnlyOne(w),
         \A x \in ToSet(trans_q) : x \in ToSet(trans_q') \/ (x # NULL /\ wblk'[w] = x),
         unfinished_work' = unfinished_work \/ unfinished_work = NULL
           \/ (unfinished_work # NULL /\ wblk'[w] = unfinished_work),
         wblk[w] # NULL =>
           \/ wblk'[w] # NULL /\ wblk'[w].pos = wblk[w].pos
           \/ wblk[w] \in ToSet(trans_q') \/ unfinished_work' = wblk[w]
  PROVE  \A b \in InWork : \E c \in InWork' : c.pos = b.pos
<1> SUFFICES ASSUME NEW b \in InWork PROVE \E c \in InWork' : c.pos = b.pos
  OBVIOUS
<1>1. CASE b \in ToSet(trans_q)
  BY <1>1, InWorkAre
<1>2. CASE b # NULL /\ b = unfinished_work
  BY <1>2, InWorkAre
<1>3. CASE \E v \in Workers : wblk[v] # NULL /\ wblk[v] = b
  <2>1. PICK v \in Workers : wblk[v] # NULL /\ wblk[v] = b
    BY <1>3
  <2>2. CASE v = w
    BY <2>1, <2>2, InWorkAre
  <2>3. CASE v # w
    <3>1. wblk'[v] = b /\ wblk'[v] # NULL
      BY <2>1, <2>3 DEF OnlyOne
    <3> QED
      BY <3>1, InWorkAre
  <2> QED
    BY <2>2, <2>3
<1> QED
  BY <1>1, <1>2, <1>3, InWorkAre

(* A worker that takes the first input block works on it, or on the block  *)
(* before it: in any case before what is now the first input block.        *)
LEMMA TakeFirst ==
  ASSUME Inv, NEW w \in Workers, coll_q # <<>>, coll_q' = dequeue(coll_q),
         wblk'[w] # NULL, pos_le(wblk'[w].pos, peek(coll_q).pos), wblk'[w].pos \in Position
  PROVE  UnitInv'
<1> SUFFICES ASSUME coll_q' # <<>> PROVE \E b \in InWork' : pos_lt(b.pos, peek(coll_q').pos)
  BY DEF UnitInv
<1>1. coll_q \in Seq(InBlk) /\ Sorted(coll_q) /\ \A i \in InBlk : i.pos \in Position
  BY BlockTypes DEF Inv, Known, OrderInv, BlocksInv, PlaceInv
<1>2. 1 \in 1 .. Len(coll_q) /\ 2 \in 1 .. Len(coll_q) /\ peek(coll_q') = coll_q[2] /\ peek(coll_q) = coll_q[1]
  BY <1>1 DEF peek, dequeue
<1>3. pos_lt(coll_q[1].pos, coll_q[2].pos) /\ coll_q[1].pos \in Position /\ coll_q[2].pos \in Position
  BY <1>1, <1>2 DEF Sorted
<1>4. pos_lt(wblk'[w].pos, peek(coll_q').pos)
  BY <1>2, <1>3, PosOrder
<1> QED
  BY <1>4, InWorkAre

LEMMA PartUnits ==
  ASSUME Inv, UnitInv, NEW w \in Workers, OnlyOne(w), pc[w] \in HoldsInBlk,
         NEW n \in 0 .. iblk[w].left - 1, TakePart(w, n)
  PROVE  UnitInv'
<1> DEFINE i == iblk[w]
           rest == [pos |-> <<i.pos[1], i.pos[2] + 1>>, next |-> i.next + n, left |-> i.left - n]
<1>0. TypeInv /\ BlocksInv
  BY DEF Inv, Known, OrderInv
<1>1. /\ i \in InBlk /\ i.pos \in Position /\ wblk[w] \in WorkBlk /\ wblk[w] \in WorkBlks /\ wblk[w].next = i.pos
      /\ wblk[w].pos \in Position /\ i.next \in Nat /\ i.left \in Nat
  BY <1>0, AtInBlk, BlockTypes DEF InBlk
<1>2. rest \in InBlk /\ rest.pos = <<i.pos[1], i.pos[2] + 1>>
  BY <1>1 DEF InBlk, Position
<1>3. coll_q' = enqueue(coll_q, rest) /\ UNCHANGED <<trans_q, unfinished_work, work_units>>
  BY DEF TakePart, slotVars
<1>4. wblk'[w].pos = wblk[w].pos /\ wblk'[w] # NULL
  BY <1>0, TakeStays
<1> HIDE DEF rest
<1>5. \A b \in InWork : \E c \in InWork' : c.pos = b.pos
  BY <1>3, <1>4, WorkStays
<1>6. peek(coll_q') = rest \/ (coll_q # <<>> /\ peek(coll_q') = peek(coll_q))
  BY <1>0, <1>2, <1>3, BlockTypes, QueueKeeps
<1>7. CASE peek(coll_q') = rest
  <2>1. pos_le(wblk[w].pos, i.pos)
    BY <1>1, Facts DEF InFlight, Filled
  <2>2. pos_lt(i.pos, rest.pos) /\ rest.pos \in Position
    BY <1>1, <1>2, PosSteps
  <2>3. pos_lt(wblk'[w].pos, peek(coll_q').pos)
    BY <1>1, <1>4, <1>7, <2>1, <2>2, PosOrder
  <2> QED
    BY <1>4, <2>3, InWorkAre DEF UnitInv
<1>8. CASE coll_q # <<>> /\ peek(coll_q') = peek(coll_q)
  BY <1>3, <1>5, <1>8, UnitStill
<1> QED
  BY <1>6, <1>7, <1>8

LEMMA InputUnits ==
  ASSUME Inv, UnitInv, OnInputAvail
  PROVE  UnitInv'
<1>0. TypeInv /\ source = "deliver"
  BY DEF Inv, Known, OnInputAvail
<1>1. /\ coll_q' = enqueue(coll_q, NewInBlk) /\ NewInBlk.pos = <<next_id, 0>>
      /\ UNCHANGED <<trans_q, unfinished_work, work_units, wblk>>
  BY DEF OnInputAvail, slotVars, NewInBlk
<1>2. NewInBlk \in InBlk
  BY <1>0 DEF NewInBlk, InBlk, Position, TypeInv, TypeOK, SourceTypeOK, QueueTypeOK, ReadSoFar
<1>3. peek(coll_q') = NewInBlk \/ (coll_q # <<>> /\ peek(coll_q') = peek(coll_q))
  BY <1>0, <1>1, <1>2, BlockTypes, QueueKeeps
<1>4. InWork' = InWork
  BY <1>1, InWorkAre
<1>5. CASE coll_q # <<>> /\ peek(coll_q') = peek(coll_q)
  BY <1>1, <1>4, <1>5, UnitStill
<1>6. CASE peek(coll_q') = NewInBlk
  <2>1. ASSUME NEW b \in InWork PROVE pos_lt(b.pos, <<next_id, 0>>)
    <3>1. b \in WorkBlks
      BY WorkBlksAre DEF InWork
    <3>2. <<b.next, b.hi>> \in Claims(file_len, WorkBlks, Ins, order, Front1, next_id)
      BY <3>1 DEF Claims
    <3>3. pos_le(<<b.next, b.hi>>[1], <<next_id, 0>>) /\ pos_le(b.pos, b.next)
      BY <3>1, <3>2, Facts DEF InFlight, Agree, Filled
    <3>4. b.pos \in Position /\ b.next \in Position /\ <<next_id, 0>> \in Position
      BY <3>1, Facts
    <3>5. CASE b.pos # b.next
      BY <3>3, <3>4, <3>5, PosOrder
    <3>6. CASE b.pos = b.next
      <4>1. PICK i \in Ins : i.pos = b.pos
        BY <3>1, <3>6, Facts DEF InFlight, Filled
      <4>2. i.pos[1] < next_id
        BY Facts DEF InFlight, Rests
      <4> QED
        BY <4>1, <4>2 DEF pos_lt
    <3> QED
      BY <3>5, <3>6
  <2>2. CASE InWork = {}
    <3>1. Holding(wblk) = {} /\ ToSet(trans_q) = {} /\ unfinished_work = NULL
      <4>1. \A x : x \in ToSet(trans_q) => FALSE
        BY <2>2, InWorkAre
      <4>2. \A v \in Workers : wblk[v] = NULL
        BY <2>2, InWorkAre
      <4>3. unfinished_work = NULL
        BY <2>2, InWorkAre
      <4> QED
        BY <4>1, <4>2, <4>3 DEF Holding
    <3>2. Len(trans_q) = 0
      <4>1. trans_q \in Seq(WorkBlk) /\ Len(trans_q) \in Nat
        BY <1>0, BlockTypes, ToSetOf
      <4>2. Len(trans_q) # 0 => trans_q[1] \in ToSet(trans_q)
        BY <4>1, ToSetOf
      <4> QED
        BY <3>1, <4>2
    <3>3. Cardinality(Holding(wblk)) = 0 /\ UnitsUnfinished = 0
      BY <3>1, FS_EmptySet DEF UnitsUnfinished
    <3>4. work_units = num_worker
      <4>1. work_units \in Nat
        BY <1>0 DEF TypeInv, TypeOK
      <4> QED
        BY <3>2, <3>3, <4>1 DEF Inv, Known, WorkUnitsConserved, AllWorkUnits
    <3>5. num_worker \in Nat /\ num_worker # 0
      BY ProcessAssumption, CompressionAssumption, FS_CardinalityType, FS_EmptySet DEF num_worker
    <3> QED
      BY <1>1, <3>4, <3>5 DEF UnitInv
  <2>3. CASE InWork # {}
    <3>1. \E b \in InWork' : pos_lt(b.pos, peek(coll_q').pos)
      BY <1>1, <1>4, <1>6, <2>1, <2>3
    <3> QED
      BY <3>1 DEF UnitInv
  <2> QED
    BY <2>2, <2>3
<1> QED
  BY <1>3, <1>5, <1>6

LEMMA WorkerUnits ==
  ASSUME Inv, UnitInv, NEW w \in Workers, Worker(w)
  PROVE  UnitInv'
<1>0. TypeInv /\ OnlyOne(w)
  BY OthersStay DEF Inv, Known
<1>1. /\ coll_q \in Seq(InBlk) /\ trans_q \in Seq(WorkBlk) /\ NULL \notin WorkBlk
      /\ wblk \in [Workers -> WorkBlk \cup {NULL}]
      /\ unfinished_work \in WorkBlk \cup {NULL}
      /\ pc[w] \in HoldsWorkBlk => wblk[w] # NULL /\ wblk[w] \in WorkBlk
      /\ pc[w] = "loop" => wblk[w] = NULL
  BY <1>0, BlockTypes DEF TypeInv, InHand, HoldsWorkBlk
(* Steps that leave the queue alone.                                       *)
<1>2. ASSUME coll_q' = coll_q, work_units' = work_units,
             \A x \in ToSet(trans_q) : x \in ToSet(trans_q') \/ (x # NULL /\ wblk'[w] = x),
             unfinished_work' = unfinished_work \/ unfinished_work = NULL
               \/ (unfinished_work # NULL /\ wblk'[w] = unfinished_work),
             wblk[w] # NULL =>
               \/ wblk'[w] # NULL /\ wblk'[w].pos = wblk[w].pos
               \/ wblk[w] \in ToSet(trans_q') \/ unfinished_work' = wblk[w]
      PROVE  UnitInv'
  <2>1. \A b \in InWork : \E c \in InWork' : c.pos = b.pos
    BY <1>0, <1>2, WorkStays
  <2> QED
    BY <1>2, <2>1, UnitStill
<1>3. CASE DoCollect(w)
  <2> DEFINE x == NewWorkBlk(peek(coll_q))
  <2>1. coll_q # <<>> /\ coll_q' = dequeue(coll_q) /\ wblk' = [wblk EXCEPT ![w] = x]
    BY <1>0, <1>3, TaskReady DEF DoCollect, AtTask, can_collect, TypeInv
  <2>2. peek(coll_q) \in InBlk
    BY <1>1, <2>1 DEF peek
  <2>3. x \in WorkBlk /\ x.pos = peek(coll_q).pos /\ x.pos \in Position
    BY <2>2 DEF NewWorkBlk, InBlk, WorkBlk
  <2> HIDE DEF x
  <2>4. wblk'[w] = x
    BY <1>1, <2>1
  <2>5. wblk'[w] # NULL /\ wblk'[w].pos \in Position /\ pos_le(wblk'[w].pos, peek(coll_q).pos)
    BY <1>1, <2>3, <2>4, PosOrder
  <2> QED
    BY <2>1, <2>5, TakeFirst
<1>4. CASE DoCollectSeq(w)
  <2> DEFINE x == IF unfinished_work = NULL THEN NewWorkBlk(peek(coll_q)) ELSE unfinished_work
             q == IF coll_q # <<>> THEN dequeue(coll_q) ELSE coll_q
  <2>1. wblk' = [wblk EXCEPT ![w] = x] /\ coll_q' = q
    BY <1>4 DEF DoCollectSeq
  <2>2. CASE coll_q = <<>>
    BY <2>1, <2>2 DEF UnitInv
  <2>3. CASE coll_q # <<>>
    <3>1. coll_q' = dequeue(coll_q) /\ peek(coll_q) \in InBlk /\ peek(coll_q) \in Ins
      <4>1. Len(coll_q) \in Nat \ {0} /\ 1 \in 1 .. Len(coll_q)
        BY <1>1, <2>3
      <4>2. peek(coll_q) \in ToSet(coll_q)
        BY <1>1, <4>1, ToSetOf DEF peek
      <4> QED
        BY <1>1, <2>1, <2>3, <4>1, <4>2, InsAre DEF peek
    <3>2. x \in WorkBlk /\ x.pos \in Position /\ pos_le(x.pos, peek(coll_q).pos)
      <4>1. CASE unfinished_work = NULL
        <5>1. x \in WorkBlk /\ x.pos = peek(coll_q).pos /\ x.pos \in Position
          BY <3>1, <4>1 DEF NewWorkBlk, InBlk, WorkBlk
        <5> QED
          BY <5>1, PosOrder
      <4>2. CASE unfinished_work # NULL
        <5>1. x = unfinished_work /\ x \in WorkBlks /\ x \in WorkBlk
          BY <1>1, <4>2, WorkBlksAre
        <5>2. ultra /\ UltraInv
          <6>1. UltraInv
            BY DEF Inv, OrderInv, BlocksInv
          <6>2. can_collect_seq
            BY <1>0, <1>4, TaskReady DEF DoCollectSeq, AtTask, TypeInv
          <6> QED
            BY <6>1, <6>2 DEF can_collect_seq
        <5>3. pos_le(x.next, peek(coll_q).pos)
          BY <3>1, <5>1, <5>2 DEF UltraInv
        <5>4. pos_le(x.pos, x.next)
          BY <5>1, Facts DEF InFlight, Filled
        <5>5. x.pos \in Position /\ x.next \in Position /\ peek(coll_q).pos \in Position
          BY <3>1, <5>1 DEF WorkBlk, InBlk
        <5> HIDE DEF x
        <5> QED
          BY <5>1, <5>3, <5>4, <5>5, PosOrder
      <4> QED
        BY <4>1, <4>2
    <3> HIDE DEF x, q
    <3>3. wblk'[w] = x /\ wblk'[w] # NULL
      BY <1>1, <2>1, <3>2
    <3> QED
      BY <2>3, <3>1, <3>2, <3>3, TakeFirst
  <2> QED
    BY <2>2, <2>3
<1>5. CASE CollectPart(w) \/ CollectSeqPart(w)
  <2>1. pc[w] \in HoldsInBlk
    BY <1>5 DEF CollectPart, CollectSeqPart, HoldsInBlk
  <2>2. iblk[w] \in InBlk
    BY <1>0, <2>1, BlockTypes DEF TypeInv, InHand
  <2>3. PICK n \in 0 .. iblk[w].left - 1 : TakePart(w, n)
    BY <1>5, <2>2 DEF CollectPart, CollectSeqPart, InBlk
  <2> QED
    BY <1>0, <2>1, <2>3, PartUnits
<1>6. CASE CollectAll(w) \/ CollectSeqAll(w)
  <2>1. pc[w] \in HoldsInBlk
    BY <1>6 DEF CollectAll, CollectSeqAll, HoldsInBlk
  <2>2. \E s : TakeAll(w, s)
    BY <1>6 DEF CollectAll, CollectSeqAll
  <2>3. UNCHANGED <<coll_q, work_units, trans_q, unfinished_work>>
    BY <2>2 DEF TakeAll, jobVars, slotVars
  <2>4. wblk'[w] # NULL /\ wblk'[w].pos = wblk[w].pos
    BY <1>0, <2>1, <2>2, TakeStays
  <2> QED
    BY <1>2, <2>3, <2>4
<1>7. CASE KeepUnfinished(w)
  <2>1. unfinished_work = NULL
    BY <1>7 DEF KeepUnfinished, Collector, Inv, TokenInv
  <2>2. UNCHANGED <<coll_q, trans_q, work_units>> /\ unfinished_work' = wblk[w]
    BY <1>7 DEF KeepUnfinished, slotVars
  <2> QED
    BY <1>2, <2>1, <2>2
<1>8. CASE PassToken(w)
  BY <1>1, <1>2, <1>8 DEF PassToken, slotVars
<1>9. CASE Encoded(w)
  <2>1. wblk[w] \in WorkBlk
    BY <1>1, <1>9 DEF Encoded, HoldsWorkBlk
  <2>2. trans_q' = enqueue(trans_q, wblk[w]) /\ UNCHANGED <<coll_q, unfinished_work, work_units>>
    BY <1>9 DEF Encoded, slotVars
  <2>3. (\A x \in ToSet(trans_q) : x \in ToSet(trans_q')) /\ wblk[w] \in ToSet(trans_q')
    BY <1>1, <2>1, <2>2, QueueKeeps
  <2> QED
    BY <1>2, <2>2, <2>3
<1>10. CASE DoTransmit(w)
  <2>1. trans_q # <<>> /\ pc[w] = "loop"
    BY <1>0, <1>10, TaskReady DEF DoTransmit, AtTask, can_transmit, TypeInv
  <2>2. /\ trans_q' = dequeue(trans_q) /\ wblk'[w] = peek(trans_q)
        /\ UNCHANGED <<coll_q, unfinished_work, work_units>>
    BY <1>1, <1>10 DEF DoTransmit
  <2>3. \A x \in ToSet(trans_q) : x = peek(trans_q) \/ x \in ToSet(trans_q')
    BY <1>1, <2>1, <2>2, QueueKeeps
  <2>4. \A x \in ToSet(trans_q) : x # NULL
    BY <1>1, ToSetOf
  <2> QED
    BY <1>1, <1>2, <2>1, <2>2, <2>3, <2>4
<1>11. CASE Transmitted(w)
  <2>1. work_units' > 0
    BY <1>0, <1>11 DEF Transmitted, TypeInv, TypeOK
  <2> QED
    BY <2>1 DEF UnitInv
<1>12. CASE DoReorder(w)
  <2>1. UNCHANGED <<coll_q, trans_q, unfinished_work, work_units, wblk>>
    BY <1>12 DEF DoReorder, slotVars
  <2> QED
    BY <1>2, <2>1
<1>13. CASE /\ WorkerEnter(w) \/ WorkerWait(w, can_terminate) \/ WorkerExit(w, can_terminate)
            /\ UNCHANGED <<jobVars, iblk, wblk>>
  <2>1. UNCHANGED <<coll_q, trans_q, unfinished_work, work_units, wblk>>
    BY <1>13 DEF WorkerEnter, WorkerWait, WorkerExit, slotVars, jobVars
  <2> QED
    BY <1>2, <2>1
<1> QED
  BY <1>3, <1>4, <1>5, <1>6, <1>7, <1>8, <1>9, <1>10, <1>11, <1>12, <1>13 DEF Worker

LEMMA NextUnits == Inv /\ UnitInv /\ [Next]_vars => UnitInv'
<1> SUFFICES ASSUME Inv, UnitInv, [Next]_vars PROVE UnitInv'
  OBVIOUS
<1>1. ASSUME UNCHANGED <<coll_q, trans_q, unfinished_work, work_units, wblk>> PROVE UnitInv'
  <2>1. InWork' = InWork
    BY <1>1, InWorkAre
  <2> QED
    BY <1>1, <2>1, UnitStill
<1>2. ASSUME NEW w \in Workers, Worker(w) PROVE UnitInv'
  BY <1>2, WorkerUnits
<1>3. CASE Source
  <2>1. CASE OnInputAvail
    BY <2>1, InputUnits
  <2>2. CASE ~ OnInputAvail
    BY <1>1, <1>3, <2>2 DEF Source, SourceOnly, SourceStall, SourceTakeSlot, SourceClosed, SourceRead,
                            SourceSetsEof, slotVars, schedVars, jobVars
  <2> QED
    BY <2>1, <2>2
<1>4. CASE Sink
  BY <1>1, <1>4 DEF Sink, OnWriteComplete, SinkOnly, SinkStall, SinkTake, SinkWrite, SinkExit,
                    slotVars, schedVars, jobVars
<1>5. CASE Primary
  BY <1>1, <1>5 DEF Primary, PrimaryOnly, JoinWorkersAndSource, JoinSink, schedVars, slotVars, jobVars
<1>6. CASE Spurious
  BY <1>1, <1>6 DEF Spurious, SpuriousWakeup, slotVars, jobVars
<1>7. CASE UNCHANGED vars
  BY <1>1, <1>7 DEF vars, procVars, schedVars, slotVars, jobVars
<1> QED
  BY <1>2, <1>3, <1>4, <1>5, <1>6, <1>7 DEF Next, Over

(* The first block of the input queue has a work unit, unless a block      *)
(* before it is in work: what is behind it never takes the last one, in    *)
(* whatever order the rests of input blocks are queued.                    *)
THEOREM UnitForNext == Spec => []UnitForNextBlock
<1>1. Init => UnitInv
  BY DEF Init, UnitInv
<1>2. Spec => []UnitInv
  BY <1>1, NextUnits, Safe, PTL DEF Spec
<1>3. Inv /\ UnitInv => UnitForNextBlock
  <2> SUFFICES ASSUME Inv, UnitInv PROVE UnitForNextBlock
    OBVIOUS
  <2> SUFFICES ASSUME coll_q # <<>>, NEW b \in InWork, pos_lt(b.pos, peek(coll_q).pos)
               PROVE  \E x \in WorkBlks \ ToSet(reord_q) : pos_lt(x.pos, peek(coll_q).pos)
    <3>1. TypeInv
      BY DEF Inv, Known
    <3>2. work_units \in Nat
      BY <3>1 DEF TypeInv, TypeOK
    <3> QED
      BY <3>2 DEF UnitInv, UnitForNextBlock
  <2>1. PlaceInv
    BY DEF Inv, OrderInv, BlocksInv
  <2>2. b \in WorkBlks
    BY WorkBlksAre DEF InWork
  <2>3. b \notin ToSet(reord_q)
    BY <2>1 DEF InWork, PlaceInv
  <2> QED
    BY <2>2, <2>3
<1> QED
  BY <1>2, <1>3, Safe, PTL

(***************************************************************************)
(* The pipeline does not stand still.                                      *)
(***************************************************************************)
(* Why threads sleep, and since when the primary thread does not.          *)
SleepInv ==
  /\ source = "stalled" => in_slots = 0
  /\ sink = "stalled" => output_q = <<>> /\ ~ finish
  /\ shutdown # "running" => finish

LEMMA ReleaseWakes ==
  ASSUME SleepInv, SourceReleaseBuffer, UNCHANGED <<sinkVars, shutdown>>
  PROVE  SleepInv'
  BY DEF SleepInv, SourceReleaseBuffer, sinkVars

LEMMA NextSleep == TypeInv /\ SleepInv /\ [Next]_vars => SleepInv'
<1> SUFFICES ASSUME TypeInv, SleepInv, [Next]_vars PROVE SleepInv'
  OBVIOUS
<1>0. output_q \in Seq(OutBlk) /\ in_slots \in Nat
  BY DEF TypeInv, TypeOK, SinkTypeOK, SourceTypeOK
<1>1. ASSUME UNCHANGED <<source, in_slots, sink, output_q, finish, shutdown>> PROVE SleepInv'
  BY <1>1 DEF SleepInv
<1>2. ASSUME NEW w \in Workers, Worker(w) PROVE SleepInv'
  <2>1. CASE DoReorder(w)
    BY <2>1 DEF DoReorder, SinkWriteBuffer, SleepInv, sourceVars
  <2>2. CASE CollectAll(w)
    BY <2>2, ReleaseWakes DEF CollectAll, TakeAll
  <2>3. CASE CollectSeqAll(w)
    BY <2>3, ReleaseWakes DEF CollectSeqAll, TakeAll
  <2>4. CASE ~ DoReorder(w) /\ ~ CollectAll(w) /\ ~ CollectSeqAll(w)
    <3>1. UNCHANGED <<sourceVars, sinkVars, shutdown>>
      BY <1>2, <2>4 DEF Worker, WorkerEnter, WorkerWait, WorkerExit, DoCollect, CollectPart, TakePart,
                        DoCollectSeq, CollectSeqPart, KeepUnfinished, PassToken, Encoded, DoTransmit,
                        Transmitted
    <3> QED
      BY <1>1, <3>1 DEF sourceVars, sinkVars
  <2> QED
    BY <2>1, <2>2, <2>3, <2>4
<1>3. CASE Source
  BY <1>0, <1>3 DEF Source, OnInputAvail, AfterDelivery, SourceOnly, SourceStall, SourceTakeSlot, SourceClosed,
                    SourceRead, SourceSetsEof, SleepInv, sinkVars
<1>4. CASE Sink
  BY <1>0, <1>4 DEF Sink, OnWriteComplete, SinkOnly, SinkStall, SinkTake, SinkWrite, SinkExit, SleepInv, sourceVars
<1>5. CASE Primary
  BY <1>5 DEF Primary, PrimaryOnly, JoinWorkersAndSource, JoinSink, SleepInv, sourceVars, sinkVars
<1>6. CASE Spurious
  BY <1>6 DEF Spurious, SpuriousWakeup, SleepInv
<1>7. CASE UNCHANGED vars
  BY <1>1, <1>7 DEF vars, procVars, sourceVars, sinkVars
<1> QED
  BY <1>2, <1>3, <1>4, <1>5, <1>6, <1>7 DEF Next, Over

(* Encoders are kept for more input only with ultra.                       *)
UltraOnly == unfinished_work # NULL \/ (\E w \in Workers : pc[w] \in Collector) => ultra

LEMMA NextUltraOnly == TypeInv /\ UltraOnly /\ [Next]_vars => UltraOnly'
<1> SUFFICES ASSUME TypeInv, UltraOnly, [Next]_vars PROVE UltraOnly'
  OBVIOUS
<1>0. pc \in [Workers -> WorkerStates]
  BY BlockTypes
<1>1. ASSUME unfinished_work' # NULL => unfinished_work # NULL,
             \A v \in Workers : pc'[v] \in Collector => pc[v] \in Collector
      PROVE  UltraOnly'
  BY <1>1 DEF UltraOnly
<1>2. ASSUME NEW w \in Workers, NEW s, Moves(w, s), s \in Collector => pc[w] \in Collector,
             unfinished_work' = unfinished_work
      PROVE  UltraOnly'
  BY <1>1, <1>2 DEF Moves, Collector
<1>3. ASSUME ultra PROVE UltraOnly'
  BY <1>3 DEF UltraOnly
<1>4. ASSUME NEW w \in Workers, Worker(w) PROVE UltraOnly'
  <2>1. CASE DoCollectSeq(w)
    <3>1. ultra
      BY <2>1, TaskReady DEF DoCollectSeq, AtTask, TypeInv, can_collect_seq
    <3> QED
      BY <1>3, <3>1
  <2>2. CASE pc[w] \in Collector
    BY <1>3, <2>2 DEF UltraOnly
  <2>3. CASE DoCollect(w)
    <3>1. Moves(w, "collect") /\ unfinished_work' = unfinished_work
      BY <2>3, UnlockMoves DEF DoCollect, AtTask, WorkerStates
    <3> QED
      BY <1>2, <3>1 DEF Collector
  <2>4. CASE CollectPart(w)
    <3>1. Moves(w, "encode") /\ unfinished_work' = unfinished_work
      BY <2>4, UnlockMoves DEF CollectPart, TakePart, WorkerStates
    <3> QED
      BY <1>2, <3>1 DEF Collector
  <2>5. CASE CollectAll(w)
    <3>1. Moves(w, "encode") /\ unfinished_work' = unfinished_work
      BY <1>0, <2>5 DEF CollectAll, TakeAll, Moves, jobVars
    <3> QED
      BY <1>2, <3>1 DEF Collector
  <2>6. CASE CollectSeqPart(w) \/ CollectSeqAll(w) \/ KeepUnfinished(w) \/ PassToken(w)
    BY <2>2, <2>6 DEF CollectSeqPart, CollectSeqAll, KeepUnfinished, PassToken, Collector
  <2>7. CASE Encoded(w) \/ Transmitted(w)
    <3>1. Moves(w, "loop") /\ unfinished_work' = unfinished_work
      BY <2>7, ReturnMoves DEF Encoded, Transmitted
    <3> QED
      BY <1>2, <3>1 DEF Collector
  <2>8. CASE DoTransmit(w)
    <3>1. Moves(w, "transmit") /\ unfinished_work' = unfinished_work
      BY <2>8, UnlockMoves DEF DoTransmit, AtTask, WorkerStates
    <3> QED
      BY <1>2, <3>1 DEF Collector
  <2>9. CASE DoReorder(w)
    BY <1>1, <2>9 DEF DoReorder
  <2>10. CASE /\ WorkerEnter(w) \/ WorkerWait(w, can_terminate) \/ WorkerExit(w, can_terminate)
              /\ UNCHANGED <<jobVars, iblk, wblk>>
    <3>1. unfinished_work' = unfinished_work
      BY <2>10 DEF jobVars
    <3>2. \A v \in Workers : pc'[v] \in Collector => pc[v] \in Collector
      BY <1>0, <2>10 DEF WorkerEnter, WorkerWait, WorkerExit, AtTask, Collector
    <3> QED
      BY <1>1, <3>1, <3>2
  <2> QED
    BY <1>4, <2>1, <2>3, <2>4, <2>5, <2>6, <2>7, <2>8, <2>9, <2>10 DEF Worker
<1>5. ASSUME Unlock(pc), unfinished_work' = unfinished_work PROVE UltraOnly'
  <2>1. \A v \in Workers : pc'[v] = pc[v] \/ pc'[v] = "enter"
    BY <1>0, <1>5, UnlockEffect
  <2> QED
    BY <1>1, <1>5, <2>1 DEF Collector
<1>6. CASE Source
  BY <1>1, <1>5, <1>6 DEF Source, OnInputAvail, SourceOnly, SourceStall, SourceTakeSlot, SourceClosed,
                          SourceRead, SourceSetsEof, Unlock, schedVars, jobVars
<1>7. CASE Sink
  BY <1>1, <1>5, <1>7 DEF Sink, OnWriteComplete, SinkOnly, SinkStall, SinkTake, SinkWrite, SinkExit,
                          schedVars, jobVars
<1>8. CASE Primary
  BY <1>1, <1>8 DEF Primary, PrimaryOnly, JoinWorkersAndSource, JoinSink, schedVars, jobVars
<1>9. CASE Spurious
  BY <1>0, <1>1, <1>9 DEF Spurious, SpuriousWakeup, Waiting, Collector, jobVars
<1>10. CASE UNCHANGED vars
  BY <1>1, <1>10 DEF vars, procVars, schedVars, jobVars
<1> QED
  BY <1>4, <1>6, <1>7, <1>8, <1>9, <1>10 DEF Next, Over

(* No thread of the process is running or has anything to wake up for, and *)
(* the primary thread cannot join those that it waits for.                 *)
AllAsleep ==
  /\ \A w \in Workers : pc[w] \in {"waiting", "done"}
  /\ source \in {"stalled", "done"} /\ sink \in {"stalled", "done"}
  /\ \/ /\ shutdown = "running"
        /\ source = "stalled" \/ \E w \in Workers : pc[w] = "waiting"
     \/ shutdown = "draining" /\ sink = "stalled"

(* With all workers asleep, blocks are in the queues only.                 *)
LEMMA AsleepHands ==
  ASSUME Inv, \A w \in Workers : pc[w] \in {"waiting", "done"}
  PROVE  /\ Holding(wblk) = {} /\ Holding(iblk) = {} /\ At({"transmit"}) = {}
         /\ collect_token
         /\ \A b : b \in WorkBlks <=>
                     b \in ToSet(trans_q) \/ b \in ToSet(reord_q) \/ (b # NULL /\ b = unfinished_work)
         /\ Ins = ToSet(coll_q)
<1>1. \A w \in Workers : wblk[w] = NULL /\ iblk[w] = NULL
  BY DEF Inv, Known, TypeInv, InHand, HoldsInBlk, HoldsWorkBlk
<1>2. Holding(wblk) = {} /\ Holding(iblk) = {} /\ At({"transmit"}) = {}
  BY <1>1 DEF Holding, At
<1>3. collect_token
  BY DEF Inv, TokenHeld, Collector
<1>4. Ins = ToSet(coll_q)
  BY <1>2 DEF Ins, Hands
<1>5. \A b : b \in WorkBlks <=>
               b \in ToSet(trans_q) \/ b \in ToSet(reord_q) \/ (b # NULL /\ b = unfinished_work)
  BY <1>2 DEF WorkBlks
<1> QED
  BY <1>2, <1>3, <1>4, <1>5

(* The source thread does not sleep when no input block is left.           *)
LEMMA AsleepInput ==
  ASSUME Inv, SleepInv, AllAsleep, coll_q = <<>>
  PROVE  eof
<1> SUFFICES ASSUME ~ eof PROVE FALSE
  OBVIOUS
<1>1. source = "stalled"
  BY DEF AllAsleep, Inv, OrderInv, SourceInv
<1>2. in_slots = 0 /\ SlotsInSource = 0
  BY <1>1 DEF SleepInv, SlotsInSource
<1>3. Holding(iblk) = {}
  BY AsleepHands DEF AllAsleep
<1>4. Cardinality(Holding(iblk)) = 0 /\ Len(coll_q) = 0
  BY <1>3, FS_EmptySet
<1> QED
  BY <1>2, <1>4, ProcessAssumption DEF Inv, InSlotsConserved, AllInSlots

(* The first element of a queue is at o if some element is and none is     *)
(* before it.                                                              *)
LEMMA FirstAt ==
  ASSUME NEW S, \A x \in S : x.pos \in Position, NEW q \in Seq(S), Sorted(q),
         NEW o \in Position, \A x \in ToSet(q) : pos_le(o, x.pos), NEW y \in ToSet(q), y.pos = o
  PROVE  q # <<>> /\ peek(q).pos = o
<1>1. q # <<>>
  BY ToSetOf
<1>2. peek(q) \in ToSet(q) /\ pos_le(peek(q).pos, o) /\ peek(q) \in S
  BY <1>1, DequeueSorted, DequeueType
<1>3. pos_le(o, peek(q).pos) /\ peek(q).pos \in Position
  BY <1>2
<1> QED
  BY <1>1, <1>2, <1>3, PosOrder

(* If workers and sink sleep and no task is ready, no block is left.       *)
LEMMA AsleepEmpty ==
  ASSUME Inv, SlotInv, UnitInv, SleepInv, UltraOnly, AllAsleep, next_task = NoTask, sink = "stalled"
  PROVE  coll_q = <<>> /\ trans_q = <<>> /\ reord_q = <<>> /\ unfinished_work = NULL
<1> DEFINE n == next_id
           o == order
<1>1. \A w \in Workers : pc[w] \in {"waiting", "done"}
  BY DEF AllAsleep
<1>2. /\ collect_token
      /\ \A b : b \in WorkBlks <=>
                  b \in ToSet(trans_q) \/ b \in ToSet(reord_q) \/ (b # NULL /\ b = unfinished_work)
      /\ Ins = ToSet(coll_q) /\ Holding(wblk) = {} /\ Holding(iblk) = {}
  BY <1>1, AsleepHands
<1>3. /\ InFlight(file_len, WorkBlks, Ins, o, Front1, n) /\ o \in Position /\ <<n, 0>> \in Position
      /\ \A b \in WorkBlks : b.pos \in Position /\ b.next \in Position
      /\ \A i \in Ins : i.pos \in Position
      /\ n \in Nat
  BY Facts
<1>4. /\ Reached(o, WorkBlks, Ins, n)
      /\ \A b \in WorkBlks : pos_le(o, b.pos)
      /\ \A i \in Ins : pos_le(o, i.pos)
  BY <1>3 DEF InFlight, Linked, NotBehind
<1>5. /\ coll_q \in Seq(InBlk) /\ trans_q \in Seq(WorkBlk) /\ reord_q \in Seq(WorkBlk)
      /\ Sorted(coll_q) /\ Sorted(trans_q) /\ Sorted(reord_q)
      /\ (\A i \in InBlk : i.pos \in Position) /\ (\A b \in WorkBlk : b.pos \in Position)
      /\ work_units \in Nat /\ out_slots \in Nat
  <2>1. PlaceInv /\ TypeInv
    BY DEF Inv, Known, OrderInv, BlocksInv
  <2> QED
    BY <2>1, BlockTypes DEF PlaceInv, TypeInv, TypeOK, QueueTypeOK
<1>6. SelectTask = NoTask
  BY DEF Inv, Known, TypeInv, NextTaskFresh
<1>7. ~ can_collect_seq /\ ~ can_reorder /\ ~ can_transmit /\ ~ can_collect
  <2>1. ~ can_collect_seq
    BY <1>6 DEF SelectTask, NoTask
  <2>2. ~ can_reorder
    BY <1>6, <2>1 DEF SelectTask, NoTask
  <2>3. ~ can_transmit
    BY <1>6, <2>1, <2>2 DEF SelectTask, NoTask
  <2>4. ~ can_collect
    BY <1>6, <2>1, <2>2, <2>3 DEF SelectTask, NoTask
  <2> QED
    BY <2>1, <2>2, <2>3, <2>4
<1>8. block = NULL /\ output_q = <<>>
  BY DEF SleepInv, Inv, Known, TypeInv, InHand
<1>9. ~ \E x \in ToSet(reord_q) : x.pos = o
  <2> SUFFICES ASSUME NEW x \in ToSet(reord_q), x.pos = o PROVE FALSE
    OBVIOUS
  <2>1. \A y \in ToSet(reord_q) : pos_le(o, y.pos)
    BY <1>2, <1>4
  <2>2. reord_q # <<>> /\ peek(reord_q).pos = o
    BY <1>3, <1>5, <2>1, FirstAt
  <2> QED
    BY <1>7, <2>2 DEF can_reorder, pos_eq
<1>10. out_slots > 0
  <2>1. ~ TurnHeld
    BY <1>1, <1>8, <1>9 DEF TurnHeld
  <2> QED
    BY <1>5, <2>1 DEF SlotInv
<1>11. ~ \E x \in ToSet(trans_q) : x.pos = o
  <2> SUFFICES ASSUME NEW x \in ToSet(trans_q), x.pos = o PROVE FALSE
    OBVIOUS
  <2>1. \A y \in ToSet(trans_q) : pos_le(o, y.pos)
    BY <1>2, <1>4
  <2>2. trans_q # <<>> /\ peek(trans_q).pos = o
    BY <1>3, <1>5, <2>1, FirstAt
  <2> QED
    BY <1>7, <1>10, <2>2 DEF can_transmit, pos_eq
<1>12. unfinished_work = NULL
  <2> SUFFICES ASSUME unfinished_work # NULL PROVE FALSE
    OBVIOUS
  <2>1. coll_q = <<>> /\ ~ eof
    BY <1>2, <1>7 DEF can_collect_seq, UltraOnly
  <2> QED
    BY <2>1, AsleepInput
<1>13. ~ \E x \in ToSet(coll_q) : x.pos = o
  <2> SUFFICES ASSUME NEW x \in ToSet(coll_q), x.pos = o PROVE FALSE
    OBVIOUS
  <2>1. \A y \in ToSet(coll_q) : pos_le(o, y.pos)
    BY <1>2, <1>4
  <2>2. coll_q # <<>> /\ peek(coll_q).pos = o
    BY <1>3, <1>5, <2>1, FirstAt
  <2>3. ~ (work_units > 0)
    BY <1>2, <1>7, <1>12, <2>2, CompressionAssumption DEF can_collect, can_collect_seq
  <2>4. PICK b \in InWork : pos_lt(b.pos, o)
    BY <2>2, <2>3 DEF UnitInv
  <2>5. b \in WorkBlks
    BY WorkBlksAre DEF InWork
  <2> QED
    BY <1>4, <2>4, <2>5 DEF pos_le
<1>14. o = <<n, 0>>
  BY <1>2, <1>4, <1>9, <1>11, <1>12, <1>13 DEF Reached
<1>15. coll_q = <<>>
  <2> SUFFICES ASSUME coll_q # <<>> PROVE FALSE
    OBVIOUS
  <2>1. peek(coll_q) \in Ins
    BY <1>2, <1>5, DequeueSorted
  <2>2. peek(coll_q).pos[1] < n
    BY <1>3, <2>1 DEF InFlight, Rests
  <2>3. ~ pos_lt(peek(coll_q).pos, <<n, 0>>)
    BY <1>4, <1>14, <2>1 DEF pos_le
  <2> QED
    BY <2>2, <2>3 DEF pos_lt
<1>16. ASSUME NEW b \in WorkBlks PROVE FALSE
  <2> DEFINE K == Claims(file_len, WorkBlks, Ins, o, Front1, n)
  <2>1. <<b.next, b.hi>> \in K
    BY DEF Claims
  <2>2. \A c \in K : pos_le(c[1], <<n, 0>>)
    BY <1>3 DEF InFlight, Agree
  <2> HIDE DEF K
  <2>3. pos_le(b.next, <<n, 0>>)
    BY <2>1, <2>2
  <2>4. pos_le(<<n, 0>>, b.pos) /\ pos_le(b.pos, b.next)
    BY <1>3, <1>4, <1>14 DEF InFlight, Filled
  <2>5. b.pos = b.next
    <3>1. b.pos \in Position /\ b.next \in Position /\ <<n, 0>> \in Position
      BY <1>3
    <3>2. pos_le(b.next, b.pos)
      BY <2>3, <2>4, <3>1, PosOrder
    <3> QED
      BY <2>4, <3>1, <3>2, PosOrder
  <2>6. b \in ToSet(trans_q) \cup ToSet(reord_q) \cup ({unfinished_work} \ {NULL})
    BY <1>2
  <2> QED
    BY <2>5, <2>6 DEF Inv, OrderInv, BlocksInv, EncoderInv
<1>17. trans_q = <<>> /\ reord_q = <<>>
  <2>1. \A b : b \notin ToSet(trans_q) /\ b \notin ToSet(reord_q)
    BY <1>2, <1>16
  <2> QED
    BY <1>5, <2>1, DequeueSorted
<1> QED
  BY <1>12, <1>15, <1>17

(* The compressor never comes to rest before it is done: the reserve of    *)
(* output slots, the units for the first input block and the signals       *)
(* together leave no state in which every thread waits for another one.    *)
THEOREM CompressionNeverStuck == Spec => []~AllAsleep
<1>1. Init => SleepInv /\ UltraOnly /\ SlotInv /\ UnitInv
  BY ProcessAssumption DEF Init, ProcessInit, SleepInv, UltraOnly, SlotInv, UnitInv, Collector
<1>2. Spec => []SlotInv
  BY <1>1, NextSlots, Safe, PTL DEF Spec
<1>3. Spec => []UnitInv
  BY <1>1, NextUnits, Safe, PTL DEF Spec
<1>4. Inv => TypeInv
  BY DEF Inv, Known
<1>5. Spec => [](SleepInv /\ UltraOnly)
  BY <1>1, <1>4, NextSleep, NextUltraOnly, Safe, PTL DEF Spec
<1>6. Inv /\ SlotInv /\ UnitInv /\ SleepInv /\ UltraOnly /\ NoLostWakeup => ~ AllAsleep
  <2> SUFFICES ASSUME Inv, SlotInv, UnitInv, SleepInv, UltraOnly, NoLostWakeup, AllAsleep PROVE FALSE
    OBVIOUS
  <2>1. shutdown = "running" /\ ~ finish /\ sink = "stalled"
    BY DEF AllAsleep, SleepInv, Inv, OrderInv, EndInv
  <2>2. source = "stalled" \/ \E w \in Workers : pc[w] = "waiting"
    BY <2>1 DEF AllAsleep
  <2>3. (source = "done" <=> eof) /\ source \in {"stalled", "done"}
    BY DEF AllAsleep, Inv, OrderInv, SourceInv
  <2>4. ~ can_terminate
    <3> SUFFICES ASSUME can_terminate PROVE FALSE
      OBVIOUS
    <3>1. source = "done"
      BY <2>3 DEF can_terminate
    <3>2. Waiting(pc) # {} /\ At({"enter", "loop"}) = {}
      BY <2>2, <3>1 DEF Waiting, At, AllAsleep
    <3> QED
      BY <3>2 DEF NoLostWakeup
  <2>5. \A w \in Workers : pc[w] = "waiting"
    BY <2>4 DEF AllAsleep, Inv, OrderInv, EndInv
  <2>6. next_task = NoTask
    <3>1. Waiting(pc) # {} /\ At({"enter", "loop"}) = {}
      BY <2>5, CompressionAssumption DEF Waiting, At
    <3> QED
      BY <3>1 DEF NoLostWakeup
  <2>7. coll_q = <<>> /\ trans_q = <<>> /\ reord_q = <<>> /\ unfinished_work = NULL
    BY <2>1, <2>6, AsleepEmpty
  <2>8. eof
    BY <2>7, AsleepInput
  <2>9. Holding(wblk) = {} /\ At({"transmit"}) = {}
    BY <2>5, AsleepHands
  <2>10. Cardinality(Holding(wblk)) = 0 /\ Cardinality(At({"transmit"})) = 0
    BY <2>9, FS_EmptySet
  <2>11. output_q = <<>> /\ block = NULL /\ work_units \in Nat /\ out_slots \in Nat
    BY <2>1 DEF SleepInv, Inv, Known, TypeInv, TypeOK, InHand
  <2>12. UnitsUnfinished = 0 /\ SlotsInSink = 0
    BY <2>7, <2>11 DEF UnitsUnfinished, SlotsInSink
  <2>13. work_units = num_worker
    BY <2>7, <2>10, <2>11, <2>12 DEF Inv, Known, WorkUnitsConserved, AllWorkUnits
  <2>14. out_slots = TotalOutSlots
    BY <2>7, <2>10, <2>11, <2>12 DEF Inv, OutSlotsConserved, AllOutSlots
  <2> QED
    BY <2>4, <2>7, <2>8, <2>13, <2>14 DEF can_terminate
<1> QED
  BY <1>2, <1>3, <1>5, <1>6, NoForgottenWorker, Safe, PTL
=============================================================================

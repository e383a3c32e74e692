-------------------------- MODULE ExpansionProofs --------------------------
(***************************************************************************)
(* The decompressor's scheduler never acts on a stale decision, and it     *)
(* neither loses nor makes up a work unit, an output slot or an input      *)
(* slot; it has one master, and every task finds the input that it needs:  *)
(* each step preserves the invariants CountInv and MasterInv of module     *)
(* ExpansionInv, task by task, for any stream, any guesses of the scanners *)
(* and any number of workers.                                              *)
(***************************************************************************)
EXTENDS ExpansionInv, WellFoundedInduction, SequenceTheorems

(***************************************************************************)
(* The inductive invariant.  Only lengths of queues and control states     *)
(* matter for the balance; that next_task is fresh makes the head of a     *)
(* queue exist, and a unit or a slot be free, when a task takes it.        *)
(***************************************************************************)
WorkerStates == {"enter", "loop", "waiting", "done", "dead",
                 "parse", "retrieve", "decode", "emit", "scan"}

IsQueue(q) == \E S : q \in Seq(S)

UnitStates == {"parse", "retrieve", "decode", "emit", "scan"}

CountsOK ==
  /\ pc \in [Workers -> WorkerStates]
  /\ work_units \in Nat /\ out_slots \in Nat
  /\ IsQueue(retr_q) /\ IsQueue(emit_q) /\ IsQueue(reord_q)
  /\ IsQueue(output_q)

(* The task that workers find in next_task is the one that select_task()   *)
(* would select for the present state of the queues and counts.            *)
NextTaskFresh == next_task = SelectTask

UnitsBalance ==
  work_units >= 0 /\ out_slots >= 0 /\ WorkUnitsConserved /\ OutSlotsConserved

CountInv == CountsOK /\ NextTaskFresh /\ UnitsBalance

(***************************************************************************)
(* Queues.                                                                 *)
(***************************************************************************)
LEMMA LengthIsNat ==
  ASSUME NEW q, IsQueue(q)
  PROVE  Len(q) \in Nat
  BY DEF IsQueue

LEMMA QueueGrows ==
  ASSUME NEW q, NEW e, IsQueue(q)
  PROVE  /\ IsQueue(enqueue(q, e)) /\ Len(enqueue(q, e)) = Len(q) + 1
         /\ IsQueue(Append(q, e)) /\ Len(Append(q, e)) = Len(q) + 1
<1>1. PICK S : q \in Seq(S)
  BY DEF IsQueue
<1> DEFINE T == S \cup {e}
<1>2. q \in Seq(T) /\ e \in T
  BY <1>1
<1> HIDE DEF T
<1>3. /\ enqueue(q, e) \in Seq(T) /\ Len(enqueue(q, e)) = Len(q) + 1
      /\ Append(q, e) \in Seq(T) /\ Len(Append(q, e)) = Len(q) + 1
  BY <1>2, EnqueueType
<1> QED
  BY <1>3 DEF IsQueue

LEMMA QueueShrinks ==
  ASSUME NEW q, IsQueue(q), q # <<>>
  PROVE  IsQueue(Tail(q)) /\ Len(Tail(q)) = Len(q) - 1 /\ Len(q) > 0
<1>1. PICK S : q \in Seq(S)
  BY DEF IsQueue
<1> QED
  BY <1>1 DEF IsQueue

LEMMA MinIsLeast ==
  ASSUME NEW S, S \subseteq Nat, S # {}
  PROVE  Min(S) \in S /\ \A k \in S : Min(S) <= k
<1>1. IsWellFoundedOn(OpToRel(<, Nat), Nat)
  BY NatLessThanWellFounded
<1>2. PICK m \in S : \A k \in S : ~ (<<k, m>> \in OpToRel(<, Nat))
  BY <1>1, WFMin
<1>3. \A k \in S : ~ (k < m)
  BY <1>2 DEF OpToRel
<1>4. m \in Nat /\ \A k \in S : k \in Nat
  OBVIOUS
<1>5. \A k \in S : m <= k
  BY <1>3, <1>4
<1> QED
  BY <1>5 DEF Min

(* How far the loops of advance() and of the parser go.                    *)
LEMMA BeforeFirst ==
  ASSUME NEW q, Len(q) \in Nat, NEW I, I \subseteq 1 .. Len(q)
  PROVE  /\ Before(q, I) \in 0 .. Len(q)
         /\ \A i \in 1 .. Before(q, I) : i \notin I
         /\ Before(q, I) < Len(q) => Before(q, I) + 1 \in I
<1>1. CASE I = {}
  BY <1>1 DEF Before
<1>2. CASE I # {}
  <2> DEFINE m == Min(I)
             n == Len(q)
  <2>1. I \subseteq Nat
    OBVIOUS
  <2>2. m \in I /\ \A k \in I : m <= k
    BY <1>2, <2>1, MinIsLeast
  <2>3. m \in 1 .. n /\ n \in Nat
    BY <2>2
  <2>4. Before(q, I) = m - 1
    BY <1>2 DEF Before
  <2> HIDE DEF m, n
  <2>5. m - 1 \in 0 .. n /\ (m - 1) + 1 = m
    BY <2>3
  <2>6. \A i \in 1 .. m - 1 : i \notin I
    BY <2>2, <2>3
  <2> QED
    BY <2>2, <2>4, <2>5, <2>6 DEF n
<1> QED
  BY <1>1, <1>2

(* What is left of a queue is its end.                                     *)
LEMMA WithoutShape ==
  ASSUME NEW S, NEW q \in Seq(S), NEW n \in 0 .. Len(q)
  PROVE  /\ Without(q, n) \in Seq(S) /\ Len(Without(q, n)) = Len(q) - n
         /\ \A i \in 1 .. Len(q) - n : i + n \in 1 .. Len(q) /\ Without(q, n)[i] = q[i + n]
<1> DEFINE l == Len(q)
<1>1. l \in Nat /\ n \in 0 .. l
  OBVIOUS
<1>2. /\ SubSeq(q, n + 1, l) \in Seq(S) /\ Len(SubSeq(q, n + 1, l)) = l - n
      /\ \A i \in 1 .. l - n : SubSeq(q, n + 1, l)[i] = q[i + n]
  <2>1. \A i \in n + 1 .. l : q[i] \in S
    BY <1>1
  <2>2. SubSeq(q, n + 1, l) \in Seq(S)
    BY <1>1, <2>1
  <2>3. Len(SubSeq(q, n + 1, l)) = l - n
    BY <1>1
  <2>4. ASSUME NEW i \in 1 .. l - n PROVE SubSeq(q, n + 1, l)[i] = q[i + n]
    BY <1>1
  <2> QED
    BY <2>2, <2>3, <2>4
<1>3. \A i \in 1 .. l - n : i + n \in 1 .. l
  BY <1>1
<1> QED
  BY <1>2, <1>3 DEF Without

(* What advance() leaves of a queue is the end of it.                      *)
LEMMA KeptIsQueue ==
  ASSUME NEW q, IsQueue(q)
  PROVE  IsQueue(Kept(q)) /\ Len(Kept(q)) \in 0 .. Len(q)
<1>1. PICK S : q \in Seq(S)
  BY DEF IsQueue
<1> DEFINE ahead == {i \in 1 .. Len(q) : q[i].offset >= head_offs'}
           n == Before(q, ahead)
<1>2. Len(q) \in Nat /\ ahead \subseteq 1 .. Len(q)
  BY <1>1
<1>3. n \in 0 .. Len(q)
  BY <1>2, BeforeFirst
<1>4. Kept(q) = Without(q, n)
  BY DEF Kept
<1> HIDE DEF n, ahead
<1>5. Kept(q) \in Seq(S) /\ Len(Kept(q)) = Len(q) - n
  BY <1>1, <1>3, <1>4, WithoutShape
<1> QED
  BY <1>2, <1>3, <1>5 DEF IsQueue

(***************************************************************************)
(* Workers that change their control state.                                *)
(***************************************************************************)
In(s, S) == IF s \in S THEN 1 ELSE 0

LEMMA MoveCounts ==
  ASSUME CountsOK, NEW w \in Workers, NEW S,
         \A v \in Workers \ {w} : pc'[v] \in S <=> pc[v] \in S
  PROVE  /\ Cardinality(At(S)) \in Nat
         /\ Cardinality({v \in Workers : pc'[v] \in S})
              = Cardinality(At(S)) + In(pc'[w], S) - In(pc[w], S)
<1> DEFINE B == {v \in Workers \ {w} : pc[v] \in S}
<1>1. IsFiniteSet(B) /\ Cardinality(B) \in Nat
  BY ProcessAssumption, FS_Subset, FS_CardinalityType
<1>2. Cardinality(B \cup {w}) = Cardinality(B) + 1
  BY <1>1, FS_AddElement
<1> DEFINE A == At(S)
           N == {v \in Workers : pc'[v] \in S}
<1>3. A = IF pc[w] \in S THEN B \cup {w} ELSE B
  BY DEF At
<1>4. N = IF pc'[w] \in S THEN B \cup {w} ELSE B
  OBVIOUS
<1> HIDE DEF A, B, N
<1>5. Cardinality(A) = Cardinality(B) + In(pc[w], S)
  BY <1>1, <1>2, <1>3 DEF In
<1>6. Cardinality(N) = Cardinality(B) + In(pc'[w], S)
  BY <1>1, <1>2, <1>4 DEF In
<1>7. In(pc[w], S) \in Nat /\ In(pc'[w], S) \in Nat
  BY DEF In
<1>8. /\ Cardinality(A) \in Nat
      /\ Cardinality(N) = Cardinality(A) + In(pc'[w], S) - In(pc[w], S)
  BY <1>1, <1>5, <1>6, <1>7
<1> QED
  BY <1>8 DEF A, N

(* What leaving the monitor does to the control states: one worker that    *)
(* waits may be woken.                                                     *)
LEMMA UnlockEffect ==
  ASSUME NEW p \in [Workers -> WorkerStates], Unlock(p)
  PROVE  /\ NextTaskFresh'
         /\ pc' \in [Workers -> WorkerStates]
         /\ \A v \in Workers : pc'[v] = p[v] \/ (p[v] = "waiting" /\ pc'[v] = "enter")
<1>1. next_task' = SelectTask'
  BY DEF Unlock, SchedUnlock
<1>2. pc' = p \/ \E w \in Waiting(p) : pc' = [p EXCEPT ![w] = "enter"]
  BY DEF Unlock, SchedUnlock, Signalled
<1>3. /\ pc' \in [Workers -> WorkerStates]
      /\ \A v \in Workers : pc'[v] = p[v] \/ (p[v] = "waiting" /\ pc'[v] = "enter")
  BY <1>2 DEF Waiting, WorkerStates
<1> QED
  BY <1>1, <1>3 DEF NextTaskFresh

(* Worker w goes on to state t, by way of sched_unlock() or of the loop in *)
(* worker_thread_proc().                                                   *)
Moves(w, t) ==
  /\ t \in WorkerStates \ {"waiting"}
  /\ Unlock([pc EXCEPT ![w] = t]) \/ (t = "loop" /\ Return(w))

LEMMA MovesEffect ==
  ASSUME CountsOK, NEW w \in Workers, NEW t, Moves(w, t)
  PROVE  /\ NextTaskFresh' /\ pc' \in [Workers -> WorkerStates] /\ pc'[w] = t
         /\ \A v \in Workers \ {w} :
              pc'[v] = pc[v] \/ (pc[v] = "waiting" /\ pc'[v] = "enter")
<1>1. [pc EXCEPT ![w] = t] \in [Workers -> WorkerStates]
  BY DEF CountsOK, Moves
<1>2. CASE Unlock([pc EXCEPT ![w] = t])
  BY <1>1, <1>2, UnlockEffect DEF CountsOK, Moves
<1>3. CASE t = "loop" /\ Return(w)
  BY <1>1, <1>3 DEF Return, BackInLoop, NextTaskFresh, CountsOK
<1> QED
  BY <1>2, <1>3 DEF Moves

(***************************************************************************)
(* The balance of a step of a worker.                                      *)
(***************************************************************************)
Queued == Len(retr_q) + Len(emit_q)
Chunks == Len(reord_q) + Len(output_q) + Slots(sink \in {"write", "release"})

LEMMA CountTypes ==
  ASSUME CountInv
  PROVE  /\ Len(retr_q) \in Nat /\ Len(emit_q) \in Nat
         /\ Len(reord_q) \in Nat /\ Len(output_q) \in Nat
         /\ Slots(sink \in {"write", "release"}) \in 0 .. 1
         /\ work_units \in Nat /\ out_slots \in Nat /\ Queued \in Nat /\ Chunks \in Nat
<1>1. Slots(sink \in {"write", "release"}) \in 0 .. 1
  BY DEF Slots
<1>2. /\ Len(retr_q) \in Nat /\ Len(emit_q) \in Nat
      /\ Len(reord_q) \in Nat /\ Len(output_q) \in Nat
  BY LengthIsNat DEF CountInv, CountsOK
<1> QED
  BY <1>1, <1>2 DEF CountInv, CountsOK, Queued, Chunks

QueuesOK == IsQueue(retr_q) /\ IsQueue(emit_q) /\ IsQueue(reord_q) /\ IsQueue(output_q)

(* What worker w takes it gives back, elsewhere.                           *)
Balanced(w) ==
  /\ pc' \in [Workers -> WorkerStates]
  /\ \A v \in Workers \ {w} :
       pc'[v] = pc[v] \/ (pc[v] \notin UnitStates /\ pc'[v] \notin UnitStates)
  /\ QueuesOK' /\ work_units' \in Nat /\ out_slots' \in Nat
  /\ work_units' + Queued' + In(pc'[w], UnitStates)
       = work_units + Queued + In(pc[w], UnitStates)
  /\ out_slots' + Chunks' + In(pc'[w], {"emit"}) = out_slots + Chunks + In(pc[w], {"emit"})

LEMMA Balance ==
  ASSUME CountInv, NextTaskFresh', NEW w \in Workers, Balanced(w)
  PROVE  CountInv'
<1>1. CountsOK'
  BY DEF CountsOK, QueuesOK, Balanced
<1> DEFINE units == work_units'
           slots == out_slots'
           busy == Cardinality(At(UnitStates))
           busyNow == Cardinality({v \in Workers : pc'[v] \in UnitStates})
           emitting == Cardinality(At({"emit"}))
           emittingNow == Cardinality({v \in Workers : pc'[v] \in {"emit"}})
           sunk == Slots(sink \in {"write", "release"})
           sunkNow == Slots(sink' \in {"write", "release"})
           mine == In(pc[w], UnitStates)
           mineNow == In(pc'[w], UnitStates)
           slot == In(pc[w], {"emit"})
           slotNow == In(pc'[w], {"emit"})
           retr == Len(retr_q)
           retrNow == Len(retr_q')
           emit == Len(emit_q)
           emitNow == Len(emit_q')
           reord == Len(reord_q)
           reordNow == Len(reord_q')
           out == Len(output_q)
           outNow == Len(output_q')
<1>2. busy \in Nat /\ busyNow = busy + mineNow - mine
  BY MoveCounts DEF CountInv, Balanced
<1>3. emitting \in Nat /\ emittingNow = emitting + slotNow - slot
  BY MoveCounts DEF CountInv, Balanced, UnitStates
<1>4. mine \in Nat /\ mineNow \in Nat /\ slot \in Nat /\ slotNow \in Nat
  BY DEF In
<1>5. sunk \in Nat /\ sunkNow \in Nat
  BY DEF Slots
<1>6. /\ retr \in Nat /\ retrNow \in Nat /\ emit \in Nat /\ emitNow \in Nat
      /\ reord \in Nat /\ reordNow \in Nat /\ out \in Nat /\ outNow \in Nat
  BY LengthIsNat, CountTypes DEF QueuesOK, Balanced
<1>7. work_units \in Nat /\ out_slots \in Nat /\ units \in Nat /\ slots \in Nat
  BY CountTypes DEF Balanced
<1>8. /\ work_units + retr + emit + busy = num_worker
      /\ out_slots + emitting + reord + out + sunk = TotalOutSlots
  BY DEF CountInv, UnitsBalance, WorkUnitsConserved, OutSlotsConserved, UnitStates
<1>9. /\ units + (retrNow + emitNow) + mineNow = work_units + (retr + emit) + mine
      /\ slots + (reordNow + outNow + sunkNow) + slotNow = out_slots + (reord + out + sunk) + slot
  BY DEF Queued, Chunks, Balanced
<1>10. num_worker \in Nat /\ TotalOutSlots \in Nat
  BY ProcessAssumption, FS_CardinalityType DEF num_worker
<1> HIDE DEF units, slots, busy, busyNow, emitting, emittingNow, sunk, sunkNow,
             mine, mineNow, slot, slotNow, retr, retrNow, emit, emitNow,
             reord, reordNow, out, outNow
<1>11. units + retrNow + emitNow + busyNow = num_worker
  BY <1>2, <1>4, <1>6, <1>7, <1>8, <1>9, <1>10
<1>12. slots + emittingNow + reordNow + outNow + sunkNow = TotalOutSlots
  BY <1>3, <1>4, <1>5, <1>6, <1>7, <1>8, <1>9, <1>10
<1>13. WorkUnitsConserved'
  BY <1>11 DEF units, busyNow, retrNow, emitNow, WorkUnitsConserved, At, UnitStates, num_worker
<1>14. OutSlotsConserved'
  BY <1>12 DEF slots, emittingNow, sunkNow, reordNow, outNow, OutSlotsConserved, At
<1> QED
  BY <1>1, <1>13, <1>14 DEF CountInv, CountsOK, UnitsBalance

LEMMA WorkerStep ==
  ASSUME CountInv, NEW w \in Workers, NEW t, Moves(w, t),
         QueuesOK', work_units' \in Nat, out_slots' \in Nat,
         work_units' + Queued' + In(t, UnitStates) = work_units + Queued + In(pc[w], UnitStates),
         out_slots' + Chunks' + In(t, {"emit"}) = out_slots + Chunks + In(pc[w], {"emit"})
  PROVE  CountInv'
<1>1. /\ NextTaskFresh' /\ pc' \in [Workers -> WorkerStates] /\ pc'[w] = t
      /\ \A v \in Workers \ {w} :
           pc'[v] = pc[v] \/ (pc[v] = "waiting" /\ pc'[v] = "enter")
  BY MovesEffect DEF CountInv
<1>2. Balanced(w)
  BY <1>1 DEF Balanced, UnitStates
<1> QED
  BY <1>1, <1>2, Balance

(* A step after which the chunks are where they were, and the worker has   *)
(* not begun or ended to emit.                                             *)
ChunksStay(w, t) ==
  /\ UNCHANGED <<out_slots, reord_q, output_q, sink>>
  /\ In(t, {"emit"}) = In(pc[w], {"emit"})

LEMMA UnitStep ==
  ASSUME CountInv, NEW w \in Workers, NEW t, Moves(w, t), ChunksStay(w, t),
         IsQueue(retr_q'), IsQueue(emit_q'), work_units' \in Nat,
         work_units' + Len(retr_q') + Len(emit_q') + In(t, UnitStates)
           = work_units + Len(retr_q) + Len(emit_q) + In(pc[w], UnitStates)
  PROVE  CountInv'
<1>1. QueuesOK' /\ out_slots' \in Nat
  BY DEF QueuesOK, ChunksStay, CountInv, CountsOK
<1>2. out_slots' + Chunks' + In(t, {"emit"}) = out_slots + Chunks + In(pc[w], {"emit"})
  BY DEF ChunksStay, Chunks
<1> DEFINE units == work_units'
           retr == Len(retr_q)
           retrNow == Len(retr_q')
           emit == Len(emit_q)
           emitNow == Len(emit_q')
           mine == In(pc[w], UnitStates)
           mineNow == In(t, UnitStates)
<1>3. /\ retr \in Nat /\ retrNow \in Nat /\ emit \in Nat /\ emitNow \in Nat
      /\ work_units \in Nat /\ units \in Nat
  BY LengthIsNat, CountTypes
<1>4. mine \in Nat /\ mineNow \in Nat
  BY DEF In
<1>5. units + retrNow + emitNow + mineNow = work_units + retr + emit + mine
  OBVIOUS
<1> HIDE DEF units, retr, retrNow, emit, emitNow, mine, mineNow
<1>6. units + (retrNow + emitNow) + mineNow = work_units + (retr + emit) + mine
  BY <1>3, <1>4, <1>5
<1>7. work_units' + Queued' + In(t, UnitStates) = work_units + Queued + In(pc[w], UnitStates)
  BY <1>6 DEF Queued, units, retr, retrNow, emit, emitNow, mine, mineNow
<1> QED
  BY <1>1, <1>2, <1>7, WorkerStep

(***************************************************************************)
(* A fresh next_task is a task that is ready.                              *)
(***************************************************************************)
LEMMA TaskReady ==
  ASSUME NextTaskFresh
  PROVE  /\ next_task = "reorder" => can_reorder
         /\ next_task = "parse" => can_parse
         /\ next_task = "emit" => can_emit
         /\ next_task = "retrieve" => can_retrieve
         /\ next_task = "scan" => can_scan
  BY DEF NextTaskFresh, SelectTask, NoTask, Abort

(***************************************************************************)
(* The parser, the retrievers and the scanners: work units.                *)
(***************************************************************************)
LEMMA DoParseCounts ==
  ASSUME CountInv, NEW w \in Workers, DoParse(w)
  PROVE  CountInv'
<1>1. can_parse /\ pc[w] = "loop"
  BY TaskReady DEF CountInv, DoParse, AtTask
<1>2. work_units \in Nat \ {0} /\ work_units' = work_units - 1
  BY <1>1 DEF can_parse, CountInv, CountsOK, DoParse
<1>3. Moves(w, "parse")
  BY DEF Moves, DoParse, WorkerStates
<1>4. ChunksStay(w, "parse") /\ UNCHANGED <<retr_q, emit_q>>
  BY <1>1 DEF ChunksStay, In, DoParse, sinkVars, queueVars
<1>5. In("parse", UnitStates) = 1 /\ In(pc[w], UnitStates) = 0
  BY <1>1 DEF In, UnitStates
<1>6. IsQueue(retr_q') /\ IsQueue(emit_q')
  BY <1>4 DEF CountInv, CountsOK
<1>7. work_units' + Len(retr_q') + Len(emit_q') + 1 = work_units + Len(retr_q) + Len(emit_q) + 0
  BY <1>2, <1>4, CountTypes
<1> QED
  BY <1>2, <1>3, <1>4, <1>5, <1>6, <1>7, UnitStep

LEMMA AdvanceUnits ==
  ASSUME CountInv, NEW w \in Workers, NEW bs, NEW more \in 0 .. 1, Advance(w, bs, more)
  PROVE  /\ IsQueue(Kept(retr_q)) /\ Len(Kept(retr_q)) \in Nat /\ work_units' \in Nat
         /\ work_units' + Len(Kept(retr_q)) = work_units + Len(retr_q) + more
<1>1. IsQueue(Kept(retr_q)) /\ Len(Kept(retr_q)) \in 0 .. Len(retr_q)
  BY KeptIsQueue DEF CountInv, CountsOK
<1>2. work_units' = work_units + Len(retr_q) - Len(Kept(retr_q)) + more
  BY DEF Advance
<1>3. work_units \in Nat /\ Len(retr_q) \in Nat
  BY CountTypes
<1> DEFINE k == Len(Kept(retr_q))
<1> HIDE DEF k
<1>4. k \in 0 .. Len(retr_q) /\ work_units' = work_units + Len(retr_q) - k + more
  BY <1>1, <1>2 DEF k
<1>5. k \in Nat /\ work_units' \in Nat /\ work_units' + k = work_units + Len(retr_q) + more
  BY <1>3, <1>4
<1> QED
  BY <1>1, <1>5 DEF k

LEMMA AdvanceAndQueue ==
  ASSUME CountInv, NEW w \in Workers, NEW bs, Advance(w, bs, 0), NEW e
  PROVE  /\ IsQueue(enqueue(Kept(retr_q), e)) /\ work_units' \in Nat
         /\ Len(enqueue(Kept(retr_q), e)) \in Nat
         /\ work_units' + Len(enqueue(Kept(retr_q), e)) = work_units + Len(retr_q) + 1
<1> DEFINE k == Len(Kept(retr_q))
           l == Len(enqueue(Kept(retr_q), e))
           units == work_units'
<1>1. k \in Nat /\ units \in Nat /\ units + k = work_units + Len(retr_q) + 0
  BY AdvanceUnits
<1>2. IsQueue(enqueue(Kept(retr_q), e)) /\ l = k + 1
  BY AdvanceUnits, QueueGrows
<1>3. work_units \in Nat /\ Len(retr_q) \in Nat
  BY CountTypes
<1> HIDE DEF k, l, units
<1>4. l \in Nat /\ units + l = work_units + Len(retr_q) + 1
  BY <1>1, <1>2, <1>3
<1> QED
  BY <1>1, <1>2, <1>4 DEF l, units

(* A worker goes back to the loop from a state in which it had a unit.     *)
LEMMA UnitReturned ==
  ASSUME CountInv, NEW w \in Workers, pc[w] \in UnitStates \ {"emit"}, Return(w),
         UNCHANGED <<out_slots, reord_q, output_q, sink>>,
         IsQueue(retr_q'), IsQueue(emit_q'), work_units' \in Nat,
         work_units' + Len(retr_q') + Len(emit_q') = work_units + Len(retr_q) + Len(emit_q) + 1
  PROVE  CountInv'
<1>1. Moves(w, "loop")
  BY DEF Moves, WorkerStates
<1>2. ChunksStay(w, "loop")
  BY DEF ChunksStay, In
<1>3. In("loop", UnitStates) = 0 /\ In(pc[w], UnitStates) = 1
  BY DEF In, UnitStates
<1> DEFINE units == work_units' + Len(retr_q') + Len(emit_q')
<1>4. units \in Nat
  BY LengthIsNat
<1> HIDE DEF units
<1>5. units + 0 = units
  BY <1>4
<1>6. units = work_units + Len(retr_q) + Len(emit_q) + 1
  BY DEF units
<1>7. units + 0 = work_units + Len(retr_q) + Len(emit_q) + 1
  BY <1>5, <1>6
<1> QED
  BY <1>1, <1>2, <1>3, <1>7, UnitStep DEF units

LEMMA ParsedCounts ==
  ASSUME CountInv, NEW w \in Workers, ParseMore(w) \/ ParseUnique(w) \/ ParseTaken(w)
  PROVE  CountInv'
<1>1. pc[w] \in UnitStates \ {"emit"}
  BY DEF ParseMore, ParseUnique, ParseTaken, BlockParsed, ParseReturns, UnitStates
<1>2. Return(w) /\ UNCHANGED <<out_slots, reord_q, output_q, sink, emit_q>>
  BY DEF ParseMore, ParseUnique, ParseTaken, BlockParsed, sinkVars
<1>3. emit_q' = emit_q /\ IsQueue(emit_q') /\ Len(emit_q) \in Nat
  BY <1>2, CountTypes DEF CountInv, CountsOK
<1>4. CASE ParseMore(w) \/ ParseTaken(w)
  <2>1. \E bs : Advance(w, bs, 1)
    BY <1>4 DEF ParseMore, ParseTaken
  <2>2. retr_q' = Kept(retr_q)
    BY <1>4 DEF ParseMore, ParseTaken
  <2>3. IsQueue(retr_q') /\ Len(retr_q') \in Nat /\ work_units' \in Nat
    BY <2>1, <2>2, AdvanceUnits
  <2>4. work_units' + Len(retr_q') = work_units + Len(retr_q) + 1
    BY <2>1, <2>2, AdvanceUnits
  <2>5. work_units' + Len(retr_q') + Len(emit_q') = work_units + Len(retr_q) + Len(emit_q) + 1
    BY <1>3, <2>3, <2>4, CountTypes
  <2> QED
    BY <1>1, <1>2, <1>3, <2>3, <2>5, UnitReturned
<1>5. CASE ParseUnique(w)
  <2>1. \E bs : Advance(w, bs, 0)
    BY <1>5 DEF ParseUnique
  <2>2. \E e : retr_q' = enqueue(Kept(retr_q), e)
    BY <1>5 DEF ParseUnique
  <2>3. IsQueue(retr_q') /\ Len(retr_q') \in Nat /\ work_units' \in Nat
    BY <2>1, <2>2, AdvanceAndQueue
  <2>4. work_units' + Len(retr_q') = work_units + Len(retr_q) + 1
    BY <2>1, <2>2, AdvanceAndQueue
  <2>5. work_units' + Len(retr_q') + Len(emit_q') = work_units + Len(retr_q) + Len(emit_q) + 1
    BY <1>3, <2>3, <2>4, CountTypes
  <2> QED
    BY <1>1, <1>2, <1>3, <2>3, <2>5, UnitReturned
<1> QED
  BY <1>4, <1>5

LEMMA ParseFinishCounts ==
  ASSUME CountInv, NEW w \in Workers, ParseFinish(w)
  PROVE  CountInv'
<1>1. pc[w] \in UnitStates \ {"emit"}
  BY DEF ParseFinish, ParseReturns, UnitStates
<1>2. Return(w) /\ UNCHANGED <<out_slots, reord_q, output_q, sink, emit_q>>
  BY DEF ParseFinish, sinkVars
<1>3. emit_q' = emit_q /\ IsQueue(emit_q')
  BY <1>2 DEF CountInv, CountsOK
<1>4. retr_q' = <<>> /\ work_units' = work_units + Len(retr_q) + 1
  BY DEF ParseFinish
<1>5. IsQueue(retr_q') /\ Len(retr_q') = 0
  <2>1. <<>> \in Seq({}) /\ Len(<<>>) = 0
    OBVIOUS
  <2> QED
    BY <1>4, <2>1 DEF IsQueue
<1>6. /\ work_units' \in Nat
      /\ work_units' + Len(retr_q') + Len(emit_q') = work_units + Len(retr_q) + Len(emit_q) + 1
  BY <1>3, <1>4, <1>5, CountTypes
<1> QED
  BY <1>1, <1>2, <1>3, <1>5, <1>6, UnitReturned

LEMMA DoRetrieveCounts ==
  ASSUME CountInv, NEW w \in Workers, DoRetrieve(w)
  PROVE  CountInv'
<1>1. can_retrieve /\ pc[w] = "loop"
  BY TaskReady DEF CountInv, DoRetrieve, AtTask
<1>2. Moves(w, "retrieve")
  BY DEF Moves, DoRetrieve, WorkerStates
<1>3. ChunksStay(w, "retrieve") /\ UNCHANGED <<emit_q, work_units>>
  BY <1>1 DEF ChunksStay, In, DoRetrieve, sinkVars, slotVars
<1>4. In("retrieve", UnitStates) = 1 /\ In(pc[w], UnitStates) = 0
  BY <1>1 DEF In, UnitStates
<1>5. IsQueue(retr_q') /\ Len(retr_q') = Len(retr_q) - 1
  BY <1>1, QueueShrinks DEF can_retrieve, CountInv, CountsOK, DoRetrieve, dequeue
<1>6. IsQueue(emit_q') /\ work_units' \in Nat
  BY <1>3 DEF CountInv, CountsOK
<1>7. work_units' + Len(retr_q') + Len(emit_q') + 1 = work_units + Len(retr_q) + Len(emit_q) + 0
  BY <1>3, <1>5, CountTypes
<1> QED
  BY <1>2, <1>3, <1>4, <1>5, <1>6, <1>7, UnitStep

LEMMA RetrievedCounts ==
  ASSUME CountInv, NEW w \in Workers,
         RetrieveAbort(w) \/ RetrieveMoreAsMaster(w) \/ RetrieveMoreAhead(w)
  PROVE  CountInv'
<1>1. pc[w] \in UnitStates \ {"emit"}
  BY DEF RetrieveAbort, RetrieveMoreAsMaster, RetrieveMoreAhead, RetrieveReturns, UnitStates
<1>2. Return(w) /\ UNCHANGED <<out_slots, reord_q, output_q, sink, emit_q>>
  BY DEF RetrieveAbort, RetrieveMoreAsMaster, RetrieveMoreAhead, sinkVars, slotVars, queueVars
<1>3. emit_q' = emit_q /\ IsQueue(emit_q') /\ Len(emit_q) \in Nat
  BY <1>2, CountTypes DEF CountInv, CountsOK
<1>4. CASE RetrieveAbort(w)
  <2>1. work_units' = work_units + 1 /\ retr_q' = retr_q
    BY <1>4 DEF RetrieveAbort, queueVars
  <2>2. IsQueue(retr_q')
    BY <2>1 DEF CountInv, CountsOK
  <2>3. /\ work_units' \in Nat
        /\ work_units' + Len(retr_q') + Len(emit_q') = work_units + Len(retr_q) + Len(emit_q) + 1
    BY <1>3, <2>1, CountTypes
  <2> QED
    BY <1>1, <1>2, <1>3, <2>2, <2>3, UnitReturned
<1>5. CASE RetrieveMoreAsMaster(w)
  <2>1. \E bs : Advance(w, bs, 0)
    BY <1>5 DEF RetrieveMoreAsMaster
  <2>2. \E e : retr_q' = enqueue(Kept(retr_q), e)
    BY <1>5 DEF RetrieveMoreAsMaster
  <2>3. IsQueue(retr_q') /\ Len(retr_q') \in Nat /\ work_units' \in Nat
    BY <2>1, <2>2, AdvanceAndQueue
  <2>4. work_units' + Len(retr_q') = work_units + Len(retr_q) + 1
    BY <2>1, <2>2, AdvanceAndQueue
  <2>5. work_units' + Len(retr_q') + Len(emit_q') = work_units + Len(retr_q) + Len(emit_q) + 1
    BY <1>3, <2>3, <2>4, CountTypes
  <2> QED
    BY <1>1, <1>2, <1>3, <2>3, <2>5, UnitReturned
<1>6. CASE RetrieveMoreAhead(w)
  <2>1. work_units' = work_units /\ \E e : retr_q' = enqueue(retr_q, e)
    BY <1>6 DEF RetrieveMoreAhead, slotVars
  <2>2. IsQueue(retr_q') /\ Len(retr_q') = Len(retr_q) + 1
    BY <2>1, QueueGrows DEF CountInv, CountsOK
  <2>3. /\ work_units' \in Nat
        /\ work_units' + Len(retr_q') + Len(emit_q') = work_units + Len(retr_q) + Len(emit_q) + 1
    BY <1>3, <2>1, <2>2, CountTypes
  <2> QED
    BY <1>1, <1>2, <1>3, <2>2, <2>3, UnitReturned
<1> QED
  BY <1>4, <1>5, <1>6

LEMMA RetrieveOverCounts ==
  ASSUME CountInv, NEW w \in Workers, RetrieveOverAsMaster(w) \/ RetrieveOverAhead(w)
  PROVE  CountInv'
<1>1. pc[w] = "retrieve" /\ Moves(w, "decode")
  BY DEF RetrieveOverAsMaster, RetrieveOverAhead, RetrieveReturns, ToDecode, Moves, WorkerStates
<1>2. ChunksStay(w, "decode") /\ UNCHANGED emit_q
  BY <1>1 DEF ChunksStay, In, RetrieveOverAsMaster, RetrieveOverAhead, sinkVars, slotVars, queueVars
<1>3. In("decode", UnitStates) = 1 /\ In(pc[w], UnitStates) = 1
  BY <1>1 DEF In, UnitStates
<1>4. emit_q' = emit_q /\ IsQueue(emit_q')
  BY <1>2 DEF CountInv, CountsOK
<1>5. /\ IsQueue(retr_q') /\ Len(retr_q') \in Nat /\ work_units' \in Nat
      /\ work_units' + Len(retr_q') = work_units + Len(retr_q) + 0
  <2>1. CASE RetrieveOverAsMaster(w)
    <3>1. retr_q' = Kept(retr_q) /\ \E bs : Advance(w, bs, 0)
      BY <2>1 DEF RetrieveOverAsMaster
    <3> QED
      BY <3>1, AdvanceUnits
  <2>2. CASE RetrieveOverAhead(w)
    <3>1. retr_q' = retr_q /\ work_units' = work_units
      BY <2>2 DEF RetrieveOverAhead, slotVars, queueVars
    <3> QED
      BY <3>1, CountTypes DEF CountInv, CountsOK
  <2> QED
    BY <2>1, <2>2
<1>6. work_units' + Len(retr_q') + Len(emit_q') + 1 = work_units + Len(retr_q) + Len(emit_q) + 1
  BY <1>4, <1>5, CountTypes
<1> QED
  BY <1>1, <1>2, <1>3, <1>4, <1>5, <1>6, UnitStep

LEMMA DecodedCounts ==
  ASSUME CountInv, NEW w \in Workers, Decoded(w)
  PROVE  CountInv'
<1>1. pc[w] \in UnitStates \ {"emit"}
  BY DEF Decoded, UnitStates
<1>2. Return(w) /\ UNCHANGED <<out_slots, reord_q, output_q, sink, retr_q, work_units>>
  BY DEF Decoded, sinkVars, slotVars
<1>3. IsQueue(emit_q') /\ Len(emit_q') = Len(emit_q) + 1
  BY QueueGrows DEF Decoded, CountInv, CountsOK
<1>4. IsQueue(retr_q') /\ work_units' \in Nat
  BY <1>2 DEF CountInv, CountsOK
<1>5. work_units' + Len(retr_q') + Len(emit_q') = work_units + Len(retr_q) + Len(emit_q) + 1
  BY <1>2, <1>3, CountTypes
<1> QED
  BY <1>1, <1>2, <1>3, <1>4, <1>5, UnitReturned

LEMMA DoScanCounts ==
  ASSUME CountInv, NEW w \in Workers, DoScan(w)
  PROVE  CountInv'
<1>1. can_scan /\ pc[w] = "loop"
  BY TaskReady DEF CountInv, DoScan, AtTask
<1>2. work_units \in Nat \ {0} /\ work_units' = work_units - 1
  BY <1>1 DEF can_scan, SCAN_THRESH, CountInv, CountsOK, DoScan
<1>3. Moves(w, "scan")
  BY DEF Moves, DoScan, WorkerStates
<1>4. ChunksStay(w, "scan") /\ UNCHANGED <<retr_q, emit_q>>
  BY <1>1 DEF ChunksStay, In, DoScan, sinkVars
<1>5. In("scan", UnitStates) = 1 /\ In(pc[w], UnitStates) = 0
  BY <1>1 DEF In, UnitStates
<1>6. IsQueue(retr_q') /\ IsQueue(emit_q')
  BY <1>4 DEF CountInv, CountsOK
<1>7. work_units' + Len(retr_q') + Len(emit_q') + 1 = work_units + Len(retr_q) + Len(emit_q) + 0
  BY <1>2, <1>4, CountTypes
<1> QED
  BY <1>2, <1>3, <1>4, <1>5, <1>6, <1>7, UnitStep

LEMMA ScannedCounts ==
  ASSUME CountInv, NEW w \in Workers, ScanNothing(w) \/ ScanKnown(w) \/ ScanUnique(w)
  PROVE  CountInv'
<1>1. pc[w] \in UnitStates \ {"emit"}
  BY DEF ScanNothing, ScanKnown, ScanUnique, ScanReturns, UnitStates
<1>2. Return(w) /\ UNCHANGED <<out_slots, reord_q, output_q, sink, emit_q>>
  BY DEF ScanNothing, ScanKnown, ScanUnique, ScanReturns, sinkVars
<1>3. emit_q' = emit_q /\ IsQueue(emit_q')
  BY <1>2 DEF CountInv, CountsOK
<1>4. /\ IsQueue(retr_q') /\ work_units' \in Nat
      /\ work_units' + Len(retr_q') = work_units + Len(retr_q) + 1
  <2>1. CASE ScanNothing(w) \/ ScanKnown(w)
    <3>1. retr_q' = retr_q /\ work_units' = work_units + 1
      BY <2>1 DEF ScanNothing, ScanKnown
    <3> QED
      BY <3>1, CountTypes DEF CountInv, CountsOK
  <2>2. CASE ScanUnique(w)
    <3>1. work_units' = work_units /\ \E e : retr_q' = enqueue(retr_q, e)
      BY <2>2 DEF ScanUnique
    <3>2. IsQueue(retr_q') /\ Len(retr_q') = Len(retr_q) + 1
      BY <3>1, QueueGrows DEF CountInv, CountsOK
    <3> QED
      BY <3>1, <3>2, CountTypes
  <2> QED
    BY <2>1, <2>2 DEF ScanNothing, ScanKnown, ScanUnique
<1>5. Len(retr_q') \in Nat
  BY <1>4, LengthIsNat
<1>6. work_units' + Len(retr_q') + Len(emit_q') = work_units + Len(retr_q) + Len(emit_q) + 1
  BY <1>3, <1>4, <1>5, CountTypes
<1> QED
  BY <1>1, <1>2, <1>3, <1>4, <1>6, UnitReturned

(***************************************************************************)
(* Emitting and reordering: output slots.                                  *)
(***************************************************************************)
LEMMA DoEmitCounts ==
  ASSUME CountInv, NEW w \in Workers, DoEmit(w)
  PROVE  CountInv'
<1>1. can_emit /\ pc[w] = "loop"
  BY TaskReady DEF CountInv, DoEmit, AtTask
<1>2. out_slots \in Nat \ {0} /\ out_slots' = out_slots - 1
  BY <1>1 DEF can_emit, EMIT_THRESH, CountInv, CountsOK, DoEmit
<1>3. Moves(w, "emit")
  BY DEF Moves, DoEmit, WorkerStates
<1>4. UNCHANGED <<work_units, retr_q, reord_q, output_q, sink>>
  BY DEF DoEmit, sinkVars
<1>5. IsQueue(emit_q') /\ Len(emit_q') = Len(emit_q) - 1
  BY <1>1, QueueShrinks DEF can_emit, CountInv, CountsOK, DoEmit, dequeue
<1>6. QueuesOK' /\ work_units' \in Nat /\ out_slots' \in Nat
  BY <1>2, <1>4, <1>5 DEF QueuesOK, CountInv, CountsOK
<1>7. /\ In("emit", UnitStates) = 1 /\ In(pc[w], UnitStates) = 0
      /\ In("emit", {"emit"}) = 1 /\ In(pc[w], {"emit"}) = 0
  BY <1>1 DEF In, UnitStates
<1>8. Queued' = Queued - 1
  BY <1>4, <1>5, CountTypes DEF Queued
<1>9. Chunks' = Chunks
  BY <1>4 DEF Chunks
<1>10. work_units' + Queued' + 1 = work_units + Queued + 0
  BY <1>4, <1>8, CountTypes
<1>11. out_slots' + Chunks' + 1 = out_slots + Chunks + 0
  BY <1>2, <1>9, CountTypes
<1> QED
  BY <1>3, <1>6, <1>7, <1>10, <1>11, WorkerStep

LEMMA EmittedCounts ==
  ASSUME CountInv, NEW w \in Workers, Emitted(w)
  PROVE  CountInv'
<1>1. pc[w] = "emit" /\ Moves(w, "loop")
  BY DEF Emitted, Moves, WorkerStates
<1>2. UNCHANGED <<out_slots, retr_q, output_q, sink>>
  BY DEF Emitted, sinkVars
<1>3. IsQueue(reord_q') /\ Len(reord_q') = Len(reord_q) + 1
  BY QueueGrows DEF Emitted, CountInv, CountsOK
<1>4. IsQueue(emit_q') /\ work_units' \in Nat /\ work_units' + Queued' = work_units + Queued + 1
  <2>1. CASE IsLast(job[w].pos)
    <3>1. emit_q' = emit_q /\ work_units' = work_units + 1
      BY <2>1 DEF Emitted
    <3>2. Queued' = Queued
      BY <1>2, <3>1 DEF Queued
    <3> QED
      BY <3>1, <3>2, CountTypes DEF CountInv, CountsOK
  <2>2. CASE ~ IsLast(job[w].pos)
    <3>1. work_units' = work_units /\ \E e : emit_q' = enqueue(emit_q, e)
      BY <2>2 DEF Emitted
    <3>2. IsQueue(emit_q') /\ Len(emit_q') = Len(emit_q) + 1
      BY <3>1, QueueGrows DEF CountInv, CountsOK
    <3>3. Queued' = Queued + 1
      BY <1>2, <3>2, CountTypes DEF Queued
    <3> QED
      BY <3>1, <3>2, <3>3, CountTypes
  <2> QED
    BY <2>1, <2>2
<1>5. QueuesOK' /\ out_slots' \in Nat
  BY <1>2, <1>3, <1>4 DEF QueuesOK, CountInv, CountsOK
<1>6. /\ In("loop", UnitStates) = 0 /\ In(pc[w], UnitStates) = 1
      /\ In("loop", {"emit"}) = 0 /\ In(pc[w], {"emit"}) = 1
  BY <1>1 DEF In, UnitStates
<1>7. Chunks' = Chunks + 1
  BY <1>2, <1>3, CountTypes DEF Chunks
<1>8. out_slots' + Chunks' + 0 = out_slots + Chunks + 1
  BY <1>2, <1>7, CountTypes
<1>9. work_units' + Queued' + 0 = work_units + Queued + 1
  <2>1. IsQueue(retr_q')
    BY <1>5 DEF QueuesOK
  <2>2. Queued' \in Nat
    BY <1>4, <2>1, LengthIsNat DEF Queued
  <2> QED
    BY <1>4, <2>2
<1> QED
  BY <1>1, <1>4, <1>5, <1>6, <1>8, <1>9, WorkerStep

(* Steps that leave all workers where they are, or move them between       *)
(* states in which they hold nothing.                                      *)
LEMMA OtherStep ==
  ASSUME CountInv, NextTaskFresh', pc' \in [Workers -> WorkerStates],
         \A v \in Workers : pc'[v] = pc[v] \/ (pc[v] \notin UnitStates /\ pc'[v] \notin UnitStates),
         QueuesOK', work_units' = work_units, Queued' = Queued, out_slots' \in Nat,
         out_slots' + Chunks' = out_slots + Chunks
  PROVE  CountInv'
<1> PICK w \in Workers : TRUE
  BY ExpansionAssumption
<1>1. pc'[w] = pc[w] \/ (pc[w] \notin UnitStates /\ pc'[w] \notin UnitStates)
  OBVIOUS
<1>2. In(pc'[w], UnitStates) = In(pc[w], UnitStates)
  BY <1>1 DEF In
<1>3. In(pc'[w], {"emit"}) = In(pc[w], {"emit"})
  BY <1>1 DEF In, UnitStates
<1>4. work_units' \in Nat
  BY DEF CountInv, CountsOK
<1>5. out_slots' + Chunks' + In(pc'[w], {"emit"}) = out_slots + Chunks + In(pc[w], {"emit"})
  BY <1>3
<1>6. work_units' + Queued' + In(pc'[w], UnitStates) = work_units + Queued + In(pc[w], UnitStates)
  BY <1>2
<1>7. Balanced(w)
  BY <1>4, <1>5, <1>6 DEF Balanced
<1> QED
  BY <1>7, Balance

LEMMA ReorderCounts ==
  ASSUME CountInv, NEW w \in Workers, RejectBogus(w) \/ DoReorder(w)
  PROVE  CountInv'
<1>1. can_reorder
  BY TaskReady DEF CountInv, RejectBogus, DoReorder, AtTask
<1>2. /\ NextTaskFresh' /\ pc' = pc /\ pc' \in [Workers -> WorkerStates]
      /\ UNCHANGED <<retr_q, emit_q, work_units>>
  BY DEF RejectBogus, DoReorder, NextTaskFresh, slotVars, CountInv, CountsOK
<1>3. IsQueue(reord_q') /\ Len(reord_q') = Len(reord_q) - 1
  BY <1>1, QueueShrinks DEF can_reorder, CountInv, CountsOK, RejectBogus, DoReorder, dequeue
<1>4. Slots(sink' \in {"write", "release"}) = Slots(sink \in {"write", "release"})
  BY DEF RejectBogus, DoReorder, SinkWriteBuffer, sinkVars, Slots
<1>5. IsQueue(output_q') /\ out_slots' \in Nat /\ out_slots' + Len(output_q') = out_slots + Len(output_q) + 1
  <2>1. CASE RejectBogus(w)
    <3>1. out_slots' = out_slots + 1 /\ output_q' = output_q
      BY <2>1 DEF RejectBogus, sinkVars
    <3> QED
      BY <3>1, CountTypes DEF CountInv, CountsOK
  <2>2. CASE DoReorder(w)
    <3>1. out_slots' = out_slots /\ \E e : output_q' = Append(output_q, e)
      BY <2>2 DEF DoReorder, SinkWriteBuffer, slotVars
    <3>2. IsQueue(output_q') /\ Len(output_q') = Len(output_q) + 1
      BY <3>1, QueueGrows DEF CountInv, CountsOK
    <3> QED
      BY <3>1, <3>2, CountTypes
  <2> QED
    BY <2>1, <2>2
<1>6. QueuesOK' /\ Queued' = Queued
  BY <1>2, <1>3, <1>5 DEF QueuesOK, CountInv, CountsOK, Queued
<1> DEFINE out == Len(output_q')
           slots == out_slots'
<1>7. out \in Nat /\ slots \in Nat /\ slots + out = out_slots + Len(output_q) + 1
  BY <1>5, LengthIsNat
<1>8. Chunks' = (Len(reord_q) - 1) + out + Slots(sink \in {"write", "release"})
  BY <1>3, <1>4 DEF Chunks
<1> DEFINE sunk == Slots(sink \in {"write", "release"})
<1>9. sunk \in Nat /\ Len(reord_q) \in Nat /\ Len(output_q) \in Nat /\ out_slots \in Nat
  BY CountTypes
<1>10. Chunks = Len(reord_q) + Len(output_q) + sunk
  BY DEF Chunks
<1>11. out_slots' + Chunks' = out_slots + Chunks
  <2> DEFINE chunksNow == Chunks'
             chunks == Chunks
  <2>1. chunksNow = (Len(reord_q) - 1) + out + sunk /\ chunks = Len(reord_q) + Len(output_q) + sunk
    BY <1>8, <1>10
  <2> HIDE DEF chunksNow, chunks, out, slots, sunk
  <2>2. slots + chunksNow = out_slots + chunks
    BY <1>7, <1>9, <2>1
  <2> QED
    BY <2>2 DEF slots, chunksNow, chunks
<1> QED
  BY <1>2, <1>5, <1>6, <1>11, OtherStep

(***************************************************************************)
(* The other steps.                                                        *)
(***************************************************************************)
LEMMA StillFresh ==
  ASSUME NextTaskFresh, next_task' = next_task, UNCHANGED jobVars, UNCHANGED slotVars
  PROVE  NextTaskFresh'
<1>1. UNCHANGED <<reord_q, order_q, parsing_done, parse_token, work_units, parser_bs,
                  tail_offs, head_offs, eof, emit_q, out_slots, retr_q, scan_q>>
  BY DEF jobVars, slotVars, inputVars, queueVars, parserVars
<1>2. can_reorder' = can_reorder /\ can_parse' = can_parse /\ can_emit' = can_emit
  BY <1>1 DEF can_reorder, can_parse, can_attach, can_emit
<1>3. can_retrieve' = can_retrieve /\ can_scan' = can_scan
  BY <1>1 DEF can_retrieve, can_scan, can_attach
<1>4. (retr_q # <<>> /\ Released(peek(retr_q)))' = (retr_q # <<>> /\ Released(peek(retr_q)))
  BY <1>1 DEF Released
<1>5. SelectTask' = SelectTask
  BY <1>2, <1>3, <1>4 DEF SelectTask
<1> QED
  BY <1>5 DEF NextTaskFresh

(* Steps that change neither the queues of the job nor its counts.         *)
LEMMA QuietStep ==
  ASSUME CountInv, UNCHANGED <<retr_q, emit_q, reord_q, work_units>>,
         NextTaskFresh', pc' \in [Workers -> WorkerStates],
         \A v \in Workers : pc'[v] = pc[v] \/ (pc[v] \notin UnitStates /\ pc'[v] \notin UnitStates),
         IsQueue(output_q'), out_slots' \in Nat,
         out_slots' + Chunks' = out_slots + Chunks
  PROVE  CountInv'
<1>1. QueuesOK' /\ Queued' = Queued
  BY DEF QueuesOK, CountInv, CountsOK, Queued
<1> QED
  BY <1>1, OtherStep

LEMMA ChunksSame ==
  ASSUME CountInv, UNCHANGED <<out_slots, reord_q, output_q>>,
         sink' \in {"write", "release"} <=> sink \in {"write", "release"}
  PROVE  IsQueue(output_q') /\ out_slots' \in Nat /\ out_slots' + Chunks' = out_slots + Chunks
<1>1. Slots(sink' \in {"write", "release"}) = Slots(sink \in {"write", "release"})
  BY DEF Slots
<1> QED
  BY <1>1 DEF Chunks, CountInv, CountsOK

LEMMA UnlockInPlace ==
  ASSUME CountsOK, Unlock(pc)
  PROVE  /\ NextTaskFresh' /\ pc' \in [Workers -> WorkerStates]
         /\ \A v \in Workers : pc'[v] = pc[v] \/ (pc[v] \notin UnitStates /\ pc'[v] \notin UnitStates)
<1>1. pc \in [Workers -> WorkerStates]
  BY DEF CountsOK
<1>2. /\ NextTaskFresh' /\ pc' \in [Workers -> WorkerStates]
      /\ \A v \in Workers : pc'[v] = pc[v] \/ (pc[v] = "waiting" /\ pc'[v] = "enter")
  BY <1>1, UnlockEffect
<1> QED
  BY <1>2 DEF UnitStates

LEMMA SourceCounts ==
  ASSUME CountInv, OnInputAvail \/ InputRefused \/ InputEnds
  PROVE  CountInv'
<1>1. Unlock(pc)
  BY DEF OnInputAvail, InputRefused, InputEnds
<1>2. UNCHANGED <<retr_q, emit_q, reord_q, work_units, out_slots, output_q, sink>>
  BY DEF OnInputAvail, InputRefused, InputEnds, sinkVars, slotVars, jobVars, queueVars
<1>3. IsQueue(output_q') /\ out_slots' \in Nat /\ out_slots' + Chunks' = out_slots + Chunks
  BY <1>2, ChunksSame
<1>4. /\ NextTaskFresh' /\ pc' \in [Workers -> WorkerStates]
      /\ \A v \in Workers : pc'[v] = pc[v] \/ (pc[v] \notin UnitStates /\ pc'[v] \notin UnitStates)
  BY <1>1, UnlockInPlace DEF CountInv
<1> QED
  BY <1>2, <1>3, <1>4, QuietStep

LEMMA OnWriteCompleteCounts ==
  ASSUME CountInv, OnWriteComplete
  PROVE  CountInv'
<1>1. Unlock(pc)
  BY DEF OnWriteComplete
<1>2. UNCHANGED <<retr_q, emit_q, reord_q, work_units, output_q>>
  BY DEF OnWriteComplete, jobVars, queueVars
<1>3. /\ Slots(sink \in {"write", "release"}) = 1
      /\ Slots(sink' \in {"write", "release"}) = 0
  BY DEF OnWriteComplete, Slots
<1>4. Chunks' = Chunks - 1
  BY <1>2, <1>3, CountTypes DEF Chunks
<1>5. out_slots' = out_slots + 1
  BY DEF OnWriteComplete
<1>6. IsQueue(output_q') /\ out_slots' \in Nat /\ out_slots' + Chunks' = out_slots + Chunks
  BY <1>2, <1>4, <1>5, CountTypes DEF CountInv, CountsOK
<1>7. /\ NextTaskFresh' /\ pc' \in [Workers -> WorkerStates]
      /\ \A v \in Workers : pc'[v] = pc[v] \/ (pc[v] \notin UnitStates /\ pc'[v] \notin UnitStates)
  BY <1>1, UnlockInPlace DEF CountInv
<1> QED
  BY <1>2, <1>6, <1>7, QuietStep

LEMMA SinkTakeCounts ==
  ASSUME CountInv, SinkTake, UNCHANGED jobVars
  PROVE  CountInv'
<1>1. UNCHANGED <<retr_q, emit_q, reord_q, work_units, out_slots, pc>>
  BY DEF SinkTake, jobVars, queueVars, slotVars, schedVars
<1>2. NextTaskFresh'
  BY StillFresh DEF SinkTake, schedVars, CountInv
<1>3. /\ Slots(sink \in {"write", "release"}) = 0
      /\ Slots(sink' \in {"write", "release"}) = 1
  BY DEF SinkTake, Slots
<1>4. IsQueue(output_q') /\ Len(output_q') = Len(output_q) - 1
  BY QueueShrinks DEF SinkTake, CountInv, CountsOK
<1>5. Chunks' = Chunks
  BY <1>1, <1>3, <1>4, CountTypes DEF Chunks
<1>6. out_slots' \in Nat /\ out_slots' + Chunks' = out_slots + Chunks
  BY <1>1, <1>5, CountTypes
<1>7. pc' \in [Workers -> WorkerStates]
  BY <1>1 DEF CountInv, CountsOK
<1> QED
  BY <1>1, <1>2, <1>4, <1>6, <1>7, QuietStep

(* The steps of the machinery in which the job plays no part, and those in *)
(* which a thread gives up.                                                *)
LEMMA ControlCounts ==
  ASSUME CountInv, UNCHANGED jobVars, UNCHANGED slotVars, next_task' = next_task,
         pc' \in [Workers -> WorkerStates],
         \A v \in Workers : pc'[v] = pc[v] \/ (pc[v] \notin UnitStates /\ pc'[v] \notin UnitStates),
         output_q' = output_q,
         sink' \in {"write", "release"} <=> sink \in {"write", "release"}
  PROVE  CountInv'
<1>1. UNCHANGED <<retr_q, emit_q, reord_q, work_units, out_slots>>
  BY DEF jobVars, queueVars, slotVars
<1>2. NextTaskFresh'
  BY StillFresh DEF CountInv
<1>3. IsQueue(output_q') /\ out_slots' \in Nat /\ out_slots' + Chunks' = out_slots + Chunks
  BY <1>1, ChunksSame
<1> QED
  BY <1>1, <1>2, <1>3, QuietStep

(* failf() by a worker: only its own control state and failed change.      *)
LEMMA FailCounts ==
  ASSUME CountInv, NEW w \in Workers, ParseFail(w) \/ ReorderFail(w)
  PROVE  CountInv'
<1>1. Fail(w)
  BY DEF ParseFail, ReorderFail
<1>2. UNCHANGED <<retr_q, emit_q, reord_q, work_units, out_slots, output_q, sink, next_task>>
  BY <1>1 DEF Fail, queueVars, slotVars, sinkVars
<1>3. pc' = pc \/ (pc[w] = "loop" /\ pc' = [pc EXCEPT ![w] = "dead"])
  BY DEF ParseFail, ReorderFail, AtTask
<1>4. /\ pc' \in [Workers -> WorkerStates]
      /\ \A v \in Workers : pc'[v] = pc[v] \/ (pc[v] \notin UnitStates /\ pc'[v] \notin UnitStates)
  BY <1>3 DEF CountInv, CountsOK, WorkerStates, UnitStates
<1>5. SelectTask' = SelectTask
  <2>1. UNCHANGED <<reord_q, order_q, parsing_done, parse_token, work_units, parser_bs,
                    tail_offs, head_offs, eof, emit_q, out_slots, retr_q, scan_q>>
    BY <1>1 DEF Fail, slotVars, inputVars, queueVars, parserVars
  <2>2. can_reorder' = can_reorder /\ can_parse' = can_parse /\ can_emit' = can_emit
    BY <2>1 DEF can_reorder, can_parse, can_attach, can_emit
  <2>3. can_retrieve' = can_retrieve /\ can_scan' = can_scan
    BY <2>1 DEF can_retrieve, can_scan, can_attach
  <2>4. (retr_q # <<>> /\ Released(peek(retr_q)))' = (retr_q # <<>> /\ Released(peek(retr_q)))
    BY <2>1 DEF Released
  <2> QED
    BY <2>2, <2>3, <2>4 DEF SelectTask
<1>6. NextTaskFresh'
  BY <1>2, <1>5 DEF NextTaskFresh, CountInv
<1>7. IsQueue(output_q') /\ out_slots' \in Nat /\ out_slots' + Chunks' = out_slots + Chunks
  BY <1>2, ChunksSame
<1> QED
  BY <1>2, <1>4, <1>6, <1>7, QuietStep

LEMMA LoopCounts ==
  ASSUME CountInv, NEW w \in Workers, UNCHANGED jobVars,
         WorkerEnter(w) \/ WorkerWait(w, can_terminate) \/ WorkerExit(w, can_terminate)
  PROVE  CountInv'
<1>1. UNCHANGED slotVars /\ next_task' = next_task /\ UNCHANGED sinkVars
  BY DEF WorkerEnter, WorkerWait, WorkerExit
<1>2. /\ pc' \in [Workers -> WorkerStates]
      /\ \A v \in Workers : pc'[v] = pc[v] \/ (pc[v] \notin UnitStates /\ pc'[v] \notin UnitStates)
  BY DEF WorkerEnter, WorkerWait, WorkerExit, AtTask, CountInv, CountsOK, WorkerStates, UnitStates
<1> QED
  BY <1>1, <1>2, ControlCounts DEF sinkVars

LEMMA MachineryCounts ==
  ASSUME CountInv, UNCHANGED jobVars,
         \/ SourceOnly \/ SinkStall \/ SinkWrite \/ SinkExit \/ PrimaryOnly \/ SpuriousWakeup
         \/ UNCHANGED procVars
  PROVE  CountInv'
<1>1. UNCHANGED slotVars /\ next_task' = next_task /\ output_q' = output_q
  BY DEF SourceOnly, SourceStall, SourceTakeSlot, SourceClosed, SourceRead, SinkStall, SinkWrite,
     SinkExit, PrimaryOnly, JoinWorkersAndSource, JoinSink, SpuriousWakeup, schedVars, sinkVars,
     procVars
<1>2. sink' \in {"write", "release"} <=> sink \in {"write", "release"}
  BY DEF SourceOnly, SourceStall, SourceTakeSlot, SourceClosed, SourceRead, SinkStall, SinkWrite,
     SinkExit, PrimaryOnly, JoinWorkersAndSource, JoinSink, SpuriousWakeup, sinkVars, procVars
<1>3. pc' = pc \/ \E w \in Waiting(pc) : pc' = [pc EXCEPT ![w] = "enter"]
  BY DEF SourceOnly, SourceStall, SourceTakeSlot, SourceClosed, SourceRead, SinkStall, SinkWrite,
     SinkExit, PrimaryOnly, JoinWorkersAndSource, JoinSink, SpuriousWakeup, schedVars, procVars
<1>4. /\ pc' \in [Workers -> WorkerStates]
      /\ \A v \in Workers : pc'[v] = pc[v] \/ (pc[v] \notin UnitStates /\ pc'[v] \notin UnitStates)
  BY <1>3 DEF Waiting, CountInv, CountsOK, WorkerStates, UnitStates
<1> QED
  BY <1>1, <1>2, <1>4, ControlCounts

LEMMA KilledCounts ==
  ASSUME CountInv, Killed
  PROVE  CountInv'
<1>1. UNCHANGED jobVars /\ UNCHANGED slotVars /\ UNCHANGED schedVars /\ UNCHANGED sinkVars
  BY DEF Killed
<1>2. pc' = pc /\ next_task' = next_task /\ output_q' = output_q /\ sink' = sink
  BY <1>1 DEF schedVars, sinkVars
<1> QED
  BY <1>1, <1>2, ControlCounts DEF CountInv, CountsOK

LEMMA NextCounts == CountInv /\ [Next]_vars => CountInv'
<1> SUFFICES ASSUME CountInv, [Next]_vars PROVE CountInv'
  OBVIOUS
<1>1. ASSUME NEW w \in Workers, Parsing(w) \/ Retrieving(w)
      PROVE  CountInv'
  BY <1>1, DoParseCounts, ParsedCounts, FailCounts, ParseFinishCounts, DoRetrieveCounts,
     RetrievedCounts, RetrieveOverCounts, DecodedCounts DEF Parsing, Retrieving
<1>2. ASSUME NEW w \in Workers, Worker(w)
      PROVE  CountInv'
  BY <1>1, <1>2, LoopCounts, DoEmitCounts, EmittedCounts, ReorderCounts, FailCounts,
     DoScanCounts, ScannedCounts DEF Worker
<1>3. CASE Source
  BY <1>3, SourceCounts, MachineryCounts DEF Source
<1>4. CASE Sink
  BY <1>4, OnWriteCompleteCounts, SinkTakeCounts, MachineryCounts DEF Sink, SinkOnly
<1>5. CASE Primary
  BY <1>5, KilledCounts, MachineryCounts DEF Primary
<1>6. CASE Spurious
  BY <1>6, MachineryCounts DEF Spurious
<1>7. CASE UNCHANGED vars
  BY <1>7, MachineryCounts DEF vars
<1> QED
  BY <1>2, <1>3, <1>4, <1>5, <1>6, <1>7 DEF Next, Over

LEMMA InitCounts == Init => CountInv
<1> SUFFICES ASSUME Init PROVE CountInv
  OBVIOUS
<1>1. /\ retr_q = <<>> /\ emit_q = <<>> /\ reord_q = <<>> /\ output_q = <<>> /\ order_q = <<>>
      /\ scan_q = <<>> /\ eof = FALSE /\ tail_offs = 0 /\ parser_bs = bits_init(0)
      /\ work_units = num_worker /\ out_slots = TotalOutSlots
      /\ pc = [w \in Workers |-> "enter"] /\ sink = "top" /\ next_task = NoTask
      /\ parsing_done = FALSE
  BY DEF Init, ProcessInit
<1>2. num_worker \in Nat /\ TotalOutSlots \in Nat
  BY ProcessAssumption, FS_CardinalityType DEF num_worker
<1>3. IsQueue(<<>>) /\ Len(<<>>) = 0
  <2>1. <<>> \in Seq({}) /\ Len(<<>>) = 0
    OBVIOUS
  <2> QED
    BY <2>1 DEF IsQueue
<1>4. CountsOK
  BY <1>1, <1>2, <1>3 DEF CountsOK, WorkerStates
<1>5. NextTaskFresh
  BY <1>1 DEF NextTaskFresh, SelectTask, can_reorder, can_parse, can_attach, can_emit, can_retrieve,
     can_scan, bits_init, BitsAt
<1>6. At({"parse", "retrieve", "decode", "emit", "scan"}) = {} /\ At({"emit"}) = {}
  BY <1>1 DEF At
<1>7. Cardinality({}) = 0 /\ Slots(sink \in {"write", "release"}) = 0
  BY <1>1, FS_EmptySet DEF Slots
<1>8. num_worker + 0 + 0 + 0 = num_worker /\ TotalOutSlots + 0 + 0 + 0 + 0 = TotalOutSlots
  BY <1>2
<1>9. WorkUnitsConserved
  BY <1>1, <1>3, <1>6, <1>7, <1>8, Zenon DEF WorkUnitsConserved
<1>10. OutSlotsConserved
  BY <1>1, <1>3, <1>6, <1>7, <1>8, Zenon DEF OutSlotsConserved
<1> QED
  BY <1>1, <1>2, <1>4, <1>5, <1>9, <1>10 DEF CountInv, UnitsBalance

(***************************************************************************)
(* Input slots.  A buffer that arrives is referred to by an offset that no *)
(* other one has, since every buffer that is delivered contains something. *)
(***************************************************************************)
InputInv ==
  /\ in_slots \in Nat /\ tail_offs \in Nat /\ avail \in Nat /\ file_len \in Nat
  /\ ispec_total \in 0 .. file_len
  /\ source = "deliver" => avail > 0
  /\ IsFiniteSet(DOMAIN ref_count)
  /\ \A o \in DOMAIN ref_count : o \in Nat /\ o < tail_offs
  /\ InSlotsConserved

Reading(s) == Slots(s \in {"read", "deliver"})

(* Steps that leave the buffers where they are.                            *)
LEMMA InputStays ==
  ASSUME InputInv, UNCHANGED <<in_slots, tail_offs, avail, file_len, ispec_total>>,
         DOMAIN ref_count' = DOMAIN ref_count,
         source' = source \/ (source \notin {"read", "deliver"} /\ source' \notin {"read", "deliver"})
  PROVE  InputInv'
<1>1. Reading(source') = Reading(source)
  BY DEF Reading, Slots
<1>2. InSlotsConserved'
  BY <1>1 DEF InputInv, InSlotsConserved, Reading
<1> QED
  BY <1>2 DEF InputInv

LEMMA InputAttached ==
  ASSUME InputInv, NEW w \in Workers, DoParse(w) \/ DoRetrieve(w) \/ DoScan(w)
  PROVE  InputInv'
<1>1. UNCHANGED sourceVars /\ tail_offs' = tail_offs
  BY DEF DoParse, DoRetrieve, DoScan
<1>2. DOMAIN ref_count' = DOMAIN ref_count
  BY DEF DoParse, DoRetrieve, DoScan, Attach
<1> QED
  BY <1>1, <1>2, InputStays DEF sourceVars

LEMMA InputReleased ==
  ASSUME InputInv, NEW gone, NEW w, NEW close \in BOOLEAN, ReleaseRefs(gone, w, close)
  PROVE  InputInv'
<1> DEFINE D == DOMAIN ref_count
           E == DOMAIN ref_count'
<1>1. E \subseteq D
  BY DEF ReleaseRefs, RefsWithout
<1>2. IsFiniteSet(D) /\ IsFiniteSet(E) /\ IsFiniteSet(D \ E)
  BY <1>1, FS_Subset DEF InputInv
<1>3. /\ Cardinality(D) \in Nat /\ Cardinality(E) \in Nat /\ Cardinality(D \ E) \in Nat
      /\ Cardinality(D \ E) = Cardinality(D) - Cardinality(E)
  <2>1. E = D \cap E
    BY <1>1
  <2> HIDE DEF D, E
  <2> QED
    BY <1>2, <2>1, FS_Difference, FS_CardinalityType
<1>4. in_slots' = in_slots + Cardinality(D \ E)
  BY DEF ReleaseRefs
<1>5. /\ UNCHANGED <<file_len, ispec_total, avail, tail_offs>>
      /\ source' = source \/ (source = "stalled" /\ source' = "top")
  BY DEF ReleaseRefs
<1>6. Reading(source') = Reading(source) /\ Reading(source) \in Nat
  BY <1>5 DEF Reading, Slots
<1> DEFINE slots == in_slots'
           full == Cardinality(D)
           fullNow == Cardinality(E)
           reading == Reading(source)
           readingNow == Reading(source')
<1>7. in_slots + reading + full = TotalInSlots /\ in_slots \in Nat
  BY DEF InputInv, InSlotsConserved, Reading
<1>8. slots = in_slots + (full - fullNow) /\ full \in Nat /\ fullNow \in Nat /\ full - fullNow \in Nat
  BY <1>3, <1>4
<1>9. readingNow = reading /\ reading \in Nat
  BY <1>6
<1> HIDE DEF slots, full, fullNow, reading, readingNow
<1>10. slots \in Nat /\ slots + readingNow + fullNow = TotalInSlots
  BY <1>7, <1>8, <1>9
<1>11. InSlotsConserved'
  BY <1>10 DEF InSlotsConserved, slots, readingNow, fullNow, Reading
<1>12. in_slots' \in Nat
  BY <1>10 DEF slots
<1>13. source' = "deliver" => avail' > 0
  BY <1>5 DEF InputInv
<1>14. \A o \in DOMAIN ref_count' : o \in Nat /\ o < tail_offs'
  BY <1>1, <1>5 DEF InputInv
<1> QED
  BY <1>2, <1>5, <1>11, <1>12, <1>13, <1>14 DEF InputInv

LEMMA InputReturned ==
  ASSUME InputInv, NEW w \in Workers,
         \/ ParseMore(w) \/ ParseFinish(w) \/ ParseUnique(w) \/ ParseTaken(w)
         \/ RetrieveAbort(w) \/ RetrieveMoreAsMaster(w) \/ RetrieveMoreAhead(w)
         \/ RetrieveOverAsMaster(w) \/ RetrieveOverAhead(w)
         \/ ScanNothing(w) \/ ScanKnown(w) \/ ScanUnique(w)
  PROVE  InputInv'
<1>1. \E gone : \E close \in BOOLEAN : ReleaseRefs(gone, w, close)
  BY DEF ParseMore, ParseFinish, ParseUnique, ParseTaken, RetrieveAbort, RetrieveMoreAsMaster,
     RetrieveMoreAhead, RetrieveOverAsMaster, RetrieveOverAhead, ScanNothing, ScanKnown, ScanUnique,
     ScanReturns, Detach, Advance
<1> QED
  BY <1>1, InputReleased

LEMMA InputStaysWithWorker ==
  ASSUME InputInv, NEW w \in Workers,
         \/ ParseFail(w) \/ ReorderFail(w) \/ Decoded(w) \/ DoEmit(w) \/ Emitted(w)
         \/ RejectBogus(w) \/ DoReorder(w)
         \/ /\ WorkerEnter(w) \/ WorkerWait(w, can_terminate) \/ WorkerExit(w, can_terminate)
            /\ UNCHANGED jobVars
  PROVE  InputInv'
<1>1. UNCHANGED sourceVars
  BY DEF ParseFail, ReorderFail, Fail, Decoded, DoEmit, Emitted, RejectBogus, DoReorder,
     WorkerEnter, WorkerWait, WorkerExit
<1>2. UNCHANGED <<tail_offs, ref_count>>
  BY DEF ParseFail, ReorderFail, Fail, Decoded, DoEmit, Emitted, RejectBogus, DoReorder,
     inputVars, jobVars
<1> QED
  BY <1>1, <1>2, InputStays DEF sourceVars

LEMMA InputArrives ==
  ASSUME InputInv, OnInputAvail
  PROVE  InputInv'
<1> DEFINE D == DOMAIN ref_count
<1>1. DOMAIN ref_count' = D \cup {tail_offs}
  BY DEF OnInputAvail
<1>2. IsFiniteSet(D) /\ tail_offs \notin D
  BY DEF InputInv
<1>3. /\ IsFiniteSet(D \cup {tail_offs}) /\ Cardinality(D) \in Nat
      /\ Cardinality(D \cup {tail_offs}) = Cardinality(D) + 1
  BY <1>2, FS_AddElement, FS_CardinalityType
<1>4. Words(avail) \in Nat \ {0}
  <2>1. avail \in Nat \ {0}
    BY DEF InputInv, OnInputAvail
  <2> QED
    BY <2>1 DEF Words
<1>5. tail_offs' = tail_offs + Words(avail) /\ UNCHANGED <<in_slots, avail, file_len, ispec_total>>
  BY DEF OnInputAvail
<1>6. tail_offs \in Nat /\ tail_offs' \in Nat /\ tail_offs < tail_offs'
  BY <1>4, <1>5 DEF InputInv
<1>7. \A o \in DOMAIN ref_count' : o \in Nat /\ o < tail_offs'
  BY <1>1, <1>6 DEF InputInv
<1>8. Reading(source) = 1 /\ Reading(source') = 0 /\ source' # "deliver"
  BY DEF OnInputAvail, AfterDelivery, Reading, Slots
<1>9. in_slots + 1 + Cardinality(D) = TotalInSlots /\ in_slots \in Nat
  BY <1>8 DEF InputInv, InSlotsConserved, Reading
<1>10. in_slots + 0 + (Cardinality(D) + 1) = TotalInSlots
  BY <1>3, <1>9
<1>11. InSlotsConserved'
  BY <1>1, <1>3, <1>5, <1>8, <1>10 DEF InSlotsConserved, Reading
<1> QED
  BY <1>1, <1>3, <1>5, <1>6, <1>7, <1>8, <1>11 DEF InputInv

LEMMA InputMoves ==
  ASSUME InputInv, UNCHANGED jobVars,
         SourceStall \/ SourceTakeSlot \/ SourceClosed \/ SourceRead \/ InputRefused
  PROVE  InputInv'
<1>1. UNCHANGED <<tail_offs, ref_count>>
  BY DEF jobVars, inputVars
<1>2. CASE SourceStall \/ SourceClosed
  BY <1>1, <1>2, InputStays DEF SourceStall, SourceClosed
<1>3. CASE SourceTakeSlot \/ SourceRead \/ InputRefused
  <2> DEFINE slots == in_slots'
             reading == Reading(source)
             readingNow == Reading(source')
             full == Cardinality(DOMAIN ref_count)
  <2>1. slots \in Nat /\ slots + readingNow = in_slots + reading
    BY <1>3 DEF SourceTakeSlot, SourceRead, InputRefused, AfterDelivery, Reading, Slots, InputInv
  <2>2. reading \in Nat /\ readingNow \in Nat /\ full \in Nat /\ in_slots \in Nat
    BY FS_CardinalityType DEF Reading, Slots, InputInv
  <2>3. in_slots + reading + full = TotalInSlots
    BY DEF InputInv, InSlotsConserved, Reading
  <2> HIDE DEF slots, reading, readingNow, full
  <2>4. slots + readingNow + full = TotalInSlots
    BY <2>1, <2>2, <2>3
  <2>5. InSlotsConserved'
    BY <1>1, <2>4 DEF slots, readingNow, full, Reading, InSlotsConserved
  <2>6. in_slots' \in Nat
    BY <2>1 DEF slots
  <2>7. /\ avail' \in Nat /\ file_len' = file_len /\ ispec_total' \in 0 .. file_len
        /\ source' = "deliver" => avail' > 0
    <3>1. CASE SourceTakeSlot \/ InputRefused
      BY <3>1 DEF SourceTakeSlot, InputRefused, AfterDelivery, InputInv
    <3>2. CASE SourceRead
      <4>1. InGranul \in Nat \ {0}
        BY ProcessAssumption
      <4>2. /\ avail' = min(InGranul, file_len - ispec_total)
            /\ ispec_total' = ispec_total + avail' /\ file_len' = file_len
            /\ source' = IF avail' = 0 THEN "eof" ELSE "deliver"
        BY <3>2 DEF SourceRead
      <4>3. file_len \in Nat /\ ispec_total \in 0 .. file_len
        BY DEF InputInv
      <4>4. avail' \in 0 .. file_len - ispec_total
        BY <4>1, <4>2, <4>3 DEF min
      <4> QED
        BY <4>2, <4>3, <4>4
    <3> QED
      BY <1>3, <3>1, <3>2
  <2> QED
    BY <1>1, <2>5, <2>6, <2>7 DEF InputInv
<1> QED
  BY <1>2, <1>3

LEMMA NextInput == InputInv /\ [Next]_vars => InputInv'
<1> SUFFICES ASSUME InputInv, [Next]_vars PROVE InputInv'
  OBVIOUS
<1>1. ASSUME NEW w \in Workers, Worker(w)
      PROVE  InputInv'
  BY <1>1, InputAttached, InputReturned, InputStaysWithWorker DEF Worker, Parsing, Retrieving
<1>2. CASE Source
  <2>1. CASE OnInputAvail
    BY <2>1, InputArrives
  <2>2. CASE InputRefused \/ (SourceOnly /\ UNCHANGED jobVars)
    BY <2>2, InputMoves DEF SourceOnly, InputRefused
  <2>3. CASE InputEnds
    <3>1. UNCHANGED <<in_slots, tail_offs, avail, file_len, ispec_total, ref_count>>
      BY <2>3 DEF InputEnds, jobVars, inputVars
    <3> QED
      BY <2>3, <3>1, InputStays DEF InputEnds
  <2> QED
    BY <1>2, <2>1, <2>2, <2>3 DEF Source
<1>3. CASE Sink \/ Primary \/ Spurious \/ UNCHANGED vars
  <2>1. UNCHANGED <<in_slots, avail, file_len, ispec_total>>
    BY <1>3 DEF Sink, OnWriteComplete, SinkOnly, SinkStall, SinkTake, SinkWrite, SinkExit, Primary,
       Killed, PrimaryOnly, JoinWorkersAndSource, JoinSink, Spurious, SpuriousWakeup,
       sourceVars, vars, procVars
  <2>2. UNCHANGED <<tail_offs, ref_count>>
    BY <1>3 DEF Sink, OnWriteComplete, Primary, Killed, Spurious, vars, jobVars, inputVars
  <2>3. source' = source \/ (source \notin {"read", "deliver"} /\ source' \notin {"read", "deliver"})
    BY <1>3 DEF Sink, OnWriteComplete, SinkOnly, SinkStall, SinkTake, SinkWrite, SinkExit, Primary,
       Killed, PrimaryOnly, JoinWorkersAndSource, JoinSink, Spurious, SpuriousWakeup,
       sourceVars, vars, procVars
  <2> QED
    BY <2>1, <2>2, <2>3, InputStays
<1> QED
  BY <1>1, <1>2, <1>3 DEF Next, Over

LEMMA InitInput == Init => InputInv
<1> SUFFICES ASSUME Init PROVE InputInv
  OBVIOUS
<1>1. /\ in_slots = TotalInSlots /\ tail_offs = 0 /\ avail = 0 /\ ispec_total = 0
      /\ file_len \in Nat /\ source = "top" /\ ref_count = <<>>
  BY ProcessAssumption DEF Init, ProcessInit
<1>2. DOMAIN ref_count = {}
  BY <1>1
<1>3. IsFiniteSet({}) /\ Cardinality({}) = 0
  BY FS_EmptySet
<1>4. Slots(source \in {"read", "deliver"}) = 0
  BY <1>1 DEF Slots
<1>5. TotalInSlots \in Nat /\ TotalInSlots + 0 + 0 = TotalInSlots
  BY ProcessAssumption
<1>6. InSlotsConserved
  BY <1>1, <1>2, <1>3, <1>4, <1>5, Zenon DEF InSlotsConserved
<1> QED
  BY <1>1, <1>2, <1>3, <1>5, <1>6 DEF InputInv

(***************************************************************************)
(* The theorems.                                                           *)
(***************************************************************************)
(* Nobody acts on a decision that the last change has made wrong: what the *)
(* workers find in next_task is what select_task() says of the present     *)
(* state, also when nothing but the assertion of can_attach() is left.     *)
THEOREM ExpansionFresh == Spec => []NextTaskFresh
<1>1. CountInv => NextTaskFresh
  BY DEF CountInv
<1> QED
  BY <1>1, InitCounts, NextCounts, PTL DEF Spec

(* What init() allocates suffices: the macros enqueue() and push() do not  *)
(* look at the capacity of retr_q, emit_q and reord_q.                     *)
QueuesInBounds ==
  /\ Len(retr_q) + Len(emit_q) <= num_worker
  /\ Len(reord_q) + Len(output_q) <= TotalOutSlots

(* No work unit, output slot or input slot is lost or made up on any path: *)
(* taken, dropped, abandoned, rejected or finished; no count drops below   *)
(* zero, and no queue of those that hold units or slots outgrows its array.*)
THEOREM ExpansionConserves == Spec => [](ResourcesConserved /\ QueuesInBounds)
<1>1. ASSUME CountInv PROVE QueuesInBounds
  <2> DEFINE busy == Cardinality(At({"parse", "retrieve", "decode", "emit", "scan"}))
             emitting == Cardinality(At({"emit"}))
             sunk == Slots(sink \in {"write", "release"})
             retr == Len(retr_q)
             emit == Len(emit_q)
             reord == Len(reord_q)
             out == Len(output_q)
  <2>1. busy \in Nat /\ emitting \in Nat
    BY ProcessAssumption, FS_Subset, FS_CardinalityType DEF At
  <2>2. sunk \in Nat
    BY DEF Slots
  <2>3. /\ retr \in Nat /\ emit \in Nat /\ reord \in Nat /\ out \in Nat
        /\ work_units \in Nat /\ out_slots \in Nat
    BY <1>1, CountTypes
  <2>4. /\ work_units + retr + emit + busy = num_worker
        /\ out_slots + emitting + reord + out + sunk = TotalOutSlots
    BY <1>1 DEF CountInv, UnitsBalance, WorkUnitsConserved, OutSlotsConserved
  <2> HIDE DEF busy, emitting, sunk, retr, emit, reord, out
  <2>5. retr + emit <= num_worker
    BY <2>1, <2>3, <2>4
  <2>6. reord + out <= TotalOutSlots
    BY <2>1, <2>2, <2>3, <2>4
  <2> QED
    BY <2>5, <2>6 DEF QueuesInBounds, retr, emit, reord, out
<1>2. CountInv /\ InputInv => ResourcesConserved /\ QueuesInBounds
  BY <1>1 DEF CountInv, UnitsBalance, InputInv, ResourcesConserved
<1> QED
  BY <1>2, InitCounts, NextCounts, InitInput, NextInput, PTL DEF Spec

(***************************************************************************)
(* What is in a stream.                                                    *)
(***************************************************************************)
LEMMA StreamsOK ==
  ASSUME NEW s \in Streams
  PROVE  StreamOK(s)
  BY ExpansionAssumption

(* Patterns are known by their bases.                                      *)
LEMMA PatternOf ==
  ASSUME NEW s, StreamOK(s), NEW u \in PatternBases(s)
  PROVE  /\ Pattern(s, u) \in Patterns(s) /\ Pattern(s, u).base = u
         /\ u \in Nat /\ Pattern(s, u).stop \in Nat /\ Pattern(s, u).need \in Nat
         /\ u < Pattern(s, u).stop
         /\ Words(Pattern(s, u).stop) <= Pattern(s, u).need
         /\ Pattern(s, u).need <= Words(Pattern(s, u).stop) + 1
<1>1. Pattern(s, u) \in Patterns(s) /\ Pattern(s, u).base = u
  <2>1. PICK c \in Patterns(s) : c.base = u
    BY DEF PatternBases
  <2> QED
    BY <2>1 DEF Pattern
<1> DEFINE b == Pattern(s, u)
<1>2. BlockOK(b)
  BY <1>1 DEF StreamOK
<1> HIDE DEF b
<1>3. b.base \in Nat /\ b.stop \in Nat /\ b.need \in Nat /\ b.stop > b.base
  BY <1>2 DEF BlockOK, PatternType
<1>4. Words(b.stop) \in Nat
  BY <1>3 DEF Words
<1>5. Words(b.stop) <= b.need /\ b.need <= Words(b.stop) + 1
  BY <1>2, <1>3, <1>4 DEF BlockOK
<1> QED
  BY <1>1, <1>3, <1>5 DEF b

LEMMA RealOf ==
  ASSUME NEW s, StreamOK(s), NEW u \in RealBases(s)
  PROVE  /\ u \in PatternBases(s) /\ u \in Nat
         /\ \E i \in 1 .. Len(s.blocks) : s.blocks[i] = Pattern(s, u)
<1>1. PICK c \in ToSet(s.blocks) : c.base = u
  BY DEF RealBases
<1>2. c \in Patterns(s) /\ u \in PatternBases(s)
  BY <1>1 DEF Patterns, PatternBases
<1>3. Pattern(s, u) = c
  <2>1. Pattern(s, u) \in Patterns(s) /\ Pattern(s, u).base = u
    BY <1>2, PatternOf
  <2> QED
    BY <1>1, <1>2, <2>1 DEF StreamOK
<1>4. \E i \in 1 .. Len(s.blocks) : s.blocks[i] = c
  <2>1. s.blocks \in Seq(PatternType)
    BY DEF StreamOK
  <2> QED
    BY <2>1, ToSetOf
<1> QED
  BY <1>2, <1>3, <1>4, PatternOf

(* Blocks follow each other, with a header in between.                     *)
LEMMA RealOrder ==
  ASSUME NEW s, StreamOK(s), NEW u \in RealBases(s), NEW v \in RealBases(s), u < v
  PROVE  Pattern(s, u).stop + HeaderUnits <= v
<1>1. PICK i \in 1 .. Len(s.blocks) : s.blocks[i] = Pattern(s, u)
  BY RealOf
<1>2. PICK j \in 1 .. Len(s.blocks) : s.blocks[j] = Pattern(s, v)
  BY RealOf
<1> DEFINE b == Pattern(s, u)
           c == Pattern(s, v)
           f == From(s, i)
           g == From(s, j)
<1>3. u \in Nat /\ v \in Nat /\ b.base = u /\ c.base = v /\ b.stop \in Nat /\ c.stop \in Nat
      /\ u < b.stop /\ v < c.stop
  BY RealOf, PatternOf
<1>4. Len(s.blocks) \in Nat /\ \A k \in 1 .. Len(s.blocks) : s.blocks[k].stop \in Nat
  <2>1. s.blocks \in Seq(PatternType)
    BY DEF StreamOK
  <2>2. Len(s.blocks) \in Nat /\ \A k \in 1 .. Len(s.blocks) : s.blocks[k] \in PatternType
    BY <2>1, ToSetOf
  <2>3. \A k \in 1 .. Len(s.blocks) : s.blocks[k].stop \in Nat
    BY <2>2 DEF PatternType
  <2> QED
    BY <2>2, <2>3
<1>5. f \in Nat /\ g \in Nat
  BY <1>4 DEF From
<1>6. u >= f + HeaderUnits /\ v >= g + HeaderUnits
  BY <1>1, <1>2, <1>3 DEF StreamOK
<1>7. i # j
  BY <1>1, <1>2, <1>3
<1>8. i < j => b.stop <= g
  BY <1>1 DEF StreamOK
<1>9. j < i => c.stop <= f
  BY <1>2 DEF StreamOK
<1> HIDE DEF b, c, f, g
<1>10. ~ (j < i)
  BY <1>3, <1>5, <1>6, <1>9 DEF HeaderUnits
<1>11. i < j
  BY <1>4, <1>7, <1>10
<1>12. b.stop + HeaderUnits <= v
  BY <1>3, <1>5, <1>6, <1>8, <1>11 DEF HeaderUnits
<1> QED
  BY <1>12 DEF b

(* What the parser meets next is not behind the next block of the stream.  *)
LEMMA LandmarkNext ==
  ASSUME NEW s, StreamOK(s), NEW u \in Nat
  PROVE  /\ Landmark(s, u).at \in Nat /\ u < Landmark(s, u).at
         /\ Landmark(s, u).rv = "OK" => Landmark(s, u).at \in RealBases(s)
         /\ \A v \in RealBases(s) : u < v => Landmark(s, u).at <= v
<1> DEFINE n == Len(s.blocks)
           P(i) == From(s, i) <= u /\ u < s.blocks[i].base
           mark == Landmark(s, u)
<1>1. n \in Nat /\ s.blocks \in Seq(PatternType) /\ s.stop \in Nat /\ s.garbage \in 1 .. 2
  BY DEF StreamOK
<1>2. \A i \in 1 .. n : s.blocks[i] \in ToSet(s.blocks) /\ s.blocks[i].base \in RealBases(s)
  BY <1>1, ToSetOf DEF RealBases
<1>3. \A i \in 1 .. n : s.blocks[i].base \in Nat /\ s.blocks[i].stop \in Nat
                        /\ s.blocks[i].base < s.blocks[i].stop
  <2> SUFFICES ASSUME NEW i \in 1 .. n
               PROVE  s.blocks[i].base \in Nat /\ s.blocks[i].stop \in Nat
                      /\ s.blocks[i].base < s.blocks[i].stop
    OBVIOUS
  <2>1. BlockOK(s.blocks[i])
    BY <1>2 DEF StreamOK, Patterns
  <2> QED
    BY <2>1 DEF BlockOK, PatternType
<1>4. ASSUME NEW v \in RealBases(s)
      PROVE  v \in Nat /\ \E i \in 1 .. n : s.blocks[i].base = v
  BY RealOf, PatternOf
<1>5. \A i \in 1 .. n : From(s, i) \in Nat /\ s.blocks[i].base >= From(s, i) + HeaderUnits
  <2>1. \A i \in 1 .. n : From(s, i) \in Nat
    BY <1>1, <1>3 DEF From
  <2> QED
    BY <2>1 DEF StreamOK
<1>6. \A i, j \in 1 .. n : i < j => s.blocks[i].stop <= From(s, j)
  BY DEF StreamOK
<1>7. CASE \E i \in 1 .. n : P(i)
  <2> DEFINE i == CHOOSE i \in 1 .. n : P(i)
  <2>1. mark = [rv |-> "OK", at |-> s.blocks[i].base]
    BY <1>7 DEF Landmark
  <2>2. i \in 1 .. n /\ P(i)
    BY <1>7
  <2> HIDE DEF i
  <2>3. mark.at = s.blocks[i].base
    BY <2>1
  <2>4. ASSUME NEW v \in RealBases(s), u < v PROVE s.blocks[i].base <= v
    <3>1. PICK j \in 1 .. n : s.blocks[j].base = v
      BY <1>4
    <3>2. ~ (j < i)
      <4>1. j < i => s.blocks[j].stop <= From(s, i)
        BY <1>6, <2>2
      <4> QED
        BY <1>3, <1>4, <1>5, <2>2, <2>4, <3>1, <4>1
    <3>3. CASE i < j
      <4> DEFINE a == s.blocks[i].base
                 b == s.blocks[i].stop
                 f == From(s, j)
      <4>1. b <= f
        BY <1>6, <2>2, <3>3
      <4>2. a \in Nat /\ b \in Nat /\ a < b /\ f \in Nat /\ v \in Nat
        BY <1>3, <1>4, <1>5, <2>2
      <4>3. v >= f + HeaderUnits
        BY <1>5, <3>1
      <4> HIDE DEF a, b, f
      <4>4. a <= v
        BY <4>1, <4>2, <4>3 DEF HeaderUnits
      <4> QED
        BY <4>4 DEF a
    <3>4. CASE i = j
      BY <1>3, <2>2, <3>1, <3>4
    <3> QED
      BY <1>1, <2>2, <3>2, <3>3, <3>4
  <2> HIDE DEF mark
  <2> QED
    BY <1>2, <1>3, <2>2, <2>3, <2>4 DEF mark
<1>8. CASE ~ (\E i \in 1 .. n : P(i))
  <2>1. CASE TrailerFrom(s) <= u
    <3>1. TrailerFrom(s) = IF n = 0 THEN 0 ELSE s.blocks[n].stop
      BY <1>1 DEF TrailerFrom, From
    <3>2. ASSUME NEW i \in 1 .. n PROVE s.blocks[i].base <= u
      <4>1. n # 0 /\ n \in 1 .. n /\ s.blocks[n].stop <= u
        BY <1>1, <2>1, <3>1
      <4>2. CASE i = n
        BY <1>3, <4>1, <4>2
      <4>3. CASE i < n
        <5>1. s.blocks[i].stop <= From(s, n)
          BY <1>6, <4>1, <4>3
        <5> DEFINE a == s.blocks[i].base
                   b == s.blocks[i].stop
                   f == From(s, n)
                   c == s.blocks[n].base
                   d == s.blocks[n].stop
        <5>2. /\ a \in Nat /\ b \in Nat /\ a < b /\ f \in Nat
              /\ c \in Nat /\ d \in Nat /\ c < d
          BY <1>3, <1>5, <4>1
        <5>3. b <= f /\ d <= u
          BY <4>1, <5>1
        <5>4. c >= f + HeaderUnits
          BY <1>5, <4>1
        <5> HIDE DEF a, b, c, d, f
        <5>5. a <= u
          BY <5>2, <5>3, <5>4 DEF HeaderUnits
        <5> QED
          BY <5>5 DEF a
      <4> QED
        BY <1>1, <4>2, <4>3
    <3>3. \A v \in RealBases(s) : ~ (u < v)
      BY <1>3, <1>4, <3>2
    <3>4. mark.at \in Nat /\ u < mark.at /\ mark.rv # "OK"
      <4>1. CASE u < s.stop /\ ~ s.intact
        <5>1. mark = [rv |-> "ERR", at |-> s.stop]
          BY <1>8, <2>1, <4>1 DEF Landmark
        <5> QED
          BY <1>1, <4>1, <5>1
      <4>2. CASE ~ (u < s.stop /\ ~ s.intact) /\ u < s.stop + s.garbage
        <5>1. mark = [rv |-> "FINISH", at |-> s.stop + s.garbage]
          BY <1>8, <2>1, <4>2 DEF Landmark
        <5>2. s.stop + s.garbage \in Nat
          BY <1>1
        <5> QED
          BY <4>2, <5>1, <5>2
      <4>3. CASE ~ (u < s.stop /\ ~ s.intact) /\ ~ (u < s.stop + s.garbage)
        <5>1. mark = [rv |-> "ERR", at |-> u + 1]
          BY <1>8, <4>3 DEF Landmark
        <5> QED
          BY <5>1
      <4> QED
        BY <4>1, <4>2, <4>3
    <3> HIDE DEF mark
    <3> QED
      BY <3>3, <3>4 DEF mark
  <2>2. CASE ~ (TrailerFrom(s) <= u)
    <3>1. mark = [rv |-> "ERR", at |-> u + 1]
      BY <1>8, <2>2 DEF Landmark
    <3>2. mark.at = u + 1 /\ mark.rv = "ERR"
      BY <3>1
    <3> HIDE DEF mark
    <3> QED
      BY <1>4, <3>2 DEF mark
  <2> QED
    BY <2>1, <2>2
<1> QED
  BY <1>7, <1>8

(***************************************************************************)
(* Units and words.                                                        *)
(***************************************************************************)
LEMMA WordsOf ==
  ASSUME NEW u \in Nat
  PROVE  /\ Words(u) \in Nat
         /\ u <= 2 * Words(u) /\ 2 * Words(u) <= u + 1
  BY DEF Words

LEMMA WordsTwice ==
  ASSUME NEW u \in Nat
  PROVE  2 * u \in Nat /\ Words(2 * u) = u
  BY DEF Words

LEMMA WordsGrow ==
  ASSUME NEW u \in Nat, NEW v \in Nat, u <= v
  PROVE  /\ Words(u) <= Words(v)
         /\ u + HeaderUnits <= v => Words(u) + 2 <= Words(v)
  BY DEF Words, HeaderUnits

LEMMA BitsAtOf ==
  ASSUME NEW u \in Nat, NEW o \in Nat
  PROVE  /\ BitsAt(u, o) \in Bits /\ BitsAt(u, o).pos = <<u, 0>> /\ BitsAt(u, o).pos \in UnitPos
         /\ BitsAt(u, o).pos[1] = u /\ BitsAt(u, o).offset = o
  BY DEF BitsAt, Bits, UnitPos

(***************************************************************************)
(* What the readers return.                                                *)
(***************************************************************************)
(* A place in a block of the stream, or behind it, is not ahead of the     *)
(* next block.                                                             *)
LEMMA PlaceInBlock ==
  ASSUME NEW s, StreamOK(s), NEW tail, NEW u \in RealBases(s), NEW p \in Nat, NEW o \in Nat,
         u <= p, p <= Pattern(s, u).stop, Loaded(p, o, tail)
  PROVE  /\ PlaceOK(s, BitsAt(p, o), tail)
         /\ \A v \in RealBases(s) : u < v => p < v
<1> DEFINE z == Pattern(s, u).stop
<1>1. u \in Nat /\ z \in Nat
  BY RealOf, PatternOf
<1>2. ASSUME NEW v \in RealBases(s), u < v PROVE v \in Nat /\ p < v /\ p + HeaderUnits <= v
  <2>1. v \in Nat /\ z + HeaderUnits <= v
    BY <1>2, RealOf, RealOrder
  <2> HIDE DEF z
  <2> QED
    BY <1>1, <2>1 DEF HeaderUnits, z
<1>3. ASSUME NEW v \in RealBases(s), p < v PROVE o <= Words(v)
  <2>1. v \in Nat
    BY RealOf
  <2>2. u < v
    BY <1>1, <1>3, <2>1
  <2>3. p + HeaderUnits <= v
    BY <1>2, <2>2
  <2>4. Words(p) + 2 <= Words(v)
    BY <1>3, <2>1, <2>3, WordsGrow
  <2>5. Words(p) \in Nat /\ Words(v) \in Nat /\ o <= Words(p) + 1
    BY <2>1, WordsOf DEF Loaded
  <2> QED
    BY <2>4, <2>5
<1> QED
  BY <1>2, <1>3, BitsAtOf DEF PlaceOK

(* The parser goes on to the end of the words it has, or to a block.       *)
LEMMA ParseGoesOn ==
  ASSUME NEW s, StreamOK(s), NEW bs, NEW tail \in Nat, PlaceOK(s, bs, tail),
         NEW limit \in Nat, bs.offset <= limit, limit <= tail, NEW done \in BOOLEAN,
         NEW r, r = Parse(s, bs, limit, done)
  PROVE  /\ r.rv = "MORE" =>
              /\ PlaceOK(s, r.bs, tail)
              /\ bs.offset <= r.bs.offset /\ bs.pos[1] <= r.bs.pos[1]
              /\ \A v \in RealBases(s) : bs.pos[1] < v => r.bs.pos[1] < v
         /\ r.rv = "OK" =>
              \E u \in RealBases(s) :
                /\ r.bs = BitsAt(u, Words(u)) /\ Loaded(u, Words(u), tail)
                /\ bs.offset <= Words(u) /\ bs.pos[1] < u
                /\ \A v \in RealBases(s) : bs.pos[1] < v => u <= v
<1> DEFINE p == bs.pos[1]
           o == bs.offset
           mark == Landmark(s, p)
           at == mark.at
<1>1. bs \in Bits /\ p \in Nat /\ o \in Nat /\ Loaded(p, o, tail)
  BY DEF PlaceOK, Bits, UnitPos
<1>2. /\ at \in Nat /\ p < at /\ (mark.rv = "OK" => at \in RealBases(s))
      /\ \A v \in RealBases(s) : p < v => at <= v
  BY <1>1, LandmarkNext
<1>3. \A v \in RealBases(s) : v \in Nat /\ (p < v => o <= Words(v))
  BY RealOf DEF PlaceOK
<1>4. CASE r.rv = "MORE"
  <2>1. ~ (at <= 2 * limit) /\ r.bs = BitsAt(2 * limit, max(o, Words(2 * limit)))
    <3>1. mark.rv # "MORE"
      BY DEF Landmark
    <3> QED
      BY <1>4, <3>1 DEF Parse
  <2>2. Words(2 * limit) = limit /\ 2 * limit \in Nat
    BY WordsTwice, Zenon
  <2>3. max(o, Words(2 * limit)) = limit
    BY <1>1, <2>2 DEF max
  <2>4. r.bs = BitsAt(2 * limit, limit)
    BY <2>1, <2>3
  <2>5. r.bs \in Bits /\ r.bs.pos[1] = 2 * limit /\ r.bs.offset = limit
    BY <2>2, <2>4, BitsAtOf
  <2>6. p <= 2 * limit
    <3>1. Words(p) <= o /\ p <= 2 * Words(p) /\ Words(p) \in Nat
      BY <1>1, WordsOf DEF Loaded
    <3> QED
      BY <1>1, <3>1
  <2>7. \A v \in RealBases(s) : p < v => 2 * limit < v
    BY <1>2, <1>3, <2>1, <2>2
  <2>8. ASSUME NEW v \in RealBases(s), 2 * limit < v PROVE limit <= Words(v)
    <3>1. v \in Nat /\ Words(2 * limit) <= Words(v)
      BY <1>3, <2>2, <2>8, WordsGrow
    <3> QED
      BY <2>2, <3>1
  <2>9. Loaded(2 * limit, limit, tail)
    BY <2>2 DEF Loaded
  <2>10. PlaceOK(s, r.bs, tail)
    BY <2>5, <2>8, <2>9 DEF PlaceOK
  <2> QED
    BY <1>1, <1>4, <2>5, <2>6, <2>7, <2>10
<1>5. CASE r.rv = "OK"
  <2>1. mark.rv = "OK" /\ at <= 2 * limit /\ r.bs = BitsAt(at, max(o, Words(at)))
    BY <1>5 DEF Parse
  <2>2. at \in RealBases(s) /\ o <= Words(at)
    BY <1>2, <1>3, <2>1
  <2>3. Words(at) \in Nat /\ Words(at) <= limit
    <3>1. 2 * limit \in Nat /\ Words(2 * limit) = limit
      BY WordsTwice, Zenon
    <3> QED
      BY <1>2, <2>1, <3>1, WordsOf, WordsGrow
  <2>4. max(o, Words(at)) = Words(at)
    BY <1>1, <2>2, <2>3 DEF max
  <2>5. Loaded(at, Words(at), tail)
    BY <2>3 DEF Loaded
  <2> QED
    BY <1>2, <1>5, <2>1, <2>2, <2>4, <2>5
<1> QED
  BY <1>4, <1>5

(* A retriever comes further, but not out of its block.                    *)
LEMMA RetrieveGoesOn ==
  ASSUME NEW s, StreamOK(s), NEW tail \in Nat, NEW u \in PatternBases(s),
         NEW p \in Nat, NEW o \in Nat, u <= p, p <= Pattern(s, u).stop,
         Loaded(p, o, tail), o <= Pattern(s, u).need,
         NEW limit \in Nat, o <= limit, limit <= tail, NEW done \in BOOLEAN,
         NEW r \in Retrieve(Pattern(s, u), BitsAt(p, o), limit, done)
  PROVE  \E q \in Nat, l \in Nat :
           /\ r.bs = BitsAt(q, l) /\ p <= q /\ o <= l
           /\ q <= Pattern(s, u).stop /\ Loaded(q, l, tail) /\ l <= Pattern(s, u).need
<1> DEFINE b == Pattern(s, u)
           z == b.stop
           n == b.need
<1>1. /\ z \in Nat /\ n \in Nat /\ Words(z) \in Nat
      /\ Words(z) <= n /\ n <= Words(z) + 1
  BY PatternOf, WordsOf
<1>2. Words(p) \in Nat /\ Words(p) <= Words(z) /\ Words(p) <= o /\ o <= Words(p) + 1
      /\ p <= 2 * Words(p)
  BY <1>1, WordsOf, WordsGrow DEF Loaded
<1>3. CASE r.bs = BitsAt(p, o)
  <2>1. p <= p /\ o <= o
    OBVIOUS
  <2> QED
    BY <1>3, <2>1
<1>4. CASE r.bs = BitsAt(min(2 * limit, z), limit) /\ n > limit
  <2> DEFINE q == min(2 * limit, z)
  <2>1. 2 * limit \in Nat /\ Words(2 * limit) = limit
    BY WordsTwice, Zenon
  <2>2. q \in Nat /\ q <= z /\ q <= 2 * limit /\ (q = 2 * limit \/ q = z)
    BY <1>1, <2>1 DEF min
  <2>3. Words(q) \in Nat /\ Words(q) <= limit
    BY <2>1, <2>2, WordsOf, WordsGrow
  <2>4. limit <= Words(q) + 1
    <3>1. CASE q = 2 * limit
      BY <2>1, <3>1
    <3>2. CASE q = z
      <4>1. limit <= Words(z)
        BY <1>1, <1>4
      <4> QED
        BY <1>1, <3>2, <4>1
    <3> QED
      BY <2>2, <3>1, <3>2
  <2>5. p <= q
    <3>1. p <= 2 * limit
      BY <1>2
    <3> QED
      BY <2>2, <3>1
  <2>6. limit <= n
    BY <1>1, <1>4
  <2> QED
    BY <1>4, <2>2, <2>3, <2>4, <2>5, <2>6 DEF Loaded
<1>5. CASE r.bs = BitsAt(z, n) /\ ~ (n > limit)
  <2>1. n <= limit /\ n <= tail /\ n <= n /\ z <= z
    BY <1>1, <1>5
  <2> QED
    BY <1>1, <1>5, <2>1 DEF Loaded
<1> QED
  BY <1>3, <1>4, <1>5 DEF Retrieve

(* What a scanner finds is behind what it started from, and inside the     *)
(* words that it has.                                                      *)
LEMMA ScanGoesOn ==
  ASSUME NEW s, StreamOK(s), NEW x, NEW p \in Nat, x.pos = <<p, 0>>, x.offset = Words(p),
         NEW skip \in Nat, NEW limit \in Nat, Words(p) <= limit,
         NEW r, r = Scan(s, x, skip, limit), r.rv = "OK"
  PROVE  \E u \in PatternBases(s) :
           r.bs = BitsAt(u, Words(u)) /\ p < u /\ u <= 2 * limit /\ Words(u) <= limit
<1> DEFINE F == Found(s, x, skip, limit)
           u == CHOOSE u \in F : \A v \in F : u <= v
<1>1. F # {} /\ r.bs = BitsAt(u, Words(u))
  BY DEF Scan
<1>2. ASSUME NEW v \in F
      PROVE  v \in PatternBases(s) /\ v \in Nat /\ v - HeaderUnits >= SkipTo(x, skip, limit)
             /\ v <= 2 * limit
  <2>1. PICK b \in Patterns(s) : /\ v = b.base /\ b.base - HeaderUnits >= SkipTo(x, skip, limit)
                                 /\ b.base <= 2 * limit
    BY DEF Found
  <2>2. v \in PatternBases(s)
    BY <2>1 DEF PatternBases
  <2> QED
    BY <2>1, <2>2, PatternOf
<1>3. F \subseteq Nat
  BY <1>2
<1>4. u \in F
  <2> HIDE DEF F
  <2>1. \E m \in F : \A v \in F : m <= v
    BY <1>1, <1>3, MinIsLeast
  <2> QED
    BY <2>1
<1>5. SkipTo(x, skip, limit) \in Nat /\ p <= SkipTo(x, skip, limit)
  <2> DEFINE l == live(x)
             w == Words(p)
  <2>1. w \in Nat /\ p <= 2 * w /\ 2 * w <= p + 1 /\ l = 2 * w - p /\ x.offset = w /\ x.pos[1] = p
    BY WordsOf DEF live
  <2>2. l \in 0 .. 1
    BY <2>1
  <2>3. CASE skip > l
    <3> DEFINE k == Words(skip - l)
    <3>0. skip - l \in Nat
      BY <2>2, <2>3
    <3>1. skip - l \in Nat /\ k \in Nat
      BY <3>0, WordsOf
    <3>2. SkipTo(x, skip, limit) = 2 * min(limit, w + k)
      BY <2>1, <2>3 DEF SkipTo
    <3>3. min(limit, w + k) \in Nat /\ w <= min(limit, w + k)
      BY <2>1, <3>1 DEF min
    <3> HIDE DEF k, w, l
    <3> QED
      BY <2>1, <3>2, <3>3
  <2>4. CASE ~ (skip > l)
    BY <2>1, <2>4 DEF SkipTo
  <2> QED
    BY <2>3, <2>4
<1> HIDE DEF u, F
<1>6. u \in PatternBases(s) /\ u \in Nat /\ p < u /\ u <= 2 * limit
  BY <1>2, <1>4, <1>5 DEF HeaderUnits
<1>7. Words(u) <= limit
  <2>1. 2 * limit \in Nat /\ Words(2 * limit) = limit
    BY WordsTwice, Zenon
  <2> QED
    BY <1>6, <2>1, WordsGrow
<1> QED
  BY <1>1, <1>6, <1>7

(***************************************************************************)
(* The chain of input blocks.                                              *)
(***************************************************************************)
LEMMA InBlkOf ==
  ASSUME NEW b \in InBlk
  PROVE  b.offset \in Nat /\ b.size \in Nat /\ End(b) \in Nat /\ b.offset < End(b)
  BY DEF InBlk, End

LEMMA ChainMembers ==
  ASSUME NEW q, NEW head \in Nat, NEW tail \in Nat, Chain(q, head, tail)
  PROVE  /\ Len(q) \in Nat /\ head <= tail
         /\ \A i \in 1 .. Len(q) : q[i] \in ToSet(q)
         /\ \A b \in ToSet(q) : /\ b \in InBlk /\ head <= b.offset /\ End(b) <= tail
                                /\ Aligned(b.offset) /\ 2 * b.size <= InGranul
                                /\ \E i \in 1 .. Len(q) : q[i] = b
         /\ \A b, c \in ToSet(q) : Apart(b, c)
<1> DEFINE n == Len(q)
<1>1. n \in Nat /\ q \in Seq(InBlk) /\ \A i \in 1 .. n : q[i] \in InBlk /\ q[i] \in ToSet(q)
  BY ToSetOf DEF Chain
<1>2. ASSUME NEW b \in ToSet(q)
      PROVE  /\ b \in InBlk /\ head <= b.offset /\ End(b) <= tail
             /\ Aligned(b.offset) /\ 2 * b.size <= InGranul
             /\ \E i \in 1 .. n : q[i] = b
  <2>1. PICK i \in 1 .. n : q[i] = b
    BY <1>1, ToSetOf
  <2> QED
    BY <1>1, <2>1 DEF Chain
<1>3. ASSUME NEW b \in ToSet(q), NEW c \in ToSet(q) PROVE Apart(b, c)
  <2>1. PICK i \in 1 .. n : q[i] = b
    BY <1>2
  <2>2. PICK j \in 1 .. n : q[j] = c
    BY <1>2
  <2>3. i < j => End(b) <= c.offset
    BY <2>1, <2>2 DEF Chain
  <2>4. j < i => End(c) <= b.offset
    BY <2>1, <2>2 DEF Chain
  <2>5. i < j \/ i = j \/ j < i
    BY <1>1
  <2> QED
    BY <2>1, <2>2, <2>3, <2>4, <2>5 DEF Apart
<1>4. head <= tail
  <2>1. CASE q = <<>>
    BY <2>1 DEF Chain
  <2>2. CASE q # <<>>
    <3>1. n \in 1 .. n
      BY <1>1, <2>2
    <3>2. head <= q[n].offset /\ End(q[n]) <= tail /\ q[n] \in InBlk
      BY <1>1, <3>1 DEF Chain
    <3> QED
      BY <3>2, InBlkOf
  <2> QED
    BY <2>1, <2>2
<1> QED
  BY <1>1, <1>2, <1>3, <1>4

(* Without a gap, every word between its ends is in a block.               *)
LEMMA ChainCovers ==
  ASSUME NEW q, NEW head \in Nat, NEW tail \in Nat, Chain(q, head, tail),
         NEW o \in Nat, head <= o, o < tail
  PROVE  \E b \in ToSet(q) : b.offset <= o /\ o < End(b)
<1> DEFINE n == Len(q)
           I == {i \in 1 .. n : o < End(q[i])}
           m == Min(I)
<1>1. n \in Nat /\ \A i \in 1 .. n : q[i] \in ToSet(q) /\ q[i] \in InBlk
  BY ChainMembers
<1>2. q # <<>> /\ tail = End(q[n])
  BY DEF Chain
<1>3. n \in 1 .. n
  <2>1. q \in Seq(InBlk)
    BY DEF Chain
  <2> QED
    BY <1>1, <1>2, <2>1
<1>4. n \in I
  BY <1>2, <1>3
<1>5. I \subseteq Nat
  OBVIOUS
<1>6. m \in I /\ \A k \in I : m <= k
  <2> HIDE DEF I
  <2> QED
    BY <1>4, <1>5, MinIsLeast
<1> HIDE DEF m
<1>7. m \in 1 .. n /\ o < End(q[m])
  BY <1>6
<1>8. q[m].offset <= o
  <2>1. CASE m = 1
    BY <1>7, <2>1 DEF Chain
  <2>2. CASE m # 1
    <3>1. m - 1 \in 1 .. n /\ ~ (m <= m - 1)
      BY <1>7, <2>2
    <3>2. m - 1 \notin I
      BY <1>6, <3>1
    <3>3. ~ (o < End(q[m - 1]))
      BY <3>1, <3>2
    <3>4. q[m].offset = End(q[m - 1]) /\ End(q[m - 1]) \in Nat
      BY <1>1, <1>7, <2>2, <3>1, InBlkOf DEF Chain
    <3> QED
      BY <3>3, <3>4
  <2> QED
    BY <2>1, <2>2
<1> QED
  BY <1>1, <1>7, <1>8

(* Where the chain begins when n blocks are taken off its front.           *)
HeadAfter(q, head, n) == IF n = 0 THEN head ELSE End(q[n])

LEMMA ChainWithout ==
  ASSUME NEW q, NEW head \in Nat, NEW tail \in Nat, Chain(q, head, tail),
         NEW n \in 0 .. Len(q)
  PROVE  /\ HeadAfter(q, head, n) \in Nat /\ head <= HeadAfter(q, head, n)
         /\ HeadAfter(q, head, n) <= tail
         /\ Chain(Without(q, n), HeadAfter(q, head, n), tail)
         /\ ToSet(Without(q, n)) = {b \in ToSet(q) : HeadAfter(q, head, n) <= b.offset}
         /\ {q[i] : i \in 1 .. n} = ToSet(q) \ ToSet(Without(q, n))
         /\ \A b \in ToSet(q) \ ToSet(Without(q, n)) : End(b) <= HeadAfter(q, head, n)
<1> DEFINE l == Len(q)
           r == Without(q, n)
           h == HeadAfter(q, head, n)
<1>1. /\ l \in Nat /\ head <= tail /\ \A i \in 1 .. l : q[i] \in ToSet(q) /\ q[i] \in InBlk
      /\ \A b \in ToSet(q) : /\ b \in InBlk /\ head <= b.offset /\ End(b) <= tail
                             /\ \E i \in 1 .. l : q[i] = b
  BY ChainMembers
<1>2. n \in Nat /\ n <= l
  BY <1>1
<1>3. \A i \in 1 .. l : q[i].offset \in Nat /\ End(q[i]) \in Nat /\ q[i].offset < End(q[i])
  BY <1>1, InBlkOf
<1>4. q \in Seq(InBlk) /\ (q = <<>> <=> l = 0)
  BY DEF Chain
<1>5. /\ r \in Seq(InBlk) /\ Len(r) = l - n
      /\ \A i \in 1 .. l - n : i + n \in 1 .. l /\ r[i] = q[i + n]
  BY <1>4, WithoutShape
<1>6. /\ \A i \in 1 .. l : q[i].offset = IF i = 1 THEN head ELSE End(q[i - 1])
      /\ \A i \in 1 .. l : /\ Aligned(q[i].offset) /\ 2 * q[i].size <= InGranul
                           /\ head <= q[i].offset /\ End(q[i]) <= tail
      /\ \A i, j \in 1 .. l : i < j => End(q[i]) <= q[j].offset
      /\ tail = IF q = <<>> THEN head ELSE End(q[l])
  BY DEF Chain
<1>7. h \in Nat /\ head <= h /\ h <= tail
  <2>1. CASE n = 0
    BY <1>1, <2>1 DEF HeadAfter
  <2>2. CASE n # 0
    <3>1. n \in 1 .. l /\ h = End(q[n])
      BY <1>2, <2>2 DEF HeadAfter
    <3> QED
      BY <1>3, <1>6, <3>1
  <2> QED
    BY <2>1, <2>2
<1>8. ASSUME NEW i \in 1 .. l, i <= n PROVE End(q[i]) <= h
  <2>1. n \in 1 .. l /\ h = End(q[n])
    BY <1>2, <1>8 DEF HeadAfter
  <2>2. i < n => End(q[i]) <= q[n].offset
    BY <1>6, <2>1
  <2> HIDE DEF h
  <2> QED
    BY <1>2, <1>3, <1>8, <2>1, <2>2
<1>9. ASSUME NEW i \in 1 .. l, n < i PROVE h <= q[i].offset
  <2>1. CASE n = 0
    BY <1>6, <2>1 DEF HeadAfter
  <2>2. CASE n # 0
    <3>1. n \in 1 .. l /\ h = End(q[n])
      BY <1>2, <2>2 DEF HeadAfter
    <3> QED
      BY <1>6, <1>9, <3>1
  <2> QED
    BY <2>1, <2>2
<1> HIDE DEF r, h, l
<1>10. \A b : b \in ToSet(r) <=> \E i \in 1 .. l : n < i /\ q[i] = b
  <2>1. \A b : b \in ToSet(r) <=> \E i \in 1 .. l - n : r[i] = b
    BY <1>5, ToSetOf
  <2>2. ASSUME NEW i \in 1 .. l, n < i PROVE i - n \in 1 .. l - n /\ (i - n) + n = i
    BY <1>1, <1>2, <2>2
  <2>3. ASSUME NEW i \in 1 .. l - n PROVE n < i + n /\ i + n \in 1 .. l
    BY <1>1, <1>2
  <2>4. ASSUME NEW i \in 1 .. l, n < i PROVE q[i] \in ToSet(r)
    <3>1. r[i - n] = q[i]
      BY <1>5, <2>2, <2>4
    <3> QED
      BY <2>1, <2>2, <2>4, <3>1
  <2>5. ASSUME NEW i \in 1 .. l - n PROVE \E j \in 1 .. l : n < j /\ q[j] = r[i]
    BY <1>5, <2>3
  <2> QED
    BY <2>1, <2>4, <2>5
<1>11. ASSUME NEW i \in 1 .. l PROVE q[i] \in ToSet(r) <=> n < i
  <2>1. SUFFICES ASSUME NEW j \in 1 .. l, n < j, q[j] = q[i], ~ (n < i) PROVE FALSE
    BY <1>10
  <2>2. i < j
    BY <1>1, <1>2, <2>1
  <2>3. End(q[i]) <= q[j].offset
    BY <1>6, <2>2
  <2> QED
    BY <1>3, <2>1, <2>3
<1>12. ToSet(r) = {b \in ToSet(q) : h <= b.offset}
  <2>1. ASSUME NEW i \in 1 .. l PROVE n < i <=> h <= q[i].offset
    <3>1. i <= n => ~ (h <= q[i].offset)
      BY <1>3, <1>7, <1>8
    <3> QED
      BY <1>1, <1>2, <1>9, <3>1
  <2>2. \A b \in ToSet(r) : b \in ToSet(q) /\ h <= b.offset
    BY <1>1, <1>10, <2>1
  <2>3. \A b \in ToSet(q) : h <= b.offset => b \in ToSet(r)
    BY <1>1, <1>11, <2>1
  <2> QED
    BY <2>2, <2>3
<1>13. \A b \in ToSet(q) \ ToSet(r) : End(b) <= h /\ \E i \in 1 .. n : q[i] = b
  <2> SUFFICES ASSUME NEW i \in 1 .. l, q[i] \notin ToSet(r)
               PROVE  End(q[i]) <= h /\ \E j \in 1 .. n : q[j] = q[i]
    BY <1>1
  <2>1. i <= n /\ i \in 1 .. n
    BY <1>1, <1>2, <1>11
  <2> QED
    BY <1>8, <2>1
<1>14. {q[i] : i \in 1 .. n} = ToSet(q) \ ToSet(r)
  <2>1. \A i \in 1 .. n : i \in 1 .. l /\ ~ (n < i)
    BY <1>1, <1>2
  <2>2. \A i \in 1 .. n : q[i] \in ToSet(q) \ ToSet(r)
    BY <1>1, <1>11, <2>1
  <2> QED
    BY <1>13, <2>2
<1>15. ASSUME NEW i \in 1 .. l - n
       PROVE  /\ r[i].offset = IF i = 1 THEN h ELSE End(r[i - 1])
              /\ Aligned(r[i].offset) /\ 2 * r[i].size <= InGranul
              /\ h <= r[i].offset /\ End(r[i]) <= tail
  <2>1. i + n \in 1 .. l /\ n < i + n /\ r[i] = q[i + n]
    BY <1>1, <1>2, <1>5
  <2>2. h <= r[i].offset
    BY <1>9, <2>1
  <2>3. r[i].offset = IF i + n = 1 THEN head ELSE End(q[(i + n) - 1])
    BY <1>6, <2>1
  <2>4. CASE i = 1
    <3>1. r[i].offset = h
      <4>1. CASE n = 0
        BY <2>3, <2>4, <4>1 DEF h, HeadAfter
      <4>2. CASE n # 0
        <5>1. i + n # 1 /\ (i + n) - 1 = n
          BY <1>2, <2>4, <4>2
        <5> QED
          BY <2>3, <4>2, <5>1 DEF h, HeadAfter
      <4> QED
        BY <4>1, <4>2
    <3> QED
      BY <1>6, <2>1, <2>2, <2>4, <3>1
  <2>5. CASE i # 1
    <3>1. i - 1 \in 1 .. l - n /\ (i - 1) + n = (i + n) - 1 /\ i + n # 1
      BY <1>1, <1>2, <2>5
    <3>2. r[i - 1] = q[(i + n) - 1]
      BY <1>5, <3>1
    <3> QED
      BY <1>6, <2>1, <2>2, <2>3, <2>5, <3>1, <3>2
  <2> QED
    BY <2>4, <2>5
<1>16. ASSUME NEW i \in 1 .. l - n, NEW j \in 1 .. l - n, i < j
       PROVE  End(r[i]) <= r[j].offset
  <2>1. i + n < j + n
    BY <1>2, <1>16
  <2> QED
    BY <1>5, <1>6, <2>1
<1>17. tail = IF r = <<>> THEN h ELSE End(r[l - n])
  <2>1. CASE n = l
    <3>1. r = <<>>
      BY <1>1, <1>5, <2>1
    <3>2. tail = h
      <4>1. CASE n = 0
        <5>1. q = <<>>
          BY <1>4, <2>1, <4>1
        <5> QED
          BY <1>6, <4>1, <5>1 DEF h, HeadAfter
      <4>2. CASE n # 0
        <5>1. q # <<>>
          BY <2>1, <4>2 DEF l
        <5> QED
          BY <1>6, <2>1, <4>2, <5>1 DEF h, HeadAfter
      <4> QED
        BY <4>1, <4>2
    <3> QED
      BY <3>1, <3>2
  <2>2. CASE n # l
    <3>1. l - n \in 1 .. l - n /\ (l - n) + n = l /\ l # 0
      BY <1>1, <1>2, <2>2
    <3>2. r # <<>> /\ q # <<>>
      BY <1>4, <1>5, <3>1 DEF l
    <3>3. r[l - n] = q[l]
      BY <1>5, <3>1
    <3> QED
      BY <1>6, <3>2, <3>3
  <2> QED
    BY <2>1, <2>2
<1>18. Chain(r, h, tail)
  BY <1>5, <1>15, <1>16, <1>17 DEF Chain
<1> QED
  BY <1>7, <1>12, <1>13, <1>14, <1>18 DEF r, h

LEMMA ChainAppend ==
  ASSUME NEW q, NEW head \in Nat, NEW tail \in Nat, Chain(q, head, tail),
         NEW size \in Nat \ {0}, Aligned(tail), 2 * size <= InGranul,
         NEW b, b = [offset |-> tail, size |-> size]
  PROVE  /\ Chain(Append(q, b), head, tail + size)
         /\ ToSet(Append(q, b)) = ToSet(q) \cup {b} /\ b \notin ToSet(q)
         /\ b \in InBlk /\ End(b) = tail + size
         /\ \A c \in ToSet(q) : c.offset # tail
<1> DEFINE n == Len(q)
           r == Append(q, b)
           t == tail + size
<1>1. b \in InBlk /\ b.offset = tail /\ b.size = size /\ End(b) = t /\ t \in Nat /\ tail < t
  BY DEF InBlk, End
<1>2. /\ n \in Nat /\ head <= tail /\ \A i \in 1 .. n : q[i] \in ToSet(q) /\ q[i] \in InBlk
      /\ \A c \in ToSet(q) : c \in InBlk /\ End(c) <= tail
  BY ChainMembers
<1>3. q \in Seq(InBlk)
  BY DEF Chain
<1>4. r \in Seq(InBlk) /\ Len(r) = n + 1 /\ r[n + 1] = b /\ \A i \in 1 .. n : r[i] = q[i]
  BY <1>1, <1>3
<1>5. /\ \A i \in 1 .. n : q[i].offset = IF i = 1 THEN head ELSE End(q[i - 1])
      /\ \A i \in 1 .. n : /\ Aligned(q[i].offset) /\ 2 * q[i].size <= InGranul
                           /\ head <= q[i].offset /\ End(q[i]) <= tail /\ End(q[i]) \in Nat
      /\ \A i, j \in 1 .. n : i < j => End(q[i]) <= q[j].offset
      /\ tail = IF q = <<>> THEN head ELSE End(q[n])
  BY <1>2, InBlkOf DEF Chain
<1>6. q = <<>> <=> n = 0
  BY <1>3
<1> HIDE DEF r, t, n
<1>7. ASSUME NEW i \in 1 .. n + 1
      PROVE  /\ r[i].offset = IF i = 1 THEN head ELSE End(r[i - 1])
             /\ Aligned(r[i].offset) /\ 2 * r[i].size <= InGranul
             /\ head <= r[i].offset /\ End(r[i]) <= t
  <2>1. CASE i = n + 1
    <3>1. r[i] = b
      BY <1>4, <2>1
    <3>2. b.offset = IF i = 1 THEN head ELSE End(r[i - 1])
      <4>1. CASE n = 0
        BY <1>1, <1>5, <1>6, <2>1, <4>1
      <4>2. CASE n # 0
        <5>1. i # 1 /\ i - 1 = n /\ n \in 1 .. n
          BY <1>2, <2>1, <4>2
        <5> QED
          BY <1>1, <1>4, <1>5, <1>6, <4>2, <5>1
      <4> QED
        BY <4>1, <4>2
    <3> QED
      BY <1>1, <1>2, <3>1, <3>2
  <2>2. CASE i # n + 1
    <3>1. i \in 1 .. n
      BY <1>2, <2>2
    <3>2. i # 1 => i - 1 \in 1 .. n
      BY <1>2, <3>1
    <3>3. End(r[i]) <= t
      BY <1>1, <1>4, <1>5, <3>1
    <3> QED
      BY <1>4, <1>5, <3>1, <3>2, <3>3
  <2> QED
    BY <2>1, <2>2
<1>8. ASSUME NEW i \in 1 .. n + 1, NEW j \in 1 .. n + 1, i < j PROVE End(r[i]) <= r[j].offset
  <2>1. i \in 1 .. n /\ r[i] = q[i]
    BY <1>2, <1>4, <1>8
  <2>2. CASE j = n + 1
    BY <1>1, <1>4, <1>5, <2>1, <2>2
  <2>3. CASE j # n + 1
    <3>1. j \in 1 .. n
      BY <1>2, <2>3
    <3> QED
      BY <1>4, <1>5, <1>8, <2>1, <3>1
  <2> QED
    BY <2>2, <2>3
<1>9. r # <<>> /\ t = End(r[n + 1])
  BY <1>1, <1>2, <1>4
<1>10. Chain(r, head, t)
  BY <1>4, <1>7, <1>8, <1>9 DEF Chain
<1>11. ToSet(r) = ToSet(q) \cup {b}
  <2>1. \A c : c \in ToSet(r) <=> \E i \in 1 .. n + 1 : r[i] = c
    BY <1>4, ToSetOf
  <2>2. \A c : c \in ToSet(q) <=> \E i \in 1 .. n : q[i] = c
    BY <1>3, ToSetOf DEF n
  <2>3. n + 1 \in 1 .. n + 1 /\ \A i \in 1 .. n : i \in 1 .. n + 1
    BY <1>2
  <2>4. \A i \in 1 .. n + 1 : i = n + 1 \/ i \in 1 .. n
    BY <1>2
  <2>5. \A c \in ToSet(r) : c \in ToSet(q) \cup {b}
    BY <1>4, <2>1, <2>2, <2>4
  <2>6. \A c \in ToSet(q) \cup {b} : c \in ToSet(r)
    BY <1>4, <2>1, <2>2, <2>3
  <2> QED
    BY <2>5, <2>6
<1>12. \A c \in ToSet(q) : c.offset # tail
  BY <1>2, InBlkOf
<1> QED
  BY <1>1, <1>10, <1>11, <1>12 DEF r, t

Nums == head_offs \in Nat /\ tail_offs \in Nat

Buffers == Chain(input_q, head_offs, tail_offs) /\ Held /\ Referred /\ InputInHand

(* Nobody but w begins or ends to read.                                    *)
Alone(w) ==
  \A v \in Workers \ {w} : /\ pc'[v] = pc[v] \/ (pc[v] \notin Readers3 /\ pc'[v] \notin Readers3)
                           /\ job'[v] = job[v]

(***************************************************************************)
(* A worker begins to read.                                                *)
(***************************************************************************)
LEMMA FoundInQueue ==
  ASSUME Nums, Chain(input_q, head_offs, tail_offs), NEW bs, bs.offset \in Nat,
         head_offs <= bs.offset, can_attach(bs), NEW b, b = InBlkAt(bs)
  PROVE  \/ b = NULL /\ eof /\ bs.offset = tail_offs
         \/ b \in ToSet(input_q) /\ b # NULL /\ b.offset <= bs.offset /\ bs.offset < End(b)
            /\ bs.offset < tail_offs
<1>1. CASE bs.offset = tail_offs
  BY <1>1 DEF Nums, can_attach, InBlkAt
<1>2. CASE bs.offset # tail_offs
  <2>1. bs.offset < tail_offs
    BY <1>2 DEF can_attach
  <2>2. \E c \in ToSet(input_q) : c.offset <= bs.offset /\ bs.offset < End(c)
    BY <2>1, ChainCovers DEF Nums
  <2>3. b \in ToSet(input_q) /\ b.offset <= bs.offset /\ bs.offset < End(b)
    BY <1>2, <2>2 DEF InBlkAt
  <2>4. b \in InBlk
    BY <2>3, ChainMembers DEF Nums
  <2> QED
    BY <2>1, <2>3, <2>4, NullAssumption
<1> QED
  BY <1>1, <1>2

LEMMA ReadersChange ==
  ASSUME NEW R, R \subseteq Workers, NEW w \in Workers
  PROVE  /\ IsFiniteSet(R) /\ Cardinality(R) \in Nat
         /\ w \notin R => Cardinality(R \cup {w}) = Cardinality(R) + 1
         /\ w \in R => Cardinality(R \ {w}) = Cardinality(R) - 1 /\ Cardinality(R) > 0
<1>1. IsFiniteSet(R) /\ Cardinality(R) \in Nat
  BY ProcessAssumption, FS_Subset, FS_CardinalityType
<1>2. w \notin R => Cardinality(R \cup {w}) = Cardinality(R) + 1
  BY <1>1, FS_AddElement
<1>3. ASSUME w \in R PROVE Cardinality(R \ {w}) = Cardinality(R) - 1 /\ Cardinality(R) > 0
  <2> DEFINE S == R \ {w}
  <2>1. IsFiniteSet(S) /\ w \notin S /\ S \cup {w} = R /\ Cardinality(S) \in Nat
    BY <1>1, <1>3, FS_Subset, FS_CardinalityType
  <2>2. Cardinality(S \cup {w}) = Cardinality(S) + 1
    BY <2>1, FS_AddElement
  <2> HIDE DEF S
  <2>3. Cardinality(R) = Cardinality(S) + 1
    BY <2>1, <2>2
  <2>4. Cardinality(R) - 1 = Cardinality(S) /\ Cardinality(R) > 0
    BY <2>1, <2>3
  <2> QED
    BY <2>4 DEF S
<1> QED
  BY <1>1, <1>2, <1>3

LEMMA AttachStep ==
  ASSUME Nums, Buffers, NEW w \in Workers, NEW bs, bs.offset \in Nat,
         head_offs <= bs.offset, can_attach(bs), Attach(w, bs),
         DOMAIN job' = Workers, UNCHANGED <<input_q, head_offs, tail_offs, eof>>,
         pc[w] \notin Readers3, pc'[w] \in Readers3, Alone(w), job'[w].offset = bs.offset,
         pc'[w] = "scan" => bs.offset < tail_offs
  PROVE  /\ Buffers' /\ \A v \in Workers \ {w} : blk'[v] = blk[v]
         /\ bs.offset < tail_offs =>
              blk'[w] \in ToSet(input_q) /\ blk'[w].offset <= bs.offset /\ bs.offset < End(blk'[w])
<1> DEFINE b == InBlkAt(bs)
<1>1. \/ b = NULL /\ eof /\ bs.offset = tail_offs
      \/ b \in ToSet(input_q) /\ b # NULL /\ b.offset <= bs.offset /\ bs.offset < End(b)
         /\ bs.offset < tail_offs
  BY FoundInQueue DEF Buffers
<1>2. /\ blk' = [blk EXCEPT ![w] = b]
      /\ ref_count' = IF b = NULL THEN ref_count ELSE [ref_count EXCEPT ![b.offset] = @ + 1]
  BY DEF Attach
<1> HIDE DEF b
<1>3. blk'[w] = b /\ \A v \in Workers \ {w} : blk'[v] = blk[v]
  BY <1>2 DEF Buffers, Held
<1>4. blk[w] = NULL
  BY DEF Buffers, Held
<1>5. \A c \in ToSet(input_q) : c \in InBlk /\ End(c) <= tail_offs
  BY ChainMembers DEF Nums, Buffers
<1>6. Chain(input_q, head_offs, tail_offs)'
  <2>1. Chain(input_q', head_offs', tail_offs')
    BY DEF Buffers
  <2> QED
    BY <2>1
<1>7. Held'
  <2>0. blk' \in [Workers -> InBlk \cup {NULL}]
    BY <1>1, <1>2, <1>5 DEF Buffers, Held
  <2>1. ASSUME NEW v \in Workers, blk'[v] # NULL
        PROVE  /\ End(blk'[v]) <= tail_offs'
               /\ blk'[v] \in ToSet(input_q') \/ End(blk'[v]) <= head_offs'
               /\ pc'[v] \in Readers3
    <3>1. CASE v = w
      BY <1>1, <1>3, <1>5, <2>1, <3>1
    <3>2. CASE v # w
      BY <1>3, <2>1, <3>2 DEF Buffers, Held, Alone
    <3> QED
      BY <3>1, <3>2
  <2>2. ASSUME NEW v \in Workers, blk[v] # NULL, b # NULL PROVE Apart(blk[v], b) /\ Apart(b, blk[v])
    <3>1. b \in ToSet(input_q) /\ b \in InBlk /\ head_offs <= b.offset
      BY <1>1, <2>2, ChainMembers DEF Nums, Buffers
    <3>2. CASE blk[v] \in ToSet(input_q)
      BY <3>1, <3>2, ChainMembers DEF Nums, Buffers
    <3>3. CASE End(blk[v]) <= head_offs
      <4>1. End(blk[v]) \in Nat /\ b.offset \in Nat
        BY <2>2, <3>1, InBlkOf DEF Buffers, Held
      <4>2. End(blk[v]) <= b.offset
        BY <3>1, <3>3, <4>1 DEF Nums
      <4> QED
        BY <4>2 DEF Apart
    <3> QED
      BY <2>2, <3>2, <3>3 DEF Buffers, Held
  <2>3. ASSUME NEW u \in Workers, NEW v \in Workers, blk'[u] # NULL, blk'[v] # NULL
        PROVE  Apart(blk'[u], blk'[v])
    <3>1. CASE u = w /\ v = w
      BY <3>1 DEF Apart
    <3>2. CASE u = w /\ v # w
      BY <1>3, <2>2, <2>3, <3>2
    <3>3. CASE u # w /\ v = w
      BY <1>3, <2>2, <2>3, <3>3
    <3>4. CASE u # w /\ v # w
      BY <1>3, <2>3, <3>4 DEF Buffers, Held
    <3> QED
      BY <3>1, <3>2, <3>3, <3>4
  <2> QED
    BY <2>0, <2>1, <2>3 DEF Held
<1>8. Referred'
  <2>1. DOMAIN ref_count' = DOMAIN ref_count
    BY <1>2
  <2>2. b # NULL => b.offset \in DOMAIN ref_count
    BY <1>1 DEF Buffers, Referred
  <2>3. ASSUME NEW o \in DOMAIN ref_count
        PROVE  ref_count'[o] = Slots(InQueue(o))' + Cardinality(Readers(o))' /\ ref_count'[o] > 0
    <3> DEFINE R == Readers(o)
               S == {v \in Workers : blk'[v] # NULL /\ blk'[v].offset = o}
               c == Cardinality(R)
               d == Cardinality(S)
               k == Slots(InQueue(o))
    <3>1. R \subseteq Workers /\ w \notin R
      BY <1>4 DEF Readers
    <3>2. S = IF b # NULL /\ b.offset = o THEN R \cup {w} ELSE R
      BY <1>3, <1>4 DEF Readers
    <3>3. c \in Nat /\ d = IF b # NULL /\ b.offset = o THEN c + 1 ELSE c
      BY <3>1, <3>2, ReadersChange
    <3>4. k \in Nat /\ Slots(InQueue(o))' = k
      BY DEF Slots, InQueue
    <3>5. ref_count[o] = k + c /\ ref_count[o] > 0
      BY DEF Buffers, Referred
    <3>6. ref_count'[o] = IF b # NULL /\ b.offset = o THEN ref_count[o] + 1 ELSE ref_count[o]
      BY <1>2, <2>2
    <3>7. Cardinality(Readers(o))' = d
      BY DEF Readers
    <3> HIDE DEF R, S, c, d, k
    <3>8. ref_count'[o] = k + d /\ ref_count'[o] > 0
      BY <3>3, <3>4, <3>5, <3>6
    <3> QED
      BY <3>4, <3>7, <3>8
  <2>4. \A v \in Workers : blk'[v] # NULL => blk'[v].offset \in DOMAIN ref_count
    BY <1>3, <2>2 DEF Buffers, Referred
  <2> QED
    BY <2>1, <2>3, <2>4 DEF Buffers, Referred
<1>9. InputInHand'
  <2>2. ReadsFrom(job[w], blk[w], tail_offs)' /\ (pc'[w] = "scan" => blk'[w] # NULL)
    BY <1>1, <1>3 DEF ReadsFrom, Nums
  <2>3. ASSUME NEW v \in Workers \ {w}
        PROVE  /\ pc'[v] \in {"parse", "retrieve"} => ReadsFrom(job[v], blk[v], tail_offs)'
               /\ pc'[v] = "scan" => blk'[v] # NULL
    BY <1>3 DEF Alone, Buffers, InputInHand, Readers3, ReadsFrom
  <2> QED
    BY <2>2, <2>3 DEF InputInHand
<1> QED
  BY <1>1, <1>3, <1>6, <1>7, <1>8, <1>9 DEF Buffers

(***************************************************************************)
(* A worker has read, and the first n input blocks are given up.           *)
(***************************************************************************)
Gives(w, n) ==
  /\ n \in 0 .. Len(input_q)
  /\ \E close \in BOOLEAN : ReleaseRefs({input_q[i] : i \in 1 .. n}, w, close)
  /\ input_q' = Without(input_q, n)
  /\ head_offs' = HeadAfter(input_q, head_offs, n)

LEMMA GivesChain ==
  ASSUME Nums, Chain(input_q, head_offs, tail_offs), NEW w, NEW n, Gives(w, n)
  PROVE  /\ Nums' /\ head_offs <= head_offs' /\ head_offs' <= tail_offs /\ tail_offs' = tail_offs
         /\ Chain(input_q, head_offs, tail_offs)'
         /\ ToSet(input_q') = {b \in ToSet(input_q) : head_offs' <= b.offset}
         /\ {input_q[i] : i \in 1 .. n} = ToSet(input_q) \ ToSet(input_q')
         /\ \A b \in ToSet(input_q) \ ToSet(input_q') : End(b) <= head_offs'
<1>1. /\ n \in 0 .. Len(input_q) /\ input_q' = Without(input_q, n)
      /\ head_offs' = HeadAfter(input_q, head_offs, n) /\ tail_offs' = tail_offs
  BY DEF Gives, ReleaseRefs
<1>2. /\ head_offs' \in Nat /\ head_offs <= head_offs' /\ head_offs' <= tail_offs
      /\ Chain(input_q', head_offs', tail_offs)
      /\ ToSet(input_q') = {b \in ToSet(input_q) : head_offs' <= b.offset}
      /\ {input_q[i] : i \in 1 .. n} = ToSet(input_q) \ ToSet(input_q')
      /\ \A b \in ToSet(input_q) \ ToSet(input_q') : End(b) <= head_offs'
<2> DEFINE h == HeadAfter(input_q, head_offs, n)
           r == Without(input_q, n)
<2>1. /\ head_offs \in Nat /\ tail_offs \in Nat /\ n \in 0 .. Len(input_q)
      /\ Chain(input_q, head_offs, tail_offs)
  BY <1>1 DEF Nums
<2>2. /\ h \in Nat /\ head_offs <= h /\ h <= tail_offs /\ Chain(r, h, tail_offs)
      /\ ToSet(r) = {b \in ToSet(input_q) : h <= b.offset}
      /\ {input_q[i] : i \in 1 .. n} = ToSet(input_q) \ ToSet(r)
      /\ \A b \in ToSet(input_q) \ ToSet(r) : End(b) <= h
  BY <2>1, ChainWithout
<2>3. input_q' = r /\ head_offs' = h
  BY <1>1
<2> HIDE DEF h, r
<2> QED
  BY <2>2, <2>3
<1>3. Chain(input_q', head_offs', tail_offs')
  BY <1>1, <1>2
<1>4. Chain(input_q, head_offs, tail_offs)'
  BY <1>3
<1> QED
  BY <1>1, <1>2, <1>4 DEF Nums

LEMMA ReleaseHeld ==
  ASSUME Nums, Buffers, NEW w \in Workers, NEW n, Gives(w, n),
         DOMAIN job' = Workers, Alone(w)
  PROVE  /\ Held' /\ blk'[w] = NULL /\ \A v \in Workers \ {w} : blk'[v] = blk[v]
<1>1. /\ head_offs \in Nat /\ head_offs' \in Nat /\ head_offs <= head_offs' /\ tail_offs' = tail_offs
      /\ \A b \in ToSet(input_q) \ ToSet(input_q') : End(b) <= head_offs'
  BY GivesChain DEF Buffers, Nums
<1>2. blk' = [blk EXCEPT ![w] = NULL]
  BY DEF Gives, ReleaseRefs
<1>3. blk' \in [Workers -> InBlk \cup {NULL}] /\ blk'[w] = NULL
      /\ \A v \in Workers \ {w} : blk'[v] = blk[v]
  BY <1>2 DEF Buffers, Held
<1>4. ASSUME NEW v \in Workers, blk'[v] # NULL
      PROVE  /\ End(blk'[v]) <= tail_offs' /\ pc'[v] \in Readers3
             /\ blk'[v] \in ToSet(input_q') \/ End(blk'[v]) <= head_offs'
  <2>1. v # w /\ blk'[v] = blk[v] /\ blk[v] # NULL /\ blk[v] \in InBlk
    BY <1>3, <1>4
  <2>2. /\ End(blk[v]) <= tail_offs /\ pc[v] \in Readers3
        /\ blk[v] \in ToSet(input_q) \/ End(blk[v]) <= head_offs
    BY <2>1 DEF Buffers, Held
  <2>3. End(blk[v]) \in Nat
    BY <2>1, InBlkOf
  <2>4. blk[v] \in ToSet(input_q') \/ End(blk[v]) <= head_offs'
    BY <1>1, <2>2, <2>3
  <2> QED
    BY <1>1, <2>1, <2>2, <2>4 DEF Alone
<1>5. \A u, v \in Workers : blk'[u] # NULL /\ blk'[v] # NULL => Apart(blk'[u], blk'[v])
  BY <1>3 DEF Buffers, Held
<1> QED
  BY <1>3, <1>4, <1>5 DEF Held

LEMMA ReleaseReferred ==
  ASSUME Nums, Buffers, NEW w \in Workers, NEW n, Gives(w, n)
  PROVE  Referred'
<1> DEFINE gone == {input_q[i] : i \in 1 .. n}
           goes(o) == IF \E b \in gone : b.offset = o THEN 1 ELSE 0
           mine(o) == IF blk[w] # NULL /\ blk[w].offset = o THEN 1 ELSE 0
<1>1. /\ gone = ToSet(input_q) \ ToSet(input_q') /\ ToSet(input_q') \subseteq ToSet(input_q)
  BY GivesChain DEF Buffers
<1>2. \A b, c \in ToSet(input_q) : b.offset = c.offset => b = c
  <2> SUFFICES ASSUME NEW b \in ToSet(input_q), NEW c \in ToSet(input_q), b.offset = c.offset
               PROVE  b = c
    OBVIOUS
  <2>1. Apart(b, c) /\ b \in InBlk /\ c \in InBlk
    BY ChainMembers DEF Nums, Buffers
  <2> QED
    BY <2>1, InBlkOf DEF Apart
<1>3. blk' = [blk EXCEPT ![w] = NULL]
  BY DEF Gives, ReleaseRefs
<1>4. blk'[w] = NULL /\ \A v \in Workers \ {w} : blk'[v] = blk[v]
  BY <1>3 DEF Buffers, Held
<1>5. ref_count' = RefsWithout(gone, w)
  BY DEF Gives, ReleaseRefs
<1>6. ref_count' = [o \in {p \in DOMAIN ref_count : ref_count[p] > goes(p) + mine(p)}
                     |-> ref_count[o] - (goes(o) + mine(o))]
  BY <1>5 DEF RefsWithout
<1> HIDE DEF gone
<1>7. ASSUME NEW o \in DOMAIN ref_count
      PROVE  \E k, d \in Nat :
               /\ ref_count[o] = goes(o) + k + (mine(o) + d)
               /\ k = Slots(InQueue(o))' /\ d = Cardinality(Readers(o))'
               /\ ((\E b \in ToSet(input_q') : b.offset = o) <=> k > 0)
               /\ (\A v \in Workers : blk'[v] # NULL /\ blk'[v].offset = o => d > 0)
  <2> DEFINE R == Readers(o)
             S == {v \in Workers : blk'[v] # NULL /\ blk'[v].offset = o}
             c == Cardinality(R)
             d == Cardinality(S)
             k == IF \E b \in ToSet(input_q') : b.offset = o THEN 1 ELSE 0
  <2>1. S = R \ {w} /\ R \subseteq Workers /\ S \subseteq Workers
    BY <1>4 DEF Readers
  <2>2. w \in R <=> blk[w] # NULL /\ blk[w].offset = o
    BY DEF Readers
  <2>3. c \in Nat /\ d \in Nat /\ c = mine(o) + d
    <3>1. c \in Nat /\ d \in Nat
      BY <2>1, ReadersChange
    <3>2. CASE w \in R
      <4>1. d = c - 1 /\ mine(o) = 1
        BY <2>1, <2>2, <3>2, ReadersChange
      <4> HIDE DEF c, d
      <4> QED
        BY <3>1, <4>1
    <3>3. CASE w \notin R
      <4>1. d = c /\ mine(o) = 0
        BY <2>1, <2>2, <3>3
      <4> HIDE DEF c, d
      <4> QED
        BY <3>1, <4>1
    <3> QED
      BY <3>2, <3>3
  <2>4. Slots(InQueue(o)) = goes(o) + k
    <3>1. CASE \E b \in gone : b.offset = o
      <4>1. InQueue(o) /\ ~ (\E b \in ToSet(input_q') : b.offset = o)
        BY <1>1, <1>2, <3>1 DEF InQueue
      <4> QED
        BY <3>1, <4>1 DEF Slots
    <3>2. CASE ~ (\E b \in gone : b.offset = o)
      <4>1. InQueue(o) <=> (\E b \in ToSet(input_q') : b.offset = o)
        BY <1>1, <3>2 DEF InQueue
      <4> QED
        BY <3>2, <4>1 DEF Slots
    <3> QED
      BY <3>1, <3>2
  <2>5. k = Slots(InQueue(o))'
    BY DEF Slots, InQueue
  <2>6. d = Cardinality(Readers(o))'
    BY DEF Readers
  <2>7. ref_count[o] = Slots(InQueue(o)) + c
    BY DEF Buffers, Referred
  <2>8. ASSUME NEW v \in Workers, blk'[v] # NULL, blk'[v].offset = o PROVE d > 0
    BY <2>1, <2>8, ReadersChange
  <2>9. goes(o) \in Nat /\ mine(o) \in Nat /\ k \in Nat /\ (k > 0 <=> \E b \in ToSet(input_q') : b.offset = o)
    OBVIOUS
  <2> HIDE DEF c, d, k, S, R, goes, mine
  <2>10. ref_count[o] = goes(o) + k + (mine(o) + d)
    BY <2>3, <2>4, <2>7
  <2> QED
    BY <2>3, <2>5, <2>6, <2>8, <2>9, <2>10
<1>8. \A o : goes(o) \in Nat /\ mine(o) \in Nat
  OBVIOUS
<1>9. \A o \in DOMAIN ref_count' : o \in DOMAIN ref_count /\ ref_count[o] > goes(o) + mine(o)
                                   /\ ref_count'[o] = ref_count[o] - (goes(o) + mine(o))
  BY <1>6
<1>10. \A o \in DOMAIN ref_count : ref_count[o] > goes(o) + mine(o) => o \in DOMAIN ref_count'
  BY <1>6
<1> HIDE DEF goes, mine
<1>11. ASSUME NEW o \in DOMAIN ref_count'
       PROVE  ref_count'[o] = Slots(InQueue(o))' + Cardinality(Readers(o))' /\ ref_count'[o] > 0
  <2>1. PICK k, d \in Nat : /\ ref_count[o] = goes(o) + k + (mine(o) + d)
                            /\ k = Slots(InQueue(o))' /\ d = Cardinality(Readers(o))'
    BY <1>7, <1>9
  <2>2. ref_count[o] > goes(o) + mine(o) /\ ref_count'[o] = ref_count[o] - (goes(o) + mine(o))
    BY <1>9
  <2>3. ref_count'[o] = k + d /\ ref_count'[o] > 0
    <3> DEFINE x == ref_count[o]
               y == ref_count'[o]
               g == goes(o)
               m == mine(o)
    <3>1. x = g + k + (m + d) /\ x > g + m /\ y = x - (g + m) /\ g \in Nat /\ m \in Nat
      BY <1>8, <2>1, <2>2
    <3> HIDE DEF x, y, g, m
    <3>2. y = k + d /\ y > 0
      BY <3>1
    <3> QED
      BY <3>2 DEF y
  <2> QED
    BY <2>1, <2>3
<1>12. ASSUME NEW o \in DOMAIN ref_count,
              \/ \E b \in ToSet(input_q') : b.offset = o
              \/ \E v \in Workers : blk'[v] # NULL /\ blk'[v].offset = o
       PROVE  o \in DOMAIN ref_count'
  <2>1. PICK k, d \in Nat : ref_count[o] = goes(o) + k + (mine(o) + d) /\ (k > 0 \/ d > 0)
    BY <1>7, <1>12
  <2> DEFINE x == ref_count[o]
             g == goes(o)
             m == mine(o)
  <2>2. x = g + k + (m + d) /\ g \in Nat /\ m \in Nat
    BY <1>8, <2>1
  <2> HIDE DEF x, g, m
  <2>3. x > g + m
    BY <2>1, <2>2
  <2> QED
    BY <1>10, <2>3 DEF x, g, m
<1>13. \A b \in ToSet(input_q') : b.offset \in DOMAIN ref_count'
  BY <1>1, <1>12 DEF Buffers, Referred
<1>14. \A v \in Workers : blk'[v] # NULL => blk'[v].offset \in DOMAIN ref_count'
  BY <1>4, <1>12 DEF Buffers, Referred
<1> QED
  BY <1>11, <1>13, <1>14 DEF Referred

LEMMA ReleaseStep ==
  ASSUME Nums, Buffers, NEW w \in Workers, NEW n, Gives(w, n), eof' = eof,
         DOMAIN job' = Workers, pc'[w] \notin Readers3, Alone(w)
  PROVE  Buffers'
<1>1. Chain(input_q, head_offs, tail_offs)' /\ tail_offs' = tail_offs
  BY GivesChain DEF Buffers
<1>2. Held' /\ \A v \in Workers \ {w} : blk'[v] = blk[v]
  BY ReleaseHeld
<1>3. Referred'
  BY ReleaseReferred
<1>4. InputInHand'
  <2>1. ASSUME NEW v \in Workers
        PROVE  /\ pc'[v] \in {"parse", "retrieve"} => ReadsFrom(job[v], blk[v], tail_offs)'
               /\ pc'[v] = "scan" => blk'[v] # NULL
    <3>1. CASE v = w
      BY <3>1 DEF Readers3
    <3>2. CASE v # w
      BY <1>1, <1>2, <3>2 DEF Alone, Buffers, InputInHand, Readers3, ReadsFrom
    <3> QED
      BY <3>1, <3>2
  <2> QED
    BY <2>1 DEF InputInHand
<1> QED
  BY <1>1, <1>2, <1>3, <1>4 DEF Buffers

(***************************************************************************)
(* An input block arrives.                                                 *)
(***************************************************************************)
LEMMA AlignedGrows ==
  ASSUME NEW tail \in Nat, Aligned(tail), NEW n \in 1 .. InGranul
  PROVE  /\ Words(n) \in Nat \ {0} /\ 2 * Words(n) <= InGranul
         /\ n = InGranul => Aligned(tail + Words(n))
<1>1. InGranul \in Nat \ {0} /\ InGranul % 2 = 0
  BY ProcessAssumption, ExpansionAssumption
<1>2. Words(n) \in Nat \ {0} /\ 2 * Words(n) <= InGranul
  BY <1>1 DEF Words
<1>3. ASSUME n = InGranul PROVE Aligned(tail + Words(n))
  <2>1. 2 * Words(n) = InGranul
    BY <1>1, <1>3 DEF Words
  <2>2. PICK k \in Nat : 2 * tail = InGranul * k
    BY DEF Aligned
  <2>3. InGranul * (k + 1) = InGranul * k + InGranul
    BY <1>1
  <2> DEFINE g == InGranul
             w == Words(n)
             x == g * k
  <2>4. 2 * (tail + w) = g * (k + 1)
    <3>1. x = 2 * tail /\ 2 * w = g /\ w \in Nat /\ g \in Nat /\ g * (k + 1) = x + g
      BY <1>1, <1>2, <2>1, <2>2, <2>3
    <3>2. 2 * (tail + w) = 2 * tail + 2 * w
      BY <3>1
    <3> QED
      BY <3>1, <3>2
  <2>5. k + 1 \in Nat
    OBVIOUS
  <2> QED
    BY <2>4, <2>5 DEF Aligned
<1> QED
  BY <1>2, <1>3

LEMMA BuffersArrive ==
  ASSUME SourceSteady, Nums, Buffers, OnInputAvail,
         \A v \in Workers : pc'[v] = pc[v] \/ (pc[v] \notin Readers3 /\ pc'[v] \notin Readers3)
  PROVE  /\ Buffers' /\ Nums'
         /\ head_offs' = head_offs /\ tail_offs' = tail_offs + Words(avail) /\ tail_offs < tail_offs'
         /\ NewInBlk \in InBlk /\ End(NewInBlk) = tail_offs' /\ NewInBlk \notin ToSet(input_q)
         /\ ToSet(input_q') = ToSet(input_q) \cup {NewInBlk}
<1> DEFINE size == Words(avail)
           b == NewInBlk
<1>1. source = "deliver" /\ avail \in 1 .. InGranul /\ Aligned(tail_offs) /\ ~ eof
  BY DEF SourceSteady, OnInputAvail
<1>2. size \in Nat \ {0} /\ 2 * size <= InGranul
  BY <1>1, AlignedGrows DEF Nums
<1>3. b = [offset |-> tail_offs, size |-> size]
  BY DEF NewInBlk
<1>4. /\ input_q' = Append(input_q, b) /\ head_offs' = head_offs /\ tail_offs' = tail_offs + size
      /\ UNCHANGED <<job, blk>>
      /\ ref_count' = [o \in DOMAIN ref_count \cup {tail_offs} |->
                         IF o = tail_offs THEN 1 ELSE ref_count[o]]
  BY DEF OnInputAvail, handVars
<1>5. eof' = eof \/ TRUE
  OBVIOUS
<1> HIDE DEF size, b
<1>6. /\ Chain(Append(input_q, b), head_offs, tail_offs + size)
      /\ ToSet(Append(input_q, b)) = ToSet(input_q) \cup {b} /\ b \notin ToSet(input_q)
      /\ b \in InBlk /\ End(b) = tail_offs + size
      /\ \A c \in ToSet(input_q) : c.offset # tail_offs
  BY <1>1, <1>2, <1>3, ChainAppend DEF Nums, Buffers
<1>7. tail_offs < tail_offs' /\ tail_offs' \in Nat
  BY <1>2, <1>4 DEF Nums
<1>8. Chain(input_q, head_offs, tail_offs)'
  <2>1. Chain(input_q', head_offs', tail_offs')
    BY <1>4, <1>6
  <2> QED
    BY <2>1
<1>9. Held'
  <2>1. ASSUME NEW v \in Workers, blk'[v] # NULL
        PROVE  /\ End(blk'[v]) <= tail_offs' /\ pc'[v] \in Readers3
               /\ blk'[v] \in ToSet(input_q') \/ End(blk'[v]) <= head_offs'
    <3>1. /\ End(blk[v]) <= tail_offs /\ pc[v] \in Readers3 /\ blk[v] \in InBlk
          /\ blk[v] \in ToSet(input_q) \/ End(blk[v]) <= head_offs
      BY <1>4, <2>1 DEF Buffers, Held
    <3>2. End(blk[v]) \in Nat
      BY <3>1, InBlkOf
    <3>3. End(blk[v]) <= tail_offs'
      BY <1>7, <3>1, <3>2 DEF Nums
    <3> QED
      BY <1>4, <1>6, <3>1, <3>3
  <2> QED
    BY <1>4, <2>1 DEF Buffers, Held
<1>10. Referred'
  <2>1. \A v \in Workers : blk[v] # NULL => blk[v].offset # tail_offs
    BY InBlkOf DEF Buffers, Held, Nums
  <2>2. ASSUME NEW o \in DOMAIN ref_count'
        PROVE  ref_count'[o] = Slots(InQueue(o))' + Cardinality(Readers(o))' /\ ref_count'[o] > 0
    <3>1. Readers(o)' = Readers(o)
      BY <1>4 DEF Readers
    <3>2. CASE o = tail_offs
      <4>1. Readers(o) = {}
        BY <2>1, <3>2 DEF Readers
      <4>2. Cardinality(Readers(o))' = 0
        BY <3>1, <4>1, FS_EmptySet
      <4>3. InQueue(o)'
        BY <1>3, <1>4, <1>6, <3>2 DEF InQueue
      <4>4. Slots(InQueue(o))' = 1
        BY <4>3 DEF Slots
      <4>5. ref_count'[o] = 1
        BY <1>4, <3>2
      <4> QED
        BY <4>2, <4>4, <4>5
    <3>3. CASE o # tail_offs
      <4>1. o \in DOMAIN ref_count /\ ref_count'[o] = ref_count[o]
        BY <1>4, <3>3
      <4>2. InQueue(o)' <=> InQueue(o)
        BY <1>3, <1>4, <1>6, <3>3 DEF InQueue
      <4>3. Slots(InQueue(o))' = Slots(InQueue(o))
        BY <4>2 DEF Slots
      <4> QED
        BY <3>1, <4>1, <4>3 DEF Buffers, Referred
    <3> QED
      BY <3>2, <3>3
  <2>3. \A c \in ToSet(input_q') : c.offset \in DOMAIN ref_count'
    BY <1>3, <1>4, <1>6 DEF Buffers, Referred
  <2>4. \A v \in Workers : blk'[v] # NULL => blk'[v].offset \in DOMAIN ref_count'
    BY <1>4 DEF Buffers, Referred
  <2> QED
    BY <2>2, <2>3, <2>4 DEF Referred
<1>11. InputInHand'
  <2>1. ASSUME NEW v \in Workers
        PROVE  /\ pc'[v] \in {"parse", "retrieve"} => ReadsFrom(job[v], blk[v], tail_offs)'
               /\ pc'[v] = "scan" => blk'[v] # NULL
    BY <1>1, <1>4 DEF Buffers, InputInHand, Readers3, ReadsFrom
  <2> QED
    BY <2>1 DEF InputInHand
<1> QED
  BY <1>4, <1>6, <1>7, <1>8, <1>9, <1>10, <1>11 DEF Buffers, Nums, size, b

(* Steps in which no input block comes, goes, or is read.                  *)
LEMMA BuffersStay ==
  ASSUME Buffers, UNCHANGED <<input_q, head_offs, tail_offs, ref_count, blk>>, eof => eof',
         DOMAIN job' = Workers, \A v \in Workers : pc[v] \in Readers3 => job'[v] = job[v],
         \A v \in Workers : pc'[v] = pc[v] \/ (pc[v] \notin Readers3 /\ pc'[v] \notin Readers3)
  PROVE  Buffers'
<1>1. Chain(input_q, head_offs, tail_offs)'
  <2>1. Chain(input_q', head_offs', tail_offs')
    BY DEF Buffers
  <2> QED
    BY <2>1
<1>2. Held'
  BY DEF Buffers, Held
<1>3. Referred'
  <2>1. \A o : (Readers(o)' = Readers(o)) /\ (InQueue(o)' = InQueue(o))
    BY DEF Readers, InQueue
  <2> QED
    BY <2>1 DEF Buffers, Referred
<1>4. InputInHand'
  <2>1. ASSUME NEW v \in Workers
        PROVE  /\ pc'[v] \in {"parse", "retrieve"} => ReadsFrom(job[v], blk[v], tail_offs)'
               /\ pc'[v] = "scan" => blk'[v] # NULL
    BY DEF Buffers, InputInHand, Readers3, ReadsFrom
  <2> QED
    BY <2>1 DEF InputInHand
<1> QED
  BY <1>1, <1>2, <1>3, <1>4 DEF Buffers

(***************************************************************************)
(* The source thread.                                                      *)
(***************************************************************************)
LEMMA SteadyStays ==
  ASSUME SourceSteady, Nums', UNCHANGED <<stream, tail_offs, file_len, ispec_total, avail, eof>>,
         source' = source \/ (source = "stalled" /\ source' = "top")
  PROVE  SourceSteady'
<1>1. Aligned(tail_offs)' <=> Aligned(tail_offs)
  BY DEF Aligned
<1> QED
  BY <1>1 DEF SourceSteady, Nums

LEMMA SteadySource ==
  ASSUME SourceSteady, Nums', Source
  PROVE  SourceSteady'
<1>1. CASE OnInputAvail
  <2>1. /\ UNCHANGED <<stream, file_len, ispec_total, avail>> /\ source = "deliver"
        /\ source' = (IF avail < InGranul THEN "eof" ELSE "top")
        /\ tail_offs' = tail_offs + Words(avail)
    BY <1>1 DEF OnInputAvail, AfterDelivery
  <2>2. avail \in 1 .. InGranul /\ Aligned(tail_offs) /\ tail_offs \in Nat
    BY <2>1 DEF SourceSteady
  <2>3. source' = "top" => avail = InGranul
    BY <2>1, <2>2, ProcessAssumption
  <2>4. source' = "top" => Aligned(tail_offs + Words(avail))
    BY <2>2, <2>3, AlignedGrows
  <2>5. source' = "top" => Aligned(tail_offs')
    BY <2>1, <2>4
  <2>6. eof' => eof
    BY <1>1 DEF OnInputAvail, slotVars
  <2>7. source' \in {"top", "eof"}
    BY <2>1
  <2> QED
    BY <2>1, <2>5, <2>6, <2>7 DEF SourceSteady, Nums
<1>2. ASSUME UNCHANGED <<stream, tail_offs, file_len>>, ispec_total' \in 0 .. file_len,
             source' = "deliver" => avail' \in 1 .. InGranul,
             source' \in {"top", "stalled", "read", "deliver"} =>
               source \in {"top", "stalled", "read", "deliver"},
             eof' => source' = "done"
      PROVE  SourceSteady'
  <2>1. Aligned(tail_offs)' <=> Aligned(tail_offs)
    BY <1>2 DEF Aligned
  <2> QED
    BY <1>2, <2>1 DEF SourceSteady, Nums
<1>3. CASE InputRefused
  <2>1. UNCHANGED <<stream, tail_offs, file_len, ispec_total, avail, eof>> /\ source = "deliver"
    BY <1>3 DEF InputRefused, jobVars, inputVars, slotVars
  <2>2. source' \in {"top", "eof"}
    BY <1>3 DEF InputRefused, AfterDelivery
  <2> QED
    BY <1>2, <2>1, <2>2 DEF SourceSteady
<1>4. CASE InputEnds
  BY <1>2, <1>4 DEF InputEnds, jobVars, inputVars, SourceSteady
<1>5. CASE UNCHANGED jobVars /\ SourceOnly
  <2>1. UNCHANGED <<stream, tail_offs>>
    BY <1>5 DEF jobVars, inputVars
  <2>2. CASE SourceStall \/ SourceTakeSlot \/ SourceClosed
    BY <1>2, <2>1, <2>2 DEF SourceStall, SourceTakeSlot, SourceClosed, slotVars, SourceSteady
  <2>3. CASE SourceRead
    <3>1. InGranul \in Nat \ {0}
      BY ProcessAssumption
    <3>2. /\ avail' = min(InGranul, file_len - ispec_total) /\ source = "read"
          /\ ispec_total' = ispec_total + avail' /\ file_len' = file_len /\ eof' = eof
          /\ source' = IF avail' = 0 THEN "eof" ELSE "deliver"
      BY <2>3 DEF SourceRead, slotVars
    <3>3. file_len \in Nat /\ ispec_total \in 0 .. file_len
      BY DEF SourceSteady
    <3>4. avail' \in 0 .. file_len - ispec_total /\ avail' \in 0 .. InGranul
      BY <3>1, <3>2, <3>3 DEF min
    <3>5. ispec_total' \in 0 .. file_len
      BY <3>2, <3>3, <3>4
    <3>6. source' = "deliver" => avail' \in 1 .. InGranul
      BY <3>1, <3>2, <3>4
    <3> QED
      BY <1>2, <2>1, <3>2, <3>5, <3>6 DEF SourceSteady
  <2> QED
    BY <1>5, <2>2, <2>3 DEF SourceOnly
<1> QED
  BY <1>1, <1>3, <1>4, <1>5 DEF Source

(***************************************************************************)
(* What advance() does.                                                    *)
(***************************************************************************)
LEMMA AdvanceGives ==
  ASSUME Nums, Chain(input_q, head_offs, tail_offs), NEW w, NEW bs, bs.offset \in Nat, NEW more,
         Advance(w, bs, more), head_offs <= bs.offset
  PROVE  /\ \E n : Gives(w, n)
         /\ parser_bs' = bs /\ head_offs' <= bs.offset
         /\ input_q' # <<>> => bs.offset < End(input_q'[1])
         /\ scan_q' = Kept(scan_q)
<1> DEFINE l == Len(input_q)
           I == {i \in 1 .. l : End(input_q[i]) > bs.offset}
           n == Passed(bs)
<1>1. l \in Nat /\ input_q \in Seq(InBlk) /\ \A i \in 1 .. l : input_q[i] \in InBlk
  BY ChainMembers DEF Nums, Chain
<1>2. \A i \in 1 .. l : End(input_q[i]) \in Nat
  BY <1>1, InBlkOf
<1>3. I \subseteq 1 .. l /\ n = Before(input_q, I)
  BY DEF Passed
<1>4. n \in 0 .. l /\ (\A i \in 1 .. n : i \notin I) /\ (n < l => n + 1 \in I)
  <2> HIDE DEF I, n
  <2> DEFINE m == Before(input_q, I)
  <2>1. m \in 0 .. l /\ (\A i \in 1 .. m : i \notin I) /\ (m < l => m + 1 \in I)
    BY <1>1, <1>3, BeforeFirst
  <2> HIDE DEF m
  <2>2. n = m
    BY <1>3 DEF m
  <2> QED
    BY <2>1, <2>2
<1>5. /\ ReleaseRefs({input_q[i] : i \in 1 .. n}, w, FALSE)
      /\ input_q' = Without(input_q, n)
      /\ head_offs' = IF n = 0 THEN head_offs
                      ELSE head_offs + (End(input_q[n]) - input_q[1].offset)
      /\ parser_bs' = bs /\ scan_q' = Kept(scan_q)
  BY DEF Advance
<1> HIDE DEF n
<1>6. head_offs' = HeadAfter(input_q, head_offs, n)
  <2>1. CASE n = 0
    BY <1>5, <2>1 DEF HeadAfter
  <2>2. CASE n # 0
    <3>1. n \in 1 .. l /\ 1 \in 1 .. l
      BY <1>1, <1>4, <2>2
    <3>2. input_q[1].offset = head_offs
      BY <3>1 DEF Chain
    <3> DEFINE e == End(input_q[n])
    <3>3. e \in Nat
      BY <1>2, <3>1
    <3>4. head_offs' = head_offs + (e - head_offs)
      BY <1>5, <2>2, <3>2
    <3> HIDE DEF e
    <3>5. head_offs + (e - head_offs) = e
      BY <3>3 DEF Nums
    <3> QED
      BY <2>2, <3>4, <3>5 DEF HeadAfter, e
  <2> QED
    BY <2>1, <2>2
<1>7. Gives(w, n)
  BY <1>4, <1>5, <1>6 DEF Gives
<1>8. head_offs' <= bs.offset
  <2>1. CASE n = 0
    BY <1>6, <2>1 DEF HeadAfter
  <2>2. CASE n # 0
    <3>1. n \in 1 .. n /\ n \in 1 .. l
      BY <1>1, <1>4, <2>2
    <3>2. n \notin I
      BY <1>4, <3>1
    <3>3. ~ (End(input_q[n]) > bs.offset)
      BY <3>1, <3>2
    <3> QED
      BY <1>2, <1>6, <2>2, <3>1, <3>3 DEF HeadAfter
  <2> QED
    BY <2>1, <2>2
<1>9. ASSUME input_q' # <<>> PROVE bs.offset < End(input_q'[1])
  <2>1. /\ Len(input_q') = l - n /\ input_q' \in Seq(InBlk)
        /\ \A i \in 1 .. l - n : input_q'[i] = input_q[i + n]
    <3> DEFINE r == Without(input_q, n)
    <3>1. n \in 0 .. Len(input_q)
      BY <1>4
    <3>2. r \in Seq(InBlk) /\ Len(r) = Len(input_q) - n
          /\ \A i \in 1 .. Len(input_q) - n : r[i] = input_q[i + n]
      BY <1>1, <3>1, WithoutShape
    <3>3. input_q' = r
      BY <1>5
    <3> HIDE DEF r
    <3> QED
      BY <3>2, <3>3
  <2>2. l - n # 0
    BY <1>9, <2>1
  <2>3. n < l /\ 1 \in 1 .. l - n
    BY <1>1, <1>4, <2>2
  <2>4. n + 1 \in I /\ input_q'[1] = input_q[1 + n] /\ 1 + n = n + 1
    BY <1>4, <2>1, <2>3
  <2>5. End(input_q[n + 1]) > bs.offset /\ n + 1 \in 1 .. l
    BY <2>4
  <2> QED
    BY <1>2, <2>4, <2>5
<1> QED
  BY <1>5, <1>7, <1>8, <1>9

LEMMA DetachGives ==
  ASSUME Chain(input_q, head_offs, tail_offs), NEW w, Detach(w)
  PROVE  Gives(w, 0) /\ UNCHANGED <<input_q, head_offs, parser_bs>>
<1>1. input_q \in Seq(InBlk)
  BY DEF Chain
<1>2. Without(input_q, 0) = input_q
  BY <1>1 DEF Without
<1>3. {input_q[i] : i \in 1 .. 0} = {} /\ 0 \in 0 .. Len(input_q)
  BY <1>1
<1>4. ReleaseRefs({}, w, FALSE) /\ UNCHANGED <<input_q, head_offs, parser_bs>>
  BY DEF Detach
<1> QED
  BY <1>2, <1>3, <1>4 DEF Gives, HeadAfter

LEMMA FinishGives ==
  ASSUME Nums, Chain(input_q, head_offs, tail_offs), NEW w, ParseFinish(w)
  PROVE  \E n : Gives(w, n)
<1> DEFINE n == Len(input_q)
<1>1. n \in Nat /\ input_q \in Seq(InBlk) /\ \A b : b \in ToSet(input_q) <=> \E i \in 1 .. n : input_q[i] = b
  BY ToSetOf DEF Chain
<1>2. {input_q[i] : i \in 1 .. n} = ToSet(input_q)
  BY <1>1
<1>3. Without(input_q, n) = <<>>
  BY <1>1 DEF Without
<1>4. ReleaseRefs(ToSet(input_q), w, TRUE) /\ input_q' = <<>> /\ head_offs' = tail_offs
  BY DEF ParseFinish
<1>5. tail_offs = HeadAfter(input_q, head_offs, n)
  <2>1. input_q = <<>> <=> n = 0
    BY <1>1
  <2>2. tail_offs = IF input_q = <<>> THEN head_offs ELSE End(input_q[n])
    BY DEF Chain
  <2> QED
    BY <2>1, <2>2 DEF HeadAfter
<1>6. Gives(w, n)
  <2>1. n \in 0 .. Len(input_q)
    BY <1>1
  <2>2. ReleaseRefs({input_q[i] : i \in 1 .. n}, w, TRUE)
    BY <1>2, <1>4
  <2>3. \E close \in BOOLEAN : ReleaseRefs({input_q[i] : i \in 1 .. n}, w, close)
    BY <2>2
  <2> HIDE DEF n
  <2> QED
    BY <1>3, <1>4, <1>5, <2>1, <2>3 DEF Gives
<1> QED
  BY <1>6

(***************************************************************************)
(* What remains of a queue.                                                *)
(***************************************************************************)
LEMMA WithoutSet ==
  ASSUME NEW S, NEW q \in Seq(S), NEW k \in 0 .. Len(q)
  PROVE  /\ Without(q, k) \in Seq(S) /\ ToSet(Without(q, k)) \subseteq ToSet(q)
         /\ \A x \in ToSet(q) : x \in ToSet(Without(q, k)) \/ \E i \in 1 .. k : x = q[i]
         /\ \A x \in ToSet(Without(q, k)) : \E j \in 1 .. Len(q) : k < j /\ x = q[j]
         /\ Sorted(q) => Sorted(Without(q, k))
         /\ NoRepeats(q) => NoRepeats(Without(q, k))
<1> DEFINE r == Without(q, k)
           n == Len(q)
<1>1. n \in Nat /\ k \in Nat /\ k <= n
  OBVIOUS
<1>2. r \in Seq(S) /\ Len(r) = n - k /\ \A i \in 1 .. n - k : i + k \in 1 .. n /\ r[i] = q[i + k]
  BY WithoutShape
<1>3. /\ \A x : x \in ToSet(q) <=> \E j \in 1 .. n : q[j] = x
      /\ \A x : x \in ToSet(r) <=> \E j \in 1 .. n - k : r[j] = x
  <2> HIDE DEF r
  <2>1. \A x : x \in ToSet(q) <=> \E j \in 1 .. n : q[j] = x
    BY ToSetOf
  <2>2. \A x : x \in ToSet(r) <=> \E j \in 1 .. Len(r) : r[j] = x
    BY <1>2, ToSetOf
  <2> QED
    BY <1>2, <2>1, <2>2
<1> HIDE DEF r, n
<1>4. \A i \in 1 .. n - k : k < i + k /\ i + k \in 1 .. n /\ r[i] = q[i + k]
  BY <1>1, <1>2
<1>5. \A x \in ToSet(r) : \E j \in 1 .. n : k < j /\ x = q[j]
  BY <1>3, <1>4
<1>6. ASSUME NEW x \in ToSet(q) PROVE x \in ToSet(r) \/ \E i \in 1 .. k : x = q[i]
  <2>1. PICK j \in 1 .. n : q[j] = x
    BY <1>3
  <2>2. CASE j <= k
    <3>1. j \in 1 .. k
      BY <1>1, <2>2
    <3> QED
      BY <2>1, <3>1
  <2>3. CASE ~ (j <= k)
    <3>1. j - k \in 1 .. n - k /\ (j - k) + k = j
      BY <1>1, <2>3
    <3>2. r[j - k] = x
      BY <1>4, <2>1, <3>1
    <3> QED
      BY <1>3, <3>1, <3>2
  <2> QED
    BY <2>2, <2>3
<1>7. ASSUME NEW i \in 1 .. n - k, NEW j \in 1 .. n - k
      PROVE  (i < j <=> i + k < j + k) /\ (i = j <=> i + k = j + k)
  BY <1>1
<1>8. Sorted(q) => Sorted(r)
  <2> SUFFICES ASSUME Sorted(q), NEW i \in 1 .. n - k, NEW j \in 1 .. n - k, i < j
               PROVE  pos_lt(r[i].pos, r[j].pos)
    BY <1>2 DEF Sorted
  <2>1. pos_lt(q[i + k].pos, q[j + k].pos)
    BY <1>4, <1>7 DEF Sorted, n
  <2> QED
    BY <1>4, <2>1
<1>9. NoRepeats(q) => NoRepeats(r)
  <2> SUFFICES ASSUME NoRepeats(q), NEW i \in 1 .. n - k, NEW j \in 1 .. n - k,
                      r[i].base = r[j].base
               PROVE  i = j
    BY <1>2 DEF NoRepeats
  <2>1. q[i + k].base = q[j + k].base
    BY <1>4
  <2>2. i + k = j + k
    BY <1>4, <2>1 DEF NoRepeats, n
  <2> QED
    BY <1>7, <2>2
<1>10. ToSet(r) \subseteq ToSet(q)
  BY <1>3, <1>5
<1> QED
  BY <1>2, <1>5, <1>6, <1>8, <1>9, <1>10 DEF r, n

(* Elements at input that is kept are kept, and if they are in the order   *)
(* of their offsets, the others are not.                                   *)
LEMMA KeptSet ==
  ASSUME NEW S, NEW q \in Seq(S), \A x \in S : x.offset \in Nat, head_offs' \in Nat
  PROVE  /\ Kept(q) \in Seq(S) /\ ToSet(Kept(q)) \subseteq ToSet(q)
         /\ \A x \in ToSet(q) : head_offs' <= x.offset => x \in ToSet(Kept(q))
         /\ Sorted(q) => Sorted(Kept(q))
         /\ NoRepeats(q) => NoRepeats(Kept(q))
         /\ (\A i, j \in 1 .. Len(q) : i < j => q[i].offset <= q[j].offset) =>
              \A x \in ToSet(Kept(q)) : head_offs' <= x.offset
<1> DEFINE h == head_offs'
           n == Len(q)
           I == {i \in 1 .. n : q[i].offset >= h}
           k == Before(q, I)
<1>1. n \in Nat /\ \A i \in 1 .. n : q[i].offset \in Nat
  BY ToSetOf
<1>2. k \in 0 .. n /\ (\A i \in 1 .. k : i \notin I) /\ (k < n => k + 1 \in I)
  <2>1. I \subseteq 1 .. n
    OBVIOUS
  <2> HIDE DEF I
  <2> QED
    BY <1>1, <2>1, BeforeFirst
<1>3. Kept(q) = Without(q, k)
  BY DEF Kept
<1> HIDE DEF k
<1>4. \A i \in 1 .. k : i \in 1 .. n /\ ~ (h <= q[i].offset)
  <2> SUFFICES ASSUME NEW i \in 1 .. k PROVE i \in 1 .. n /\ ~ (h <= q[i].offset)
    OBVIOUS
  <2>1. i \in 1 .. n /\ i \notin I
    BY <1>1, <1>2
  <2> QED
    BY <1>1, <2>1
<1>5. k < n => k + 1 \in 1 .. n /\ h <= q[k + 1].offset
  <2> SUFFICES ASSUME k < n PROVE k + 1 \in 1 .. n /\ h <= q[k + 1].offset
    OBVIOUS
  <2>1. k + 1 \in I
    BY <1>2
  <2>2. k + 1 \in 1 .. n /\ q[k + 1].offset >= h
    BY <2>1
  <2> QED
    BY <1>1, <2>2
<1> HIDE DEF I
<1> DEFINE r == Without(q, k)
<1>6. /\ r \in Seq(S) /\ ToSet(r) \subseteq ToSet(q)
      /\ \A x \in ToSet(q) : x \in ToSet(r) \/ \E i \in 1 .. k : x = q[i]
      /\ \A x \in ToSet(r) : \E j \in 1 .. n : k < j /\ x = q[j]
      /\ Sorted(q) => Sorted(r)
      /\ NoRepeats(q) => NoRepeats(r)
  BY <1>2, WithoutSet
<1> HIDE DEF r, h
<1>7. \A x \in ToSet(q) : h <= x.offset => x \in ToSet(r)
  BY <1>4, <1>6
<1>8. ASSUME \A i, j \in 1 .. n : i < j => q[i].offset <= q[j].offset, NEW x \in ToSet(r)
      PROVE  h <= x.offset
  <2>1. PICK j \in 1 .. n : k < j /\ x = q[j]
    BY <1>6
  <2>2. k < n /\ (j = k + 1 \/ k + 1 < j)
    BY <1>1, <1>2, <2>1
  <2>3. k + 1 \in 1 .. n /\ h <= q[k + 1].offset
    BY <1>5, <2>2
  <2>4. q[k + 1].offset <= q[j].offset
    BY <1>1, <1>8, <2>2, <2>3
  <2> DEFINE a == q[k + 1].offset
             b == q[j].offset
  <2>5. a \in Nat /\ b \in Nat /\ h <= a /\ a <= b
    BY <1>1, <2>3, <2>4
  <2>6. h \in Nat
    BY DEF h
  <2> HIDE DEF a, b
  <2>7. h <= b
    BY <2>5, <2>6
  <2> QED
    BY <2>1, <2>7 DEF b
<1>9. Kept(q) = r
  BY <1>3 DEF r
<1> QED
  BY <1>6, <1>7, <1>8, <1>9 DEF h, n

(* A job whose base is new may join a queue.                               *)
LEMMA NoRepeatsJoin ==
  ASSUME NEW S, NEW q \in Seq(S), NEW e \in S, NoRepeats(q), \A x \in ToSet(q) : x.base # e.base
  PROVE  NoRepeats(enqueue(q, e)) /\ enqueue(q, e) \in Seq(S)
         /\ ToSet(enqueue(q, e)) = ToSet(q) \cup {e}
<1> DEFINE n == Len(q)
           m == PlaceOf(q, e.pos)
           r == enqueue(q, e)
<1>1. m \in 1 .. n + 1 /\ r \in Seq(S) /\ Inserted(r, q, m, e)
  BY EnqueueShape
<1>2. ToSet(r) = ToSet(q) \cup {e}
  BY EnqueuedSet
<1>3. n \in Nat /\ \A i \in 1 .. n : q[i] \in ToSet(q)
  BY ToSetOf
<1> HIDE DEF r, m
<1>4. /\ Len(r) = n + 1 /\ r[m] = e
      /\ \A i \in 1 .. n + 1 : i < m => i \in 1 .. n /\ r[i] = q[i]
      /\ \A i \in 1 .. n + 1 : m < i => i - 1 \in 1 .. n /\ r[i] = q[i - 1]
  BY <1>1, <1>3 DEF Inserted
<1> HIDE DEF n
<1>5. ASSUME NEW i \in 1 .. n + 1, NEW j \in 1 .. n + 1, r[i].base = r[j].base, i # m, j # m
      PROVE  i = j
  <2>0. m \in Nat /\ i \in Nat /\ j \in Nat
    BY <1>1
  <2>1. \A a, b \in 1 .. n : q[a].base = q[b].base => a = b
    BY DEF NoRepeats, n
  <2>2. CASE i < m /\ j < m
    BY <1>4, <1>5, <2>1, <2>2
  <2>3. CASE i < m /\ m < j
    <3>1. i = j - 1
      BY <1>4, <1>5, <2>1, <2>3
    <3> QED
      BY <2>0, <2>3, <3>1
  <2>4. CASE m < i /\ j < m
    <3>1. j = i - 1
      BY <1>4, <1>5, <2>1, <2>4
    <3> QED
      BY <2>0, <2>4, <3>1
  <2>5. CASE m < i /\ m < j
    <3>1. i - 1 = j - 1
      BY <1>4, <1>5, <2>1, <2>5
    <3> QED
      BY <2>0, <3>1
  <2> QED
    BY <1>5, <2>0, <2>2, <2>3, <2>4, <2>5
<1>6. ASSUME NEW i \in 1 .. n + 1, i # m PROVE r[i] \in ToSet(q)
  <2>1. i < m \/ m < i
    BY <1>1, <1>6
  <2> QED
    BY <1>3, <1>4, <2>1 DEF n
<1>7. ASSUME NEW i \in 1 .. n + 1, NEW j \in 1 .. n + 1, r[i].base = r[j].base PROVE i = j
  BY <1>4, <1>5, <1>6, <1>7
<1>8. NoRepeats(r)
  BY <1>4, <1>7 DEF NoRepeats
<1> QED
  BY <1>1, <1>2, <1>8 DEF r

(***************************************************************************)
(* The work on patterns, when the parser moves, joins or judges.           *)
(***************************************************************************)
(* Between p and p2 no block of the stream begins.                         *)
NoBlockUpTo(s, p, p2) == \A v \in RealBases(s) : p < v => p2 < v

LEMMA WorkTypes ==
  ASSUME NEW s, StreamOK(s), NEW J, NEW B, NEW ub, NEW p, NEW tail, Work(s, J, B, ub, p, tail)
  PROVE  /\ \A rb \in J : /\ rb.base \in PatternBases(s) /\ rb.base \in Nat /\ rb.offset \in Nat
                          /\ rb.pos \in UnitPos /\ rb.pos[1] \in Nat /\ rb.base <= rb.pos[1]
                          /\ rb.pos[1] <= Pattern(s, rb.base).stop
                          /\ Loaded(rb.pos[1], rb.offset, tail) /\ rb \in RetrBlk
                          /\ rb.offset <= Pattern(s, rb.base).need
                          /\ Pending(rb, B, ub) \/ Judged(s, rb, B, ub, p)
                          /\ rb.link # NULL => rb.link = rb.base
         /\ \A u \in B : u \in Nat /\ u \in PatternBases(s) /\ u \in DOMAIN ub
                         /\ PatternOK(s, u, J, ub, p, tail) /\ ub[u] \in UnordBlk
         /\ \A u \in DOMAIN ub : u \in Nat /\ u # NULL /\ (u \in B \/ u <= p) /\ ub[u] \in UnordBlk
<1>1. ASSUME NEW rb \in J
      PROVE  /\ rb.base \in PatternBases(s) /\ rb.base \in Nat /\ rb.offset \in Nat
             /\ rb.pos \in UnitPos /\ rb.pos[1] \in Nat /\ rb.base <= rb.pos[1]
             /\ rb.pos[1] <= Pattern(s, rb.base).stop
             /\ Loaded(rb.pos[1], rb.offset, tail) /\ rb \in RetrBlk
             /\ rb.offset <= Pattern(s, rb.base).need
             /\ Pending(rb, B, ub) \/ Judged(s, rb, B, ub, p)
             /\ rb.link # NULL => rb.link = rb.base
  <2>1. JobOK(s, rb, tail) /\ (Pending(rb, B, ub) \/ Judged(s, rb, B, ub, p))
    BY DEF Work
  <2>2. rb \in RetrBlk
    BY <2>1 DEF JobOK
  <2>3. rb.base \in Nat /\ rb.offset \in Nat /\ rb.pos \in UnitPos /\ rb.pos[1] \in Nat
    BY <2>2 DEF RetrBlk, UnitPos
  <2> QED
    BY <2>1, <2>2, <2>3 DEF JobOK
<1>2. \A u \in DOMAIN ub : u \in Nat /\ u # NULL /\ (u \in B \/ u <= p) /\ ub[u] \in UnordBlk
  BY NullAssumption DEF Work
<1>3. ASSUME NEW u \in B
      PROVE  u \in Nat /\ u \in PatternBases(s) /\ u \in DOMAIN ub
             /\ PatternOK(s, u, J, ub, p, tail) /\ ub[u] \in UnordBlk
  <2>1. PatternOK(s, u, J, ub, p, tail)
    BY DEF Work
  <2>2. u \in DOMAIN ub /\ u \in PatternBases(s)
    BY <2>1 DEF PatternOK
  <2> QED
    BY <1>2, <2>1, <2>2
<1> QED
  BY <1>1, <1>2, <1>3

(* The parser moves on without meeting a block; jobs that are not on       *)
(* blocks ahead of it may be given up.                                     *)
LEMMA WorkMoves ==
  ASSUME NEW s, StreamOK(s), NEW J, NEW B, NEW ub, NEW p \in Nat, NEW tail,
         Work(s, J, B, ub, p, tail),
         NEW p2 \in Nat, p <= p2, NoBlockUpTo(s, p, p2),
         NEW J2, J2 \subseteq J,
         \A rb \in J : rb.base \in RealBases(s) /\ p < rb.base => rb \in J2
  PROVE  Work(s, J2, B, ub, p2, tail)
<1>1. ASSUME NEW rb \in J2
      PROVE  JobOK(s, rb, tail) /\ (Pending(rb, B, ub) \/ Judged(s, rb, B, ub, p2))
  <2>1. rb \in J /\ JobOK(s, rb, tail)
    BY DEF Work
  <2>2. CASE Pending(rb, B, ub)
    BY <2>1, <2>2
  <2>3. CASE Judged(s, rb, B, ub, p)
    <3>1. rb.base \in Nat /\ rb.base <= p
      BY <2>1, <2>3, WorkTypes DEF Judged
    <3>2. rb.base <= p2
      BY <3>1
    <3> QED
      BY <2>1, <2>3, <3>2 DEF Judged
  <2> QED
    BY <2>1, <2>2, <2>3 DEF Work
<1>2. \A u \in DOMAIN ub : u \in Nat /\ ub[u] \in UnordBlk /\ (u \in B \/ u <= p2)
  BY WorkTypes
<1>3. ASSUME NEW u \in B PROVE PatternOK(s, u, J2, ub, p2, tail)
  <2>1. PatternOK(s, u, J, ub, p, tail)
    BY DEF Work
  <2>2. u \in RealBases(s) => p < u
    BY <2>1 DEF PatternOK
  <2>3. u \in RealBases(s) => p2 < u /\ (ub[u].complete \/ \E rb \in J2 : rb.base = u)
    BY <2>1, <2>2 DEF PatternOK, NoBlockUpTo
  <2> QED
    BY <2>1, <2>3 DEF PatternOK
<1> QED
  BY <1>1, <1>2, <1>3 DEF Work

(* The parser, or the master, queues a retriever for its own block.        *)
LEMMA WorkJoins ==
  ASSUME NEW s, NEW J, NEW B, NEW ub, NEW p, NEW tail, Work(s, J, B, ub, p, tail),
         NEW e, JobOK(s, e, tail), Judged(s, e, B, ub, p), NEW J2, J2 = J \cup {e}
  PROVE  Work(s, J2, B, ub, p, tail)
<1>1. e.base \notin B
  BY DEF Judged
<1>2. ASSUME NEW u \in B PROVE PatternOK(s, u, J2, ub, p, tail)
  <2>1. PatternOK(s, u, J, ub, p, tail) /\ e.base # u
    BY <1>1 DEF Work
  <2>2. ub[u].complete => \A rb \in J2 : rb.base # u
    BY <2>1 DEF PatternOK
  <2>3. (\E rb \in J : rb.base = u) => \E rb \in J2 : rb.base = u
    OBVIOUS
  <2> QED
    BY <2>1, <2>2, <2>3 DEF PatternOK
<1> QED
  BY <1>2 DEF Work

(* What the parser tells those who began before it came to the block at u. *)
JudgedTo(ub2, ub, B, u) ==
  /\ DOMAIN ub2 \subseteq DOMAIN ub
  /\ \A x \in DOMAIN ub2 : ub2[x] \in UnordBlk
  /\ \A x \in DOMAIN ub :
       /\ x \in B /\ x < u /\ ~ ub[x].complete =>
            x \in DOMAIN ub2 /\ ub2[x].complete /\ ~ ub2[x].legitimate
       /\ x = u /\ x \in B /\ ~ ub[x].complete =>
            x \in DOMAIN ub2 /\ ub2[x].complete /\ ub2[x].legitimate
       /\ x # u /\ ~ (x \in B /\ x < u) => x \in DOMAIN ub2 /\ ub2[x] = ub[x]

LEMMA WorkJudged ==
  ASSUME NEW s, StreamOK(s), NEW J, NEW B, NEW ub, NEW p \in Nat, NEW tail,
         Work(s, J, B, ub, p, tail),
         NEW u \in RealBases(s), p < u, \A v \in RealBases(s) : p < v => u <= v,
         NEW J2, J2 \subseteq J,
         \A rb \in J : rb.base \in RealBases(s) /\ p < rb.base => rb \in J2,
         NEW B2, B2 = {v \in B : u < v}, NEW ub2, JudgedTo(ub2, ub, B, u)
  PROVE  Work(s, J2, B2, ub2, u, tail)
<1>1. u \in Nat
  BY RealOf
<1>2. ASSUME NEW rb \in J2
      PROVE  JobOK(s, rb, tail) /\ (Pending(rb, B2, ub2) \/ Judged(s, rb, B2, ub2, u))
  <2> DEFINE b == rb.base
  <2>1. rb \in J /\ JobOK(s, rb, tail) /\ b \in Nat /\ (rb.link # NULL => rb.link = b)
    BY WorkTypes DEF Work
  <2>2. CASE Pending(rb, B, ub)
    <3>1. b \in B /\ rb.link = b /\ ~ ub[b].complete /\ ub[b].end_pos = BitsAt(rb.pos[1], rb.offset)
      BY <2>2 DEF Pending
    <3>2. b \in DOMAIN ub /\ b # NULL /\ PatternOK(s, b, J, ub, p, tail)
      BY <3>1, WorkTypes
    <3> HIDE DEF b
    <3>3. CASE b > u
      <4>1. b \in B2 /\ b # u /\ ~ (b < u)
        BY <1>1, <2>1, <3>1, <3>3
      <4>2. ub2[b] = ub[b]
        BY <3>2, <4>1 DEF JudgedTo
      <4> QED
        BY <2>1, <3>1, <4>1, <4>2 DEF Pending, b
    <3>4. CASE b < u
      <4>1. b \in DOMAIN ub2 /\ ub2[b].complete /\ ~ ub2[b].legitimate
        BY <3>1, <3>2, <3>4 DEF JudgedTo
      <4>2. b \notin RealBases(s)
        <5>1. b \in RealBases(s) => p < b
          BY <3>2 DEF PatternOK
        <5> QED
          BY <1>1, <2>1, <3>4, <5>1
      <4>3. b \notin B2 /\ b <= u
        BY <1>1, <2>1, <3>4
      <4>4. Judged(s, rb, B2, ub2, u)
        BY <3>1, <3>2, <4>1, <4>2, <4>3 DEF Judged, b
      <4> QED
        BY <2>1, <4>4
    <3>5. CASE b = u
      <4>1. b \in DOMAIN ub2 /\ ub2[b].complete /\ ub2[b].legitimate
        BY <3>1, <3>2, <3>5 DEF JudgedTo
      <4>2. b \notin B2 /\ b <= u
        BY <1>1, <2>1, <3>5
      <4>4. Judged(s, rb, B2, ub2, u)
        BY <3>1, <3>2, <3>5, <4>1, <4>2 DEF Judged, b
      <4> QED
        BY <2>1, <4>4
    <3> QED
      BY <1>1, <2>1, <3>3, <3>4, <3>5 DEF b
  <2>3. CASE Judged(s, rb, B, ub, p)
    <3>1. b <= p /\ b \notin B /\ b <= u /\ b # u
      BY <1>1, <2>1, <2>3 DEF Judged
    <3>2. b \notin B2
      BY <3>1
    <3> HIDE DEF b
    <3>3. CASE rb.link = NULL
      BY <2>1, <2>3, <3>1, <3>2, <3>3 DEF Judged, b
    <3>4. CASE rb.link # NULL
      <4>1. b \in DOMAIN ub
        BY <2>3, <3>4 DEF Judged, b
      <4>2. b \in DOMAIN ub2 /\ ub2[b] = ub[b]
        BY <3>1, <4>1 DEF JudgedTo
      <4> QED
        BY <2>1, <2>3, <3>1, <3>2, <3>4, <4>2 DEF Judged, b
    <3> QED
      BY <3>3, <3>4
  <2> QED
    BY <2>1, <2>2, <2>3 DEF Work
<1>3. ASSUME NEW x \in DOMAIN ub2 PROVE x \in Nat /\ ub2[x] \in UnordBlk /\ (x \in B2 \/ x <= u)
  <2>1. x \in DOMAIN ub /\ ub2[x] \in UnordBlk
    BY DEF JudgedTo
  <2>2. x \in Nat /\ (x \in B \/ x <= p)
    BY <2>1, WorkTypes
  <2> QED
    BY <1>1, <2>1, <2>2
<1>4. ASSUME NEW v \in B2 PROVE PatternOK(s, v, J2, ub2, u, tail)
  <2>1. v \in B /\ u < v
    OBVIOUS
  <2>2. v \in Nat /\ v \in DOMAIN ub /\ PatternOK(s, v, J, ub, p, tail)
    BY <2>1, WorkTypes
  <2>3. v \in DOMAIN ub2 /\ ub2[v] = ub[v]
    <3>1. v # u /\ ~ (v < u)
      BY <1>1, <2>1, <2>2
    <3> QED
      BY <2>2, <3>1 DEF JudgedTo
  <2>4. v \in RealBases(s) => (ub[v].complete \/ \E rb \in J2 : rb.base = v)
    BY <2>2 DEF PatternOK
  <2> QED
    BY <2>1, <2>2, <2>3, <2>4 DEF PatternOK
<1> QED
  BY <1>2, <1>3, <1>4 DEF Work

(* A retriever ahead of the parser notes how far it has come.              *)
LEMMA WorkNotes ==
  ASSUME NEW s, StreamOK(s), NEW J, NEW B, NEW ub, NEW p, NEW tail,
         Work(s, J, B, ub, p, tail),
         NEW rb \in J, Pending(rb, B, ub), \A x \in J \ {rb} : x.base # rb.base,
         NEW u, u = rb.base, NEW e \in Bits, EndOK(s, u, e, tail),
         NEW ub2, DOMAIN ub2 = DOMAIN ub, ub2[u] \in UnordBlk, ub2[u].end_pos = e,
         \A x \in DOMAIN ub \ {u} : ub2[x] = ub[x],
         NEW rb2, rb2.base = u, rb2.link = u, e = BitsAt(rb2.pos[1], rb2.offset),
         JobOK(s, rb2, tail),
         NEW J2, J2 = IF ub2[u].complete THEN J \ {rb} ELSE (J \ {rb}) \cup {rb2}
  PROVE  Work(s, J2, B, ub2, p, tail)
<1>1. u \in B /\ u \in DOMAIN ub /\ PatternOK(s, u, J, ub, p, tail)
  BY WorkTypes DEF Pending
<1>2. ASSUME NEW x \in J \ {rb}
      PROVE  JobOK(s, x, tail) /\ (Pending(x, B, ub2) \/ Judged(s, x, B, ub2, p))
  <2>1. x \in J /\ JobOK(s, x, tail) /\ x.base # u
    BY DEF Work
  <2>2. CASE Pending(x, B, ub)
    <3>1. x.base \in DOMAIN ub
      BY <2>2, WorkTypes DEF Pending
    <3>2. ub2[x.base] = ub[x.base]
      BY <2>1, <3>1
    <3> QED
      BY <2>1, <2>2, <3>2 DEF Pending
  <2>3. CASE Judged(s, x, B, ub, p)
    <3>1. x.link # NULL => x.base \in DOMAIN ub /\ ub2[x.base] = ub[x.base]
      BY <2>1, <2>3 DEF Judged
    <3> QED
      BY <2>1, <2>3, <3>1 DEF Judged
  <2> QED
    BY <2>1, <2>2, <2>3 DEF Work
<1>3. ~ ub2[u].complete => Pending(rb2, B, ub2)
  BY <1>1 DEF Pending
<1>4. \A x \in J2 : JobOK(s, x, tail) /\ (Pending(x, B, ub2) \/ Judged(s, x, B, ub2, p))
  BY <1>2, <1>3
<1>5. \A x \in DOMAIN ub2 : x \in Nat /\ ub2[x] \in UnordBlk /\ (x \in B \/ x <= p)
  BY WorkTypes
<1>6. ASSUME NEW v \in B PROVE PatternOK(s, v, J2, ub2, p, tail)
  <2>1. PatternOK(s, v, J, ub, p, tail) /\ v \in DOMAIN ub
    BY WorkTypes
  <2>2. CASE v = u
    <3>1. ub2[u].complete => \A x \in J2 : x.base # u
      OBVIOUS
    <3>2. u \in RealBases(s) => p < u /\ (ub2[u].complete \/ \E x \in J2 : x.base = u)
      <4>1. u \in RealBases(s) => p < u
        BY <1>1 DEF PatternOK
      <4>2. ~ ub2[u].complete => rb2 \in J2
        OBVIOUS
      <4> QED
        BY <4>1, <4>2
    <3>3. u \in DOMAIN ub2 /\ u \in PatternBases(s) /\ EndOK(s, u, ub2[u].end_pos, tail)
      BY <1>1 DEF PatternOK
    <3> QED
      BY <2>2, <3>1, <3>2, <3>3 DEF PatternOK
  <2>3. CASE v # u
    <3>1. ub2[v] = ub[v]
      BY <2>1, <2>3
    <3>2. \A x \in J2 : x.base = v => x \in J
      BY <2>3
    <3>3. \A x \in J : x.base = v => x \in J2
      BY <2>3
    <3> QED
      BY <2>1, <3>1, <3>2, <3>3 DEF PatternOK
  <2> QED
    BY <2>2, <2>3
<1> QED
  BY <1>4, <1>5, <1>6 DEF Work

(* The master has read its block, and nobody asks for its entry any more.  *)
LEMMA WorkEnds ==
  ASSUME NEW s, StreamOK(s), NEW J, NEW B, NEW ub, NEW p, NEW tail,
         Work(s, J, B, ub, p, tail),
         NEW rb \in J, Judged(s, rb, B, ub, p), \A x \in J \ {rb} : x.base # rb.base,
         NEW ub2, ub2 = [x \in DOMAIN ub \ {rb.link} |-> ub[x]]
  PROVE  Work(s, J \ {rb}, B, ub2, p, tail)
<1>1. rb.base \notin B /\ (rb.link = NULL \/ rb.link = rb.base)
  BY WorkTypes DEF Judged
<1>2. \A x \in DOMAIN ub : x # rb.base => x \in DOMAIN ub2 /\ ub2[x] = ub[x]
  BY <1>1, WorkTypes
<1>3. ASSUME NEW x \in J \ {rb}
      PROVE  JobOK(s, x, tail) /\ (Pending(x, B, ub2) \/ Judged(s, x, B, ub2, p))
  <2>1. x \in J /\ JobOK(s, x, tail) /\ x.base # rb.base
    BY DEF Work
  <2>2. CASE Pending(x, B, ub)
    <3>1. x.base \in DOMAIN ub
      BY <2>2, WorkTypes DEF Pending
    <3>2. ub2[x.base] = ub[x.base]
      BY <1>2, <2>1, <3>1
    <3> QED
      BY <2>1, <2>2, <3>2 DEF Pending
  <2>3. CASE Judged(s, x, B, ub, p)
    <3>1. x.link # NULL => x.base \in DOMAIN ub2 /\ ub2[x.base] = ub[x.base]
      BY <1>2, <2>1, <2>3 DEF Judged
    <3> QED
      BY <2>1, <2>3, <3>1 DEF Judged
  <2> QED
    BY <2>1, <2>2, <2>3 DEF Work
<1>4. \A x \in DOMAIN ub2 : x \in Nat /\ ub2[x] \in UnordBlk /\ (x \in B \/ x <= p)
  BY WorkTypes
<1>5. ASSUME NEW v \in B PROVE PatternOK(s, v, J \ {rb}, ub2, p, tail)
  <2>1. PatternOK(s, v, J, ub, p, tail) /\ v \in DOMAIN ub /\ v # rb.base
    BY <1>1, WorkTypes
  <2>2. v \in DOMAIN ub2 /\ ub2[v] = ub[v]
    BY <1>2, <2>1
  <2>3. \A x \in J : x.base = v => x \in J \ {rb}
    BY <2>1
  <2> QED
    BY <2>1, <2>2, <2>3 DEF PatternOK
<1> QED
  BY <1>3, <1>4, <1>5 DEF Work

(* The entry of ublk for a pattern that is new, and the retriever for it.  *)
Begins(s, B, ub, p, tail, u, e, ub2, rb) ==
  /\ u \in Nat /\ u \in PatternBases(s) /\ p < u /\ u \notin B
  /\ e \in Bits /\ EndOK(s, u, e, tail)
  /\ DOMAIN ub2 = DOMAIN ub \cup {u} /\ ub2[u] \in UnordBlk
  /\ ub2[u].end_pos = e /\ ub2[u].complete = FALSE
  /\ rb.base = u /\ rb.link = u /\ e = BitsAt(rb.pos[1], rb.offset) /\ JobOK(s, rb, tail)
  /\ \A x \in DOMAIN ub \ {u} : ub2[x] = ub[x]

(* A pattern is found ahead of the parser.                                 *)
LEMMA WorkFound ==
  ASSUME NEW s, StreamOK(s), NEW J, NEW B, NEW ub, NEW p \in Nat, NEW tail,
         Work(s, J, B, ub, p, tail),
         NEW u, NEW e, NEW ub2, NEW rb, Begins(s, B, ub, p, tail, u, e, ub2, rb)
  PROVE  /\ Work(s, J \cup {rb}, B \cup {u}, ub2, p, tail)
         /\ \A x \in J : x.base # u
<1> USE DEF Begins
<1>1. ub2[u].end_pos = e /\ ub2[u].complete = FALSE /\ ub2[u] \in UnordBlk /\ u \in DOMAIN ub2
  OBVIOUS
<1>2. \A x \in DOMAIN ub \ {u} : x \in DOMAIN ub2 /\ ub2[x] = ub[x]
  OBVIOUS
<1>3. DOMAIN ub2 = DOMAIN ub \cup {u}
  OBVIOUS
<1>4. ASSUME NEW x \in J
      PROVE  /\ JobOK(s, x, tail) /\ x.base # u
             /\ Pending(x, B \cup {u}, ub2) \/ Judged(s, x, B \cup {u}, ub2, p)
  <2>1. JobOK(s, x, tail) /\ x.base \in Nat
    BY WorkTypes DEF Work
  <2>2. CASE Pending(x, B, ub)
    <3>1. x.base \in DOMAIN ub /\ x.base # u
      BY <2>2, WorkTypes DEF Pending
    <3>2. ub2[x.base] = ub[x.base]
      BY <1>2, <3>1
    <3> QED
      BY <2>1, <2>2, <3>1, <3>2 DEF Pending
  <2>3. CASE Judged(s, x, B, ub, p)
    <3>1. x.base <= p /\ x.base # u
      BY <2>1, <2>3 DEF Judged
    <3>2. x.link # NULL => x.base \in DOMAIN ub2 /\ ub2[x.base] = ub[x.base]
      BY <1>2, <2>3, <3>1 DEF Judged
    <3> QED
      BY <2>1, <2>3, <3>1, <3>2 DEF Judged
  <2> QED
    BY <2>2, <2>3 DEF Work
<1>5. Pending(rb, B \cup {u}, ub2)
  BY <1>1 DEF Pending
<1>6. \A x \in DOMAIN ub2 : x \in Nat /\ ub2[x] \in UnordBlk /\ (x \in B \cup {u} \/ x <= p)
  BY <1>1, <1>2, <1>3, WorkTypes
<1>7. ASSUME NEW v \in B \cup {u} PROVE PatternOK(s, v, J \cup {rb}, ub2, p, tail)
  <2>1. CASE v = u
    <3>1. rb \in J \cup {rb}
      OBVIOUS
    <3> QED
      BY <1>1, <2>1, <3>1 DEF PatternOK
  <2>2. CASE v # u
    <3>1. PatternOK(s, v, J, ub, p, tail) /\ v \in DOMAIN ub
      BY <2>2, WorkTypes
    <3>2. v \in DOMAIN ub2 /\ ub2[v] = ub[v]
      BY <1>2, <2>2, <3>1
    <3>3. (\E x \in J : x.base = v) => \E x \in J \cup {rb} : x.base = v
      OBVIOUS
    <3>4. ub[v].complete => \A x \in J \cup {rb} : x.base # v
      BY <2>2, <3>1 DEF PatternOK
    <3> QED
      BY <3>1, <3>2, <3>3, <3>4 DEF PatternOK
  <2> QED
    BY <2>1, <2>2
<1> QED
  BY <1>4, <1>5, <1>6, <1>7 DEF Work

LEMMA WorkGrows ==
  ASSUME NEW s, StreamOK(s), NEW J, NEW B, NEW ub, NEW p, NEW tail \in Nat,
         Work(s, J, B, ub, p, tail), NEW tail2 \in Nat, tail <= tail2
  PROVE  Work(s, J, B, ub, p, tail2)
<1>1. \A u, o : o \in Nat /\ Loaded(u, o, tail) => Loaded(u, o, tail2)
  BY DEF Loaded
<1>2. \A x \in J : JobOK(s, x, tail2)
  <2> SUFFICES ASSUME NEW x \in J PROVE JobOK(s, x, tail2)
    OBVIOUS
  <2>1. JobOK(s, x, tail) /\ x.offset \in Nat
    BY WorkTypes DEF Work
  <2> QED
    BY <1>1, <2>1 DEF JobOK
<1>3. \A v \in B : PatternOK(s, v, J, ub, p, tail2)
  <2> SUFFICES ASSUME NEW v \in B PROVE PatternOK(s, v, J, ub, p, tail2)
    OBVIOUS
  <2>1. PatternOK(s, v, J, ub, p, tail) /\ ub[v] \in UnordBlk
    BY WorkTypes
  <2>2. ub[v].end_pos.offset \in Nat
    BY <2>1 DEF UnordBlk, Bits
  <2>3. EndOK(s, v, ub[v].end_pos, tail2)
    BY <1>1, <2>1, <2>2 DEF PatternOK, EndOK
  <2> QED
    BY <2>1, <2>3 DEF PatternOK
<1> QED
  BY <1>2, <1>3 DEF Work

(***************************************************************************)
(* Mastership.                                                             *)
(***************************************************************************)
LEMMA ReachedShrinks ==
  ASSUME NEW s, NEW J, NEW p \in Nat, NEW p2 \in Nat, NoBlockUpTo(s, p, p2),
         NEW J2, J2 \subseteq J, \A rb \in J : rb.base \in Nat
  PROVE  Reached(s, J2, p2) \subseteq Reached(s, J, p)
<1> SUFFICES ASSUME NEW rb \in J2, rb.base \in RealBases(s), rb.base <= p2
             PROVE  rb.base <= p
  BY DEF Reached
<1>1. rb.base \in Nat
  OBVIOUS
<1> QED
  BY <1>1 DEF NoBlockUpTo

LEMMA TokenFree ==
  ASSUME NEW s, NEW J, NEW bs, Reached(s, J, bs.pos[1]) = {}
  PROVE  Exclusive(s, J, bs, TRUE, {})
  BY DEF Exclusive

LEMMA OneRetriever ==
  ASSUME NEW s, NEW J, NEW bs, NEW rb, Reached(s, J, bs.pos[1]) = {rb},
         bs = BitsAt(rb.pos[1], rb.offset)
  PROVE  Exclusive(s, J, bs, FALSE, {})
  BY DEF Exclusive

(***************************************************************************)
(* The patterns that the parser has not reached.                           *)
(***************************************************************************)
LEMMA UpClosed ==
  ASSUME NEW q, Len(q) \in Nat, NEW I, I \subseteq 1 .. Len(q),
         \A i \in I, j \in 1 .. Len(q) : i < j => j \in I
  PROVE  /\ Before(q, I) \in 0 .. Len(q)
         /\ \A i \in 1 .. Len(q) : i \in I <=> Before(q, I) < i
<1> DEFINE n == Len(q)
           k == Before(q, I)
<1>1. k \in 0 .. n /\ (\A i \in 1 .. k : i \notin I) /\ (k < n => k + 1 \in I)
  BY BeforeFirst
<1> HIDE DEF k
<1>2. ASSUME NEW i \in 1 .. n PROVE i \in I <=> k < i
  <2>1. CASE k < i
    <3>1. k < n /\ (i = k + 1 \/ k + 1 < i)
      BY <1>1, <2>1
    <3> QED
      BY <1>1, <2>1, <3>1
  <2>2. CASE ~ (k < i)
    <3>1. i \in 1 .. k
      BY <1>1, <2>2
    <3> QED
      BY <1>1, <2>2, <3>1
  <2> QED
    BY <2>1, <2>2
<1> QED
  BY <1>1, <1>2 DEF k

UnordPos == [pos : UnitPos]

LEMMA BasesOf ==
  ASSUME NEW q \in Seq(UnordPos)
  PROVE  /\ Len(q) \in Nat
         /\ \A i \in 1 .. Len(q) : /\ q[i].pos = <<q[i].pos[1], 0>> /\ q[i].pos[1] \in Nat
                                   /\ q[i].pos \in Position /\ q[i].pos[1] \in Bases(q)
         /\ \A u : u \in Bases(q) <=> \E i \in 1 .. Len(q) : q[i].pos[1] = u
<1>1. Len(q) \in Nat /\ (\A i \in 1 .. Len(q) : q[i] \in UnordPos)
      /\ \A x : x \in ToSet(q) <=> \E i \in 1 .. Len(q) : q[i] = x
  BY ToSetOf
<1>2. \A u : u \in Bases(q) <=> \E i \in 1 .. Len(q) : q[i].pos[1] = u
  BY <1>1 DEF Bases
<1>3. \A i \in 1 .. Len(q) : /\ q[i].pos = <<q[i].pos[1], 0>> /\ q[i].pos[1] \in Nat
                             /\ q[i].pos \in Position
  BY <1>1 DEF UnordPos, UnitPos, Position
<1> QED
  BY <1>1, <1>2, <1>3

LEMMA BasesSplit ==
  ASSUME NEW q \in Seq(UnordPos), Sorted(q), NEW u \in Nat, NEW pos, pos = <<u, 0>>
  PROVE  /\ Bases(Remaining(q, pos)) = {v \in Bases(q) : u < v}
         /\ Bases(Overtaken(q, pos)) = {v \in Bases(q) : v < u}
         /\ Remaining(q, pos) \in Seq(UnordPos) /\ Sorted(Remaining(q, pos))
<1> DEFINE n == Len(q)
           I == {i \in 1 .. n : pos_lt(pos, q[i].pos)}
           K == {i \in 1 .. n : ~ pos_lt(q[i].pos, pos)}
           k == Before(q, I)
           m == Before(q, K)
<1>1. /\ n \in Nat
      /\ \A i \in 1 .. n : q[i].pos = <<q[i].pos[1], 0>> /\ q[i].pos[1] \in Nat
      /\ \A v : v \in Bases(q) <=> \E i \in 1 .. n : q[i].pos[1] = v
  BY BasesOf
<1>2. \A i \in 1 .. n : /\ pos_lt(pos, q[i].pos) <=> u < q[i].pos[1]
                        /\ pos_lt(q[i].pos, pos) <=> q[i].pos[1] < u
  BY <1>1 DEF pos_lt
<1>3. \A i, j \in 1 .. n : i < j => q[i].pos[1] < q[j].pos[1]
  BY <1>1 DEF Sorted, pos_lt
<1>4. (\A i \in 1 .. n : i \in I <=> u < q[i].pos[1]) /\ (\A i \in 1 .. n : i \in K <=> ~ (q[i].pos[1] < u))
  BY <1>2
<1>5. I \subseteq 1 .. n /\ K \subseteq 1 .. n
  OBVIOUS
<1>6. Remaining(q, pos) = Without(q, k) /\ Overtaken(q, pos) = SubSeq(q, 1, m)
  BY DEF Remaining, Overtaken
<1> HIDE DEF I, K
<1>7. k \in 0 .. n /\ \A i \in 1 .. n : i \in I <=> k < i
  <2>1. \A i \in I, j \in 1 .. n : i < j => j \in I
    BY <1>1, <1>3, <1>4, <1>5
  <2> QED
    BY <1>1, <1>5, <2>1, UpClosed
<1>8. m \in 0 .. n /\ \A i \in 1 .. n : i \in K <=> m < i
  <2>1. \A i \in K, j \in 1 .. n : i < j => j \in K
    BY <1>1, <1>3, <1>4, <1>5
  <2> QED
    BY <1>1, <1>5, <2>1, UpClosed
<1> HIDE DEF k, m
<1> DEFINE r == Without(q, k)
           t == SubSeq(q, 1, m)
<1>9. /\ r \in Seq(UnordPos) /\ Sorted(r) /\ Len(r) = n - k
      /\ \A i \in 1 .. n - k : i + k \in 1 .. n /\ r[i] = q[i + k]
  BY <1>7, WithoutShape, WithoutSet
<1>10. t \in Seq(UnordPos) /\ Len(t) = m /\ \A i \in 1 .. m : t[i] = q[i] /\ i \in 1 .. n
  BY <1>1, <1>8
<1> HIDE DEF r, t, n
<1>11. ASSUME NEW v PROVE v \in Bases(r) <=> v \in Bases(q) /\ u < v
  <2>1. v \in Bases(r) <=> \E i \in 1 .. n - k : r[i].pos[1] = v
    BY <1>9, BasesOf
  <2>2. ASSUME NEW i \in 1 .. n - k, r[i].pos[1] = v PROVE v \in Bases(q) /\ u < v
    <3>1. i + k \in 1 .. n /\ q[i + k].pos[1] = v /\ k < i + k
      BY <1>7, <1>9, <2>2
    <3> QED
      BY <1>1, <1>4, <1>7, <3>1
  <2>3. ASSUME NEW i \in 1 .. n, q[i].pos[1] = v, u < v PROVE \E j \in 1 .. n - k : r[j].pos[1] = v
    <3>1. k < i
      BY <1>4, <1>7, <2>3
    <3>2. i - k \in 1 .. n - k /\ (i - k) + k = i
      BY <1>1, <1>7, <3>1
    <3> QED
      BY <1>9, <2>3, <3>2
  <2> QED
    BY <1>1, <2>1, <2>2, <2>3
<1>12. ASSUME NEW v PROVE v \in Bases(t) <=> v \in Bases(q) /\ v < u
  <2>1. v \in Bases(t) <=> \E i \in 1 .. m : t[i].pos[1] = v
    BY <1>10, BasesOf
  <2>2. ASSUME NEW i \in 1 .. m, t[i].pos[1] = v PROVE v \in Bases(q) /\ v < u
    <3>1. i \in 1 .. n /\ q[i].pos[1] = v /\ ~ (m < i)
      BY <1>8, <1>10, <2>2
    <3> QED
      BY <1>1, <1>4, <1>8, <3>1
  <2>3. ASSUME NEW i \in 1 .. n, q[i].pos[1] = v, v < u PROVE \E j \in 1 .. m : t[j].pos[1] = v
    <3>1. ~ (m < i)
      BY <1>4, <1>8, <2>3
    <3>2. i \in 1 .. m
      BY <1>1, <1>8, <3>1
    <3> QED
      BY <1>10, <2>3, <3>2
  <2> QED
    BY <1>1, <2>1, <2>2, <2>3
<1>13. Bases(r) = {v \in Bases(q) : u < v} /\ Bases(t) = {v \in Bases(q) : v < u}
  BY <1>11, <1>12
<1>14. Remaining(q, pos) = r /\ Overtaken(q, pos) = t
  BY <1>6 DEF r, t
<1> QED
  BY <1>9, <1>13, <1>14

(* A new pattern joins them.                                               *)
LEMMA BasesJoin ==
  ASSUME NEW q \in Seq(UnordPos), Sorted(q), NEW u \in Nat, u \notin Bases(q)
  PROVE  LET r == enqueue(q, [pos |-> <<u, 0>>])
         IN r \in Seq(UnordPos) /\ Sorted(r) /\ Bases(r) = Bases(q) \cup {u}
<1> DEFINE e == [pos |-> <<u, 0>>]
           r == enqueue(q, e)
<1>1. e \in UnordPos /\ e.pos = <<u, 0>> /\ e.pos[1] = u
  BY DEF UnordPos, UnitPos
<1>2. \A x \in UnordPos : x.pos \in Position
  BY DEF UnordPos, UnitPos, Position
<1>3. \A x \in ToSet(q) : x.pos # e.pos
  BY <1>1 DEF Bases
<1> HIDE DEF e
<1>4. r \in Seq(UnordPos)
  BY <1>1, EnqueueType
<1>5. Sorted(r) /\ ToSet(r) = ToSet(q) \cup {e}
  BY <1>1, <1>2, <1>3, EnqueueSorted
<1> HIDE DEF r
<1>6. Bases(r) = Bases(q) \cup {u}
  BY <1>1, <1>5 DEF Bases
<1> QED
  BY <1>4, <1>5, <1>6 DEF r, e

(***************************************************************************)
(* A step of worker w, to control state t.                                 *)
(***************************************************************************)
Step(w, t) ==
  /\ pc'[w] = t /\ DOMAIN job' = Workers
  /\ \A v \in Workers \ {w} :
       /\ pc'[v] = pc[v] \/ (pc[v] = "waiting" /\ pc'[v] = "enter")
       /\ job'[v] = job[v]

LEMMA StepEffect ==
  ASSUME NEW w \in Workers, NEW t, Step(w, t)
  PROVE  /\ Alone(w)
         /\ \A s \in Readers3 : At({s})' = IF t = s THEN At({s}) \cup {w} ELSE At({s}) \ {w}
<1>1. Alone(w)
  BY DEF Step, Alone, Readers3
<1>2. ASSUME NEW s \in Readers3
      PROVE  At({s})' = IF t = s THEN At({s}) \cup {w} ELSE At({s}) \ {w}
  <2>1. ASSUME NEW v \in Workers \ {w} PROVE pc'[v] = s <=> pc[v] = s
    BY DEF Step, Readers3
  <2>2. At({s})' = {v \in Workers : pc'[v] = s} /\ At({s}) = {v \in Workers : pc[v] = s}
    BY DEF At
  <2> QED
    BY <2>1, <2>2 DEF Step
<1> QED
  BY <1>1, <1>2

LEMMA MovesStep ==
  ASSUME CountInv, NEW w \in Workers, NEW t, Moves(w, t), DOMAIN job = Workers,
         job' = [job EXCEPT ![w] = job'[w]]
  PROVE  Step(w, t)
<1>1. /\ pc'[w] = t
      /\ \A v \in Workers \ {w} :
           pc'[v] = pc[v] \/ (pc[v] = "waiting" /\ pc'[v] = "enter")
  BY MovesEffect DEF CountInv
<1> QED
  BY <1>1 DEF Step

(***************************************************************************)
(* The jobs of the others.                                                 *)
(***************************************************************************)
RestInHand(w) == {job[v] : v \in At({"retrieve"}) \ {w}}
RestJobs(w) == ToSet(retr_q) \cup RestInHand(w)

LEMMA RestOf ==
  ASSUME OnePerPattern, NEW w
  PROVE  /\ RestJobs(w) \subseteq Jobs
         /\ w \notin At({"retrieve"}) => RestJobs(w) = Jobs
         /\ w \in At({"retrieve"}) =>
              /\ job[w] \in Jobs /\ Jobs = RestJobs(w) \cup {job[w]}
              /\ RestJobs(w) = Jobs \ {job[w]}
              /\ \A x \in RestJobs(w) : x.base # job[w].base
<1> DEFINE A == At({"retrieve"})
<1>1. InHand = {job[v] : v \in A}
  BY DEF InHand
<1>2. \A x \in RestInHand(w) : \E v \in A \ {w} : x = job[v]
  BY DEF RestInHand
<1>3. \A v \in A \ {w} : job[v] \in RestInHand(w) /\ job[v] \in InHand
  BY <1>1 DEF RestInHand
<1> HIDE DEF A
<1>4. RestJobs(w) \subseteq Jobs
  BY <1>2, <1>3 DEF RestJobs, Jobs
<1>5. w \notin A => RestJobs(w) = Jobs
  BY <1>1, <1>3, <1>4 DEF RestJobs, Jobs
<1>6. ASSUME w \in A
      PROVE  /\ job[w] \in Jobs /\ Jobs = RestJobs(w) \cup {job[w]}
             /\ \A x \in RestJobs(w) : x.base # job[w].base
  <2>1. job[w] \in Jobs /\ Jobs = RestJobs(w) \cup {job[w]}
    BY <1>1, <1>3, <1>4, <1>6 DEF RestJobs, Jobs
  <2>2. \A x \in RestJobs(w) : x.base # job[w].base
    BY <1>2, <1>6 DEF RestJobs, OnePerPattern, A
  <2> QED
    BY <2>1, <2>2
<1> QED
  BY <1>4, <1>5, <1>6 DEF A

LEMMA DistinctJobs ==
  ASSUME OnePerPattern, NEW x \in Jobs, NEW y \in Jobs, x.base = y.base,
         NEW S, retr_q \in Seq(S)
  PROVE  x = y
<1>1. x \in ToSet(retr_q) \/ \E v \in At({"retrieve"}) : x = job[v]
  BY DEF Jobs, InHand
<1>2. y \in ToSet(retr_q) \/ \E v \in At({"retrieve"}) : y = job[v]
  BY DEF Jobs, InHand
<1>3. \A z \in ToSet(retr_q) : \E i \in 1 .. Len(retr_q) : retr_q[i] = z
  BY ToSetOf
<1> QED
  BY <1>1, <1>2, <1>3 DEF OnePerPattern, NoRepeats

(* Worker w ends its work (or had none), and retr_q becomes K, or K and a  *)
(* new job.                                                                *)
LEMMA RetrQueue ==
  ASSUME OnePerPattern, NEW w \in Workers, NEW t, Step(w, t), t # "retrieve",
         NEW K \in Seq(RetrBlk), ToSet(K) \subseteq ToSet(retr_q), NoRepeats(K),
         NEW J0, J0 = ToSet(K) \cup RestInHand(w)
  PROVE  /\ J0 \subseteq RestJobs(w)
         /\ retr_q' = K => retr_q' \in Seq(RetrBlk) /\ OnePerPattern' /\ Jobs' = J0
         /\ \A e \in RetrBlk :
              retr_q' = enqueue(K, e) /\ (\A x \in J0 : x.base # e.base) =>
                retr_q' \in Seq(RetrBlk) /\ OnePerPattern' /\ Jobs' = J0 \cup {e}
<1> DEFINE A == At({"retrieve"}) \ {w}
<1>1. At({"retrieve"})' = A /\ \A v \in A : job'[v] = job[v]
  <2>1. At({"retrieve"})' = A
    BY StepEffect DEF Readers3
  <2>2. \A v \in A : v \in Workers \ {w}
    BY DEF At
  <2> QED
    BY <2>1, <2>2 DEF Step
<1>2. InHand' = RestInHand(w)
  BY <1>1 DEF InHand, RestInHand
<1>3. J0 \subseteq RestJobs(w)
  BY DEF RestJobs
<1>4. (\A v, x \in A : job[v].base = job[x].base => v = x)
      /\ \A rb \in ToSet(K), v \in A : rb.base # job[v].base
  BY DEF OnePerPattern
<1>5. \A v \in A : job[v] \in J0
  BY DEF RestInHand
<1> HIDE DEF A
<1>6. ASSUME retr_q' = K PROVE retr_q' \in Seq(RetrBlk) /\ OnePerPattern' /\ Jobs' = J0
  BY <1>1, <1>2, <1>4, <1>6 DEF OnePerPattern, Jobs
<1>7. ASSUME NEW e \in RetrBlk, retr_q' = enqueue(K, e), \A x \in J0 : x.base # e.base
      PROVE  retr_q' \in Seq(RetrBlk) /\ OnePerPattern' /\ Jobs' = J0 \cup {e}
  <2>1. \A x \in ToSet(K) : x.base # e.base
    BY <1>7
  <2>2. /\ NoRepeats(retr_q') /\ retr_q' \in Seq(RetrBlk) /\ ToSet(retr_q') = ToSet(K) \cup {e}
    BY <1>7, <2>1, NoRepeatsJoin
  <2>3. \A rb \in ToSet(retr_q'), v \in A : rb.base # job[v].base
    BY <1>4, <1>5, <1>7, <2>2
  <2>4. OnePerPattern'
    BY <1>1, <1>4, <2>2, <2>3 DEF OnePerPattern
  <2>5. Jobs' = J0 \cup {e}
    BY <1>2, <2>2 DEF Jobs
  <2> QED
    BY <2>2, <2>4, <2>5
<1> QED
  BY <1>3, <1>6, <1>7

(* Jobs on blocks ahead of the parser are at input that is kept.           *)
LEMMA JobAhead ==
  ASSUME NEW s, StreamOK(s), NEW bs, NEW tail, PlaceOK(s, bs, tail), NEW h \in Nat, h <= bs.offset,
         NEW x, x.base \in RealBases(s), x.pos[1] \in Nat, x.offset \in Nat,
         x.base <= x.pos[1], Words(x.pos[1]) <= x.offset, bs.pos[1] < x.base
  PROVE  h <= x.offset
<1>1. x.base \in Nat /\ bs.offset \in Nat /\ bs.offset <= Words(x.base)
  BY RealOf DEF PlaceOK, Bits
<1>2. Words(x.base) <= Words(x.pos[1]) /\ Words(x.base) \in Nat /\ Words(x.pos[1]) \in Nat
  BY <1>1, WordsGrow, WordsOf
<1> DEFINE a == bs.offset
           b == Words(x.base)
           c == Words(x.pos[1])
           d == x.offset
<1>3. a \in Nat /\ b \in Nat /\ c \in Nat /\ d \in Nat /\ h <= a /\ a <= b /\ b <= c /\ c <= d
  BY <1>1, <1>2
<1> HIDE DEF a, b, c, d
<1>4. h <= d
  BY <1>3
<1> QED
  BY <1>4 DEF d

(* How far a worker can read.                                              *)
LEMMA ReaderLimit ==
  ASSUME Nums, Buffers, NEW w \in Workers, pc[w] \in {"parse", "retrieve"},
         NEW j, j = job[w], j.offset \in Nat
  PROVE  /\ Limit(w, j) \in Nat /\ j.offset <= Limit(w, j) /\ Limit(w, j) <= tail_offs
         /\ Eof(w, j) \in BOOLEAN
<1>1. ReadsFrom(j, blk[w], tail_offs)
  BY DEF Buffers, InputInHand
<1>2. CASE blk[w] = NULL
  BY <1>1, <1>2 DEF Limit, Eof, ReadsFrom
<1>3. CASE blk[w] # NULL
  <2>1. blk[w] \in InBlk /\ End(blk[w]) <= tail_offs
    BY <1>3 DEF Buffers, Held
  <2>2. End(blk[w]) \in Nat /\ j.offset < End(blk[w])
    BY <1>1, <1>3, <2>1, InBlkOf DEF ReadsFrom
  <2> QED
    BY <1>3, <2>1, <2>2 DEF Limit, Eof
<1> QED
  BY <1>2, <1>3

(***************************************************************************)
(* The scanners, while others work.                                        *)
(***************************************************************************)
LEMMA ScannersKeep ==
  ASSUME Scanners, scan_q' \in Seq(Bits), Sorted(scan_q'), ToSet(scan_q') \subseteq ToSet(scan_q),
         ToSet(input_q') \subseteq ToSet(input_q),
         \A x \in ToSet(scan_q'), b \in ToSet(input_q) : ScansIn(x, b) => b \in ToSet(input_q'),
         At({"scan"})' \subseteq At({"scan"}),
         \A v \in At({"scan"})' : job'[v] = job[v] /\ blk'[v] = blk[v],
         Bases(unord_q') \subseteq Bases(unord_q)
  PROVE  Scanners'
<1> DEFINE B == Bases(unord_q)
           B2 == Bases(unord_q')
<1>1. \A x, b : FoundBehind(x, b, B) => FoundBehind(x, b, B2)
  BY DEF FoundBehind
<1>2. Bases(unord_q)' = B2
  BY DEF Bases
<1>3. \A x \in ToSet(scan_q) : \E b \in ToSet(input_q) : ScansIn(x, b) /\ FoundBehind(x, b, B)
  BY DEF Scanners
<1>4. \A w \in At({"scan"}) :
        /\ ScansIn(job[w], blk[w]) /\ FoundBehind(job[w], blk[w], B)
        /\ job[w].skip \in Nat
  BY DEF Scanners
<1> HIDE DEF B, B2
<1>5. \A x \in ToSet(scan_q') : \E b \in ToSet(input_q') : ScansIn(x, b) /\ FoundBehind(x, b, B2)
  BY <1>1, <1>3
<1>6. \A w \in At({"scan"})' :
        /\ ScansIn(job'[w], blk'[w]) /\ FoundBehind(job'[w], blk'[w], B2)
        /\ job'[w].skip \in Nat
  BY <1>1, <1>4
<1>7. \A b \in ToSet(input_q') :
        /\ \A x, y \in ToSet(scan_q') : ScansIn(x, b) /\ ScansIn(y, b) => x = y
        /\ \A x \in ToSet(scan_q'), w \in At({"scan"})' : ScansIn(x, b) => blk'[w] # b
  BY DEF Scanners
<1>8. \A v, w \in At({"scan"})' : blk'[v] = blk'[w] => v = w
  BY DEF Scanners
<1>9. /\ (\A x \in ToSet(scan_q) :
            \E b \in ToSet(input_q) : ScansIn(x, b) /\ FoundBehind(x, b, Bases(unord_q)))'
      /\ (\A w \in At({"scan"}) :
            /\ ScansIn(job[w], blk[w]) /\ FoundBehind(job[w], blk[w], Bases(unord_q))
            /\ job[w].skip \in Nat)'
  BY <1>2, <1>5, <1>6 DEF ScansIn, FoundBehind
<1> QED
  BY <1>7, <1>8, <1>9 DEF Scanners, ScansIn

(***************************************************************************)
(* One master, and input for every task.                                   *)
(***************************************************************************)
LEMMA MasterParts ==
  ASSUME MasterInv
  PROVE  /\ Nums /\ Buffers /\ SourceSteady /\ stream \in Streams /\ StreamOK(stream)
         /\ DOMAIN job = Workers /\ Chain(input_q, head_offs, tail_offs)
<1>1. SourceSteady /\ Chain(input_q, head_offs, tail_offs) /\ Held /\ Referred /\ InputInHand
  BY DEF MasterInv
<1> QED
  BY <1>1, StreamsOK DEF SourceSteady, Nums, Buffers, Held

LEMMA MasterWorking ==
  ASSUME MasterInv, ~ parsing_done
  PROVE  /\ ParserPlaced /\ Retrievers /\ Mastered /\ Scanners
         /\ OnePerPattern /\ retr_q \in Seq(RetrBlk) /\ unord_q \in Seq(UnordPos) /\ Sorted(unord_q)
         /\ Work(stream, Jobs, Bases(unord_q), ublk, parser_bs.pos[1], tail_offs)
         /\ PlaceOK(stream, parser_bs, tail_offs) /\ head_offs <= parser_bs.offset
         /\ parser_bs \in Bits /\ parser_bs.pos[1] \in Nat /\ parser_bs.offset \in Nat
         /\ Exclusive(stream, Jobs, parser_bs, parse_token, At({"parse"}))
<1>1. ParserPlaced /\ Retrievers /\ Mastered /\ Scanners
  BY DEF MasterInv
<1>2. parser_bs \in Bits
  BY <1>1 DEF ParserPlaced, PlaceOK
<1> QED
  BY <1>1, <1>2 DEF ParserPlaced, PlaceOK, Retrievers, Mastered, UnordPos, Bits, UnitPos

LEMMA MasterAgain ==
  ASSUME SourceSteady', Buffers',
         ~ parsing_done' => ParserPlaced' /\ Retrievers' /\ Mastered' /\ Scanners',
         parsing_done' => Finished'
  PROVE  MasterInv'
  BY DEF MasterInv, Buffers

(* Sorted places of scanners are in the order of their words.              *)
LEMMA ScansInOrder ==
  ASSUME Scanners
  PROVE  /\ \A x \in ToSet(scan_q) : x \in Bits /\ x.offset \in Nat /\ x.offset = Words(x.pos[1])
                                     /\ x.pos[1] \in Nat /\ x.pos \in UnitPos
         /\ \A i, j \in 1 .. Len(scan_q) : i < j => scan_q[i].offset <= scan_q[j].offset
<1>1. /\ scan_q \in Seq(Bits) /\ Sorted(scan_q)
      /\ \A x \in ToSet(scan_q) : x.offset = Words(x.pos[1])
  BY DEF Scanners, ScansIn
<1>2. /\ Len(scan_q) \in Nat /\ ToSet(scan_q) \subseteq Bits
      /\ \A i \in 1 .. Len(scan_q) : scan_q[i] \in ToSet(scan_q)
  BY <1>1, ToSetOf
<1>3. \A x \in ToSet(scan_q) : x \in Bits /\ x.offset \in Nat /\ x.offset = Words(x.pos[1])
                               /\ x.pos[1] \in Nat /\ x.pos \in UnitPos /\ x.pos[2] = 0
  BY <1>1, <1>2 DEF Bits, UnitPos
<1>4. ASSUME NEW i \in 1 .. Len(scan_q), NEW j \in 1 .. Len(scan_q), i < j
      PROVE  scan_q[i].offset <= scan_q[j].offset
  <2> DEFINE a == scan_q[i]
             b == scan_q[j]
  <2>1. pos_lt(a.pos, b.pos)
    BY <1>1, <1>4 DEF Sorted
  <2>2. a \in ToSet(scan_q) /\ b \in ToSet(scan_q)
    BY <1>2
  <2> HIDE DEF a, b
  <2>3. a.pos[1] \in Nat /\ b.pos[1] \in Nat /\ a.pos[1] <= b.pos[1]
    BY <1>3, <2>1, <2>2 DEF pos_lt
  <2>4. Words(a.pos[1]) <= Words(b.pos[1])
    BY <2>3, WordsGrow
  <2>5. a.offset <= b.offset
    BY <1>3, <2>2, <2>4
  <2> QED
    BY <2>5 DEF a, b
<1> QED
  BY <1>3, <1>4

(***************************************************************************)
(* The master comes to bs.                                                 *)
(***************************************************************************)
LEMMA AdvanceStep ==
  ASSUME MasterInv, ~ parsing_done, NEW w \in Workers, NEW t, Step(w, t), t \notin Readers3,
         NEW bs, NEW more, Advance(w, bs, more),
         PlaceOK(stream, bs, tail_offs), head_offs <= bs.offset,
         eof' = eof, At({"parse"})' = {}, Bases(unord_q') \subseteq Bases(unord_q)
  PROVE  /\ SourceSteady' /\ Buffers' /\ ParserPlaced' /\ Scanners'
         /\ UNCHANGED <<stream, tail_offs>> /\ parser_bs' = bs
         /\ head_offs' \in Nat /\ head_offs' <= bs.offset
         /\ bs \in Bits /\ bs.pos[1] \in Nat /\ bs.offset \in Nat
<1>1. bs \in Bits /\ bs.pos[1] \in Nat /\ bs.offset \in Nat
  BY DEF PlaceOK, Bits, UnitPos
<1>2. Nums /\ Buffers /\ SourceSteady /\ Chain(input_q, head_offs, tail_offs) /\ Scanners
  BY MasterParts, MasterWorking
<1>3. /\ parser_bs' = bs /\ head_offs' <= bs.offset
      /\ input_q' # <<>> => bs.offset < End(input_q'[1])
      /\ scan_q' = Kept(scan_q)
      /\ \E n : Gives(w, n)
  BY <1>1, <1>2, AdvanceGives
<1>4. PICK n : Gives(w, n)
  BY <1>3
<1>5. /\ Nums' /\ head_offs <= head_offs' /\ tail_offs' = tail_offs
      /\ ToSet(input_q') = {b \in ToSet(input_q) : head_offs' <= b.offset}
      /\ \A b \in ToSet(input_q) \ ToSet(input_q') : End(b) <= head_offs'
  BY <1>2, <1>4, GivesChain
<1>6. Alone(w)
  BY StepEffect
<1>7. pc'[w] \notin Readers3 /\ DOMAIN job' = Workers
  BY DEF Step
<1>8. Buffers' /\ \A v \in Workers \ {w} : blk'[v] = blk[v]
  BY <1>2, <1>4, <1>6, <1>7, ReleaseStep, ReleaseHeld
<1>9. /\ UNCHANGED <<stream, tail_offs, file_len, ispec_total, avail>>
      /\ source' = source \/ (source = "stalled" /\ source' = "top")
  <2>1. ReleaseRefs({input_q[i] : i \in 1 .. Passed(bs)}, w, FALSE)
    BY DEF Advance
  <2> QED
    BY <2>1 DEF ReleaseRefs
<1>10. SourceSteady'
  BY <1>2, <1>5, <1>9, SteadyStays
<1>11. ParserPlaced'
  <2>1. PlaceOK(stream', parser_bs', tail_offs')
    BY <1>3, <1>9
  <2>2. PlaceOK(stream, parser_bs, tail_offs)'
    BY <2>1
  <2>3. \A v \in Workers : pc'[v] # "parse"
    BY DEF At
  <2> QED
    BY <1>3, <2>2, <2>3 DEF ParserPlaced
<1>12. Scanners'
  <2>1. scan_q \in Seq(Bits) /\ Sorted(scan_q)
    BY <1>2 DEF Scanners
  <2>2. \A x \in Bits : x.offset \in Nat
    BY DEF Bits
  <2>3. /\ \A x \in ToSet(scan_q) : x.offset \in Nat
        /\ \A i, j \in 1 .. Len(scan_q) : i < j => scan_q[i].offset <= scan_q[j].offset
    BY <1>2, ScansInOrder
  <2>4. /\ scan_q' \in Seq(Bits) /\ Sorted(scan_q') /\ ToSet(scan_q') \subseteq ToSet(scan_q)
        /\ \A x \in ToSet(scan_q') : head_offs' <= x.offset
    BY <1>3, <1>5, <2>1, <2>2, <2>3, KeptSet DEF Nums
  <2>5. ASSUME NEW x \in ToSet(scan_q'), NEW b \in ToSet(input_q), ScansIn(x, b)
        PROVE  b \in ToSet(input_q')
    <3>1. head_offs' <= x.offset /\ x.offset < End(b) /\ x.offset \in Nat /\ head_offs' \in Nat
      BY <1>5, <2>3, <2>4, <2>5 DEF ScansIn, Nums
    <3>2. End(b) \in Nat
      BY <1>2, ChainMembers, InBlkOf DEF Nums
    <3>3. ~ (End(b) <= head_offs')
      BY <3>1, <3>2
    <3> QED
      BY <1>5, <3>3
  <2>6. At({"scan"})' \subseteq At({"scan"}) \ {w}
    BY StepEffect DEF Readers3
  <2>7. \A v \in At({"scan"})' : job'[v] = job[v] /\ blk'[v] = blk[v]
    <3>1. At({"scan"})' \subseteq Workers \ {w}
      BY <2>6 DEF At
    <3> QED
      BY <1>8, <3>1 DEF Step
  <2>8. ToSet(input_q') \subseteq ToSet(input_q)
    BY <1>5
  <2> QED
    BY <1>2, <2>4, <2>5, <2>6, <2>7, <2>8, ScannersKeep
<1> QED
  BY <1>1, <1>3, <1>5, <1>8, <1>9, <1>10, <1>11, <1>12 DEF Nums

(* Somebody who is not the master has read.                                *)
LEMMA DetachStep ==
  ASSUME MasterInv, NEW w \in Workers, NEW t, Step(w, t), t \notin Readers3,
         Detach(w), eof' = eof
  PROVE  /\ SourceSteady' /\ Buffers'
         /\ UNCHANGED <<stream, input_q, head_offs, tail_offs, parser_bs>>
         /\ \A v \in Workers \ {w} : blk'[v] = blk[v]
<1>1. Nums /\ Buffers /\ SourceSteady /\ Chain(input_q, head_offs, tail_offs)
  BY MasterParts
<1>2. Gives(w, 0) /\ UNCHANGED <<input_q, head_offs, parser_bs>>
  BY <1>1, DetachGives
<1>3. Alone(w)
  BY StepEffect
<1>4. pc'[w] \notin Readers3 /\ DOMAIN job' = Workers
  BY DEF Step
<1>5. Buffers' /\ \A v \in Workers \ {w} : blk'[v] = blk[v]
  BY <1>1, <1>2, <1>3, <1>4, ReleaseStep, ReleaseHeld
<1>6. /\ UNCHANGED <<stream, tail_offs, file_len, ispec_total, avail>>
      /\ source' = source \/ (source = "stalled" /\ source' = "top")
  BY DEF Detach, ReleaseRefs
<1>7. Nums'
  BY <1>1, <1>2, <1>6 DEF Nums
<1>8. SourceSteady'
  BY <1>1, <1>6, <1>7, SteadyStays
<1> QED
  BY <1>2, <1>5, <1>6, <1>8

(* Nothing of the parser changes.                                          *)
LEMMA ParserStays ==
  ASSUME ParserPlaced, UNCHANGED <<stream, parser_bs, input_q, head_offs, tail_offs>>,
         \A v \in Workers : pc'[v] = "parse" => (pc[v] = "parse" /\ job'[v] = job[v]) \/ job'[v] = parser_bs
  PROVE  ParserPlaced'
<1>1. PlaceOK(stream, parser_bs, tail_offs)'
  <2>1. PlaceOK(stream', parser_bs', tail_offs')
    BY DEF ParserPlaced
  <2> QED
    BY <2>1
<1> QED
  BY <1>1 DEF ParserPlaced

(* Nothing of the retrievers changes.                                      *)
LEMMA RetrieversStay ==
  ASSUME Retrievers, UNCHANGED <<stream, retr_q, unord_q, ublk, parser_bs, tail_offs>>,
         At({"retrieve"})' = At({"retrieve"}), \A v \in At({"retrieve"}) : job'[v] = job[v]
  PROVE  Retrievers' /\ Jobs' = Jobs
<1>1. InHand' = InHand
  BY DEF InHand
<1>2. Jobs' = Jobs
  BY <1>1 DEF Jobs
<1>3. OnePerPattern'
  BY DEF Retrievers, OnePerPattern
<1>4. Bases(unord_q)' = Bases(unord_q)
  BY DEF Bases
<1>5. Work(stream, Jobs, Bases(unord_q), ublk, parser_bs.pos[1], tail_offs)'
  <2>1. Work(stream', Jobs', Bases(unord_q)', ublk', parser_bs'.pos[1], tail_offs')
    BY <1>2, <1>4 DEF Retrievers
  <2> QED
    BY <2>1
<1> QED
  BY <1>2, <1>3, <1>5 DEF Retrievers

(* The parts of Retrievers', and of Mastered'.                             *)
LEMMA RetrieversAgain ==
  ASSUME retr_q' \in Seq(RetrBlk), OnePerPattern', unord_q' \in Seq(UnordPos), Sorted(unord_q'),
         Work(stream', Jobs', Bases(unord_q'), ublk', parser_bs'.pos[1], tail_offs')
  PROVE  Retrievers'
<1>1. Bases(unord_q)' = Bases(unord_q')
  BY DEF Bases
<1>2. Work(stream, Jobs, Bases(unord_q), ublk, parser_bs.pos[1], tail_offs)'
  BY <1>1
<1> QED
  BY <1>2 DEF Retrievers, UnordPos

LEMMA MasteredAgain ==
  ASSUME Exclusive(stream', Jobs', parser_bs', parse_token', At({"parse"})')
  PROVE  Mastered'
  BY DEF Mastered

(* One worker who parses is the master, and he alone.                      *)
LEMMA ParserIsMaster ==
  ASSUME MasterInv, NEW w \in Workers, pc[w] = "parse"
  PROVE  /\ ~ parsing_done /\ job[w] = parser_bs /\ At({"parse"}) = {w} /\ parse_token = FALSE
         /\ Reached(stream, Jobs, parser_bs.pos[1]) = {}
         /\ ReadsFrom(parser_bs, blk[w], tail_offs)
<1>1. w \in At({"parse"})
  BY DEF At
<1>2. ~ parsing_done
  BY <1>1 DEF MasterInv, Finished
<1>3. ParserPlaced /\ Mastered
  BY <1>2, MasterWorking
<1>4. job[w] = parser_bs
  BY <1>3 DEF ParserPlaced
<1>5. At({"parse"}) = {w} /\ ~ parse_token /\ Reached(stream, Jobs, parser_bs.pos[1]) = {}
  BY <1>1, <1>3 DEF Mastered, Exclusive
<1>6. ReadsFrom(parser_bs, blk[w], tail_offs)
  BY <1>4, MasterParts DEF Buffers, InputInHand
<1> QED
  BY <1>2, <1>4, <1>5, <1>6

LEMMA StepAway ==
  ASSUME NEW w \in Workers, NEW t, Step(w, t), t \notin Readers3
  PROVE  /\ Alone(w) /\ DOMAIN job' = Workers /\ pc'[w] = t
         /\ At({"parse"})' = At({"parse"}) \ {w} /\ At({"retrieve"})' = At({"retrieve"}) \ {w}
         /\ At({"scan"})' = At({"scan"}) \ {w}
<1>1. /\ Alone(w)
      /\ \A s \in Readers3 : At({s})' = IF t = s THEN At({s}) \cup {w} ELSE At({s}) \ {w}
  BY StepEffect
<1>2. t # "parse" /\ t # "retrieve" /\ t # "scan"
  BY DEF Readers3
<1> QED
  BY <1>1, <1>2 DEF Readers3, Step

(***************************************************************************)
(* The parser.                                                             *)
(***************************************************************************)
LEMMA DoParseKeeps ==
  ASSUME CountInv, MasterInv, NEW w \in Workers, DoParse(w)
  PROVE  MasterInv'
<1>1. can_parse /\ pc[w] = "loop"
  BY TaskReady DEF CountInv, DoParse, AtTask
<1>2. ~ parsing_done /\ parse_token /\ can_attach(parser_bs)
  BY <1>1 DEF can_parse
<1>3. Nums /\ Buffers /\ SourceSteady /\ DOMAIN job = Workers
  BY MasterParts
<1>4. /\ ParserPlaced /\ Retrievers /\ Mastered /\ Scanners
      /\ head_offs <= parser_bs.offset /\ parser_bs.offset \in Nat
      /\ Exclusive(stream, Jobs, parser_bs, parse_token, At({"parse"}))
  BY <1>2, MasterWorking
<1>5. /\ job' = [job EXCEPT ![w] = parser_bs] /\ Attach(w, parser_bs) /\ parse_token' = FALSE
      /\ UNCHANGED <<sourceVars, eof, stream, input_q, head_offs, tail_offs, scan_q, retr_q,
                     unord_q, ublk, parsing_done, parser_bs>>
      /\ Moves(w, "parse")
  BY DEF DoParse, queueVars, unordVars, Moves, WorkerStates
<1>6. job'[w] = parser_bs /\ job' = [job EXCEPT ![w] = job'[w]]
  BY <1>3, <1>5
<1>7. Step(w, "parse")
  BY <1>3, <1>5, <1>6, MovesStep
<1>8. /\ Alone(w) /\ DOMAIN job' = Workers /\ pc'[w] = "parse"
      /\ At({"parse"})' = At({"parse"}) \cup {w}
      /\ At({"retrieve"})' = At({"retrieve"}) \ {w} /\ At({"scan"})' = At({"scan"}) \ {w}
  BY <1>7, StepEffect DEF Step, Readers3
<1>9. w \notin At({"retrieve"}) /\ w \notin At({"scan"})
  BY <1>1 DEF At
<1>10. Buffers' /\ \A v \in Workers \ {w} : blk'[v] = blk[v]
  <2>1. pc[w] \notin Readers3 /\ pc'[w] \in Readers3 /\ pc'[w] # "scan"
    BY <1>1, <1>8 DEF Readers3
  <2> QED
    BY <1>2, <1>3, <1>4, <1>5, <1>6, <1>8, <2>1, AttachStep
<1>11. SourceSteady'
  <2>1. Nums' /\ UNCHANGED <<source, file_len, ispec_total, avail>>
    BY <1>3, <1>5 DEF Nums, sourceVars
  <2> QED
    BY <1>3, <1>5, <2>1, SteadyStays
<1>12. ParserPlaced'
  <2>1. \A v \in Workers :
          pc'[v] = "parse" => (pc[v] = "parse" /\ job'[v] = job[v]) \/ job'[v] = parser_bs
    BY <1>6, <1>7 DEF Step
  <2> QED
    BY <1>4, <1>5, <2>1, ParserStays
<1>13. Retrievers' /\ Jobs' = Jobs
  <2>1. At({"retrieve"})' = At({"retrieve"})
    BY <1>8, <1>9
  <2>2. \A v \in At({"retrieve"}) : job'[v] = job[v]
    BY <1>7, <1>9 DEF Step, At
  <2> QED
    BY <1>4, <1>5, <2>1, <2>2, RetrieversStay
<1>14. Mastered'
  <2>1. At({"parse"})' = {w} /\ Reached(stream, Jobs, parser_bs.pos[1]) = {}
    BY <1>2, <1>4, <1>8 DEF Exclusive
  <2>2. Exclusive(stream, Jobs, parser_bs, FALSE, {w})
    BY <2>1 DEF Exclusive
  <2>3. Exclusive(stream', Jobs', parser_bs', parse_token', At({"parse"})')
    BY <1>5, <1>13, <2>1, <2>2
  <2> QED
    BY <2>3, MasteredAgain
<1>15. Scanners'
  <2>1. At({"scan"})' \subseteq At({"scan"}) /\ \A v \in At({"scan"})' : v \in Workers \ {w}
    BY <1>8 DEF At
  <2>2. \A v \in At({"scan"})' : job'[v] = job[v] /\ blk'[v] = blk[v]
    BY <1>7, <1>10, <2>1 DEF Step
  <2>3. scan_q' \in Seq(Bits) /\ Sorted(scan_q')
    BY <1>4, <1>5 DEF Scanners
  <2> QED
    BY <1>4, <1>5, <2>1, <2>2, <2>3, ScannersKeep
<1> QED
  BY <1>2, <1>5, <1>10, <1>11, <1>12, <1>13, <1>14, <1>15, MasterAgain

(* What parse() has done when it returns.                                  *)
LEMMA ParserReturns ==
  ASSUME CountInv, MasterInv, NEW w \in Workers, pc[w] = "parse", NEW r, r = Parsed(w)
  PROVE  /\ ~ parsing_done /\ w \notin At({"retrieve"}) /\ At({"parse"}) = {w}
         /\ parse_token = FALSE
         /\ Reached(stream, Jobs, parser_bs.pos[1]) = {}
         /\ r.rv = "MORE" =>
              /\ PlaceOK(stream, r.bs, tail_offs)
              /\ parser_bs.offset <= r.bs.offset /\ parser_bs.pos[1] <= r.bs.pos[1]
              /\ NoBlockUpTo(stream, parser_bs.pos[1], r.bs.pos[1])
         /\ r.rv = "OK" =>
              \E u \in RealBases(stream) :
                /\ r.bs = BitsAt(u, Words(u)) /\ Loaded(u, Words(u), tail_offs)
                /\ parser_bs.offset <= Words(u) /\ parser_bs.pos[1] < u
                /\ \A v \in RealBases(stream) : parser_bs.pos[1] < v => u <= v
<1>1. /\ ~ parsing_done /\ job[w] = parser_bs /\ At({"parse"}) = {w} /\ parse_token = FALSE
      /\ Reached(stream, Jobs, parser_bs.pos[1]) = {}
  BY ParserIsMaster
<1>2. Nums /\ Buffers /\ StreamOK(stream)
  BY MasterParts
<1>3. PlaceOK(stream, parser_bs, tail_offs) /\ parser_bs.offset \in Nat
  BY <1>1, MasterWorking
<1> DEFINE limit == Limit(w, parser_bs)
           done == Eof(w, parser_bs)
<1>4. /\ limit \in Nat /\ parser_bs.offset <= limit /\ limit <= tail_offs /\ done \in BOOLEAN
  BY <1>1, <1>2, <1>3, ReaderLimit
<1>5. r = Parse(stream, parser_bs, limit, done)
  BY <1>1 DEF Parsed
<1> HIDE DEF limit, done
<1>6. w \notin At({"retrieve"})
  BY DEF At
<1> DEFINE s == stream
           bs == parser_bs
           tail == tail_offs
<1>7. tail \in Nat /\ StreamOK(s) /\ PlaceOK(s, bs, tail) /\ bs.offset <= limit /\ limit <= tail
      /\ r = Parse(s, bs, limit, done)
  BY <1>2, <1>3, <1>4, <1>5 DEF Nums
<1> HIDE DEF s, bs, tail
<1>8. /\ r.rv = "MORE" =>
              /\ PlaceOK(s, r.bs, tail)
              /\ bs.offset <= r.bs.offset /\ bs.pos[1] <= r.bs.pos[1]
              /\ \A v \in RealBases(s) : bs.pos[1] < v => r.bs.pos[1] < v
      /\ r.rv = "OK" =>
              \E u \in RealBases(s) :
                /\ r.bs = BitsAt(u, Words(u)) /\ Loaded(u, Words(u), tail)
                /\ bs.offset <= Words(u) /\ bs.pos[1] < u
                /\ \A v \in RealBases(s) : bs.pos[1] < v => u <= v
  BY <1>4, <1>7, ParseGoesOn
<1> QED
  BY <1>1, <1>6, <1>8 DEF s, bs, tail, NoBlockUpTo

LEMMA ParseMoreKeeps ==
  ASSUME CountInv, MasterInv, NEW w \in Workers, ParseMore(w)
  PROVE  MasterInv'
<1> DEFINE r == Parsed(w)
           bs == r.bs
           p == parser_bs.pos[1]
           K == Kept(retr_q)
           J0 == ToSet(K) \cup RestInHand(w)
<1>1. /\ pc[w] = "parse" /\ r.rv = "MORE" /\ Advance(w, bs, 1) /\ retr_q' = K
      /\ parse_token' = TRUE /\ job' = [job EXCEPT ![w] = NULL]
      /\ UNCHANGED <<eof, unord_q, ublk, parsing_done>>
      /\ Moves(w, "loop")
  BY DEF ParseMore, ParseReturns, unordVars, Moves, WorkerStates
<1>2. /\ ~ parsing_done /\ w \notin At({"retrieve"}) /\ At({"parse"}) = {w}
      /\ Reached(stream, Jobs, p) = {}
      /\ PlaceOK(stream, bs, tail_offs)
      /\ parser_bs.offset <= bs.offset /\ p <= bs.pos[1]
      /\ NoBlockUpTo(stream, p, bs.pos[1])
  BY <1>1, ParserReturns
<1>3. DOMAIN job = Workers /\ Nums /\ StreamOK(stream)
  BY MasterParts
<1> HIDE DEF r
<1>4. /\ OnePerPattern /\ retr_q \in Seq(RetrBlk) /\ unord_q \in Seq(UnordPos) /\ Sorted(unord_q)
      /\ Work(stream, Jobs, Bases(unord_q), ublk, p, tail_offs)
      /\ head_offs <= parser_bs.offset /\ p \in Nat /\ parser_bs.offset \in Nat
  BY <1>2, MasterWorking
<1>5. Step(w, "loop")
  <2>1. job' = [job EXCEPT ![w] = job'[w]]
    BY <1>1, <1>3
  <2> QED
    BY <1>1, <1>3, <2>1, MovesStep
<1>6. At({"parse"})' = {}
  <2>1. At({"parse"})' = At({"parse"}) \ {w}
    BY <1>5, StepAway DEF Readers3
  <2> QED
    BY <1>2, <2>1
<1>7. bs.offset \in Nat /\ head_offs <= bs.offset
  <2>1. bs.offset \in Nat
    BY <1>2 DEF PlaceOK, Bits
  <2> QED
    BY <1>2, <1>3, <1>4, <2>1 DEF Nums
<1>8. /\ SourceSteady' /\ Buffers' /\ ParserPlaced' /\ Scanners'
      /\ UNCHANGED <<stream, tail_offs>> /\ parser_bs' = bs
      /\ head_offs' \in Nat /\ head_offs' <= bs.offset /\ bs.pos[1] \in Nat
  <2>1. "loop" \notin Readers3 /\ Bases(unord_q') \subseteq Bases(unord_q)
    BY <1>1 DEF Readers3
  <2> QED
    BY <1>1, <1>2, <1>5, <1>6, <1>7, <2>1, AdvanceStep
<1>9. /\ K \in Seq(RetrBlk) /\ ToSet(K) \subseteq ToSet(retr_q) /\ NoRepeats(K)
      /\ \A x \in ToSet(retr_q) : head_offs' <= x.offset => x \in ToSet(K)
  <2>1. \A x \in RetrBlk : x.offset \in Nat
    BY DEF RetrBlk
  <2> QED
    BY <1>4, <1>8, <2>1, KeptSet DEF OnePerPattern
<1> HIDE DEF K
<1>10. J0 \subseteq Jobs /\ retr_q' \in Seq(RetrBlk) /\ OnePerPattern' /\ Jobs' = J0
  <2>1. "loop" # "retrieve"
    OBVIOUS
  <2>2. /\ J0 \subseteq RestJobs(w) /\ retr_q' \in Seq(RetrBlk) /\ OnePerPattern' /\ Jobs' = J0
    BY <1>1, <1>4, <1>5, <1>9, <2>1, RetrQueue
  <2> QED
    BY <1>2, <1>4, <2>2, RestOf
<1>11. ASSUME NEW x \in Jobs, x.base \in RealBases(stream), p < x.base PROVE x \in J0
  <2>1. x.base \in Nat /\ x.offset \in Nat /\ x.pos[1] \in Nat /\ x.base <= x.pos[1]
        /\ Words(x.pos[1]) <= x.offset
    BY <1>3, <1>4, WorkTypes DEF Loaded
  <2>2. bs.pos[1] < x.base
    BY <1>2, <1>11 DEF NoBlockUpTo
  <2>3. head_offs' <= x.offset
    BY <1>2, <1>3, <1>8, <1>11, <2>1, <2>2, JobAhead
  <2>4. x \in RestJobs(w)
    BY <1>2, <1>4, RestOf
  <2> QED
    BY <1>9, <2>3, <2>4 DEF RestJobs
<1>12. Work(stream, J0, Bases(unord_q), ublk, bs.pos[1], tail_offs)
  BY <1>2, <1>3, <1>4, <1>8, <1>10, <1>11, WorkMoves
<1>13. Retrievers'
  BY <1>1, <1>4, <1>8, <1>10, <1>12, RetrieversAgain
<1>14. Mastered'
  <2>1. \A rb \in Jobs : rb.base \in Nat
    BY <1>3, <1>4, WorkTypes
  <2>2. Reached(stream, J0, bs.pos[1]) = {}
    BY <1>2, <1>4, <1>8, <1>10, <2>1, ReachedShrinks
  <2>3. Exclusive(stream, J0, bs, TRUE, {})
    BY <2>2, TokenFree
  <2> QED
    BY <1>1, <1>6, <1>8, <1>10, <2>3, MasteredAgain
<1> QED
  BY <1>1, <1>2, <1>8, <1>13, <1>14, MasterAgain

(* The jobs that are left when worker w, who was the master, has ended its *)
(* own one (if it had one) and has come to bs.                             *)
KeptJobs(w) == ToSet(Kept(retr_q)) \cup RestInHand(w)

LEMMA MasterMoves ==
  ASSUME MasterInv, ~ parsing_done, NEW w \in Workers, NEW t, Step(w, t), t \notin Readers3,
         NEW bs, NEW more, Advance(w, bs, more),
         PlaceOK(stream, bs, tail_offs), head_offs <= bs.offset,
         eof' = eof, At({"parse"})' = {}, Bases(unord_q') \subseteq Bases(unord_q)
  PROVE  /\ SourceSteady' /\ Buffers' /\ ParserPlaced' /\ Scanners'
         /\ UNCHANGED <<stream, tail_offs>> /\ parser_bs' = bs
         /\ bs.pos[1] \in Nat /\ bs.offset \in Nat
         /\ KeptJobs(w) \subseteq RestJobs(w) /\ KeptJobs(w) \subseteq Jobs
         /\ \A x \in RestJobs(w) : bs.offset <= x.offset => x \in KeptJobs(w)
         /\ \A x \in RestJobs(w) :
              x.base \in RealBases(stream) /\ bs.pos[1] < x.base => x \in KeptJobs(w)
         /\ retr_q' = Kept(retr_q) =>
              retr_q' \in Seq(RetrBlk) /\ OnePerPattern' /\ Jobs' = KeptJobs(w)
         /\ \A e \in RetrBlk :
              retr_q' = enqueue(Kept(retr_q), e) /\ (\A x \in KeptJobs(w) : x.base # e.base) =>
                retr_q' \in Seq(RetrBlk) /\ OnePerPattern' /\ Jobs' = KeptJobs(w) \cup {e}
<1> DEFINE K == Kept(retr_q)
           J0 == KeptJobs(w)
           p == parser_bs.pos[1]
<1>1. /\ SourceSteady' /\ Buffers' /\ ParserPlaced' /\ Scanners'
      /\ UNCHANGED <<stream, tail_offs>> /\ parser_bs' = bs
      /\ head_offs' \in Nat /\ head_offs' <= bs.offset
      /\ bs \in Bits /\ bs.pos[1] \in Nat /\ bs.offset \in Nat
  BY AdvanceStep
<1>2. StreamOK(stream)
  BY MasterParts
<1>3. /\ OnePerPattern /\ retr_q \in Seq(RetrBlk)
      /\ Work(stream, Jobs, Bases(unord_q), ublk, p, tail_offs)
  BY MasterWorking
<1>4. /\ K \in Seq(RetrBlk) /\ ToSet(K) \subseteq ToSet(retr_q) /\ NoRepeats(K)
      /\ \A x \in ToSet(retr_q) : head_offs' <= x.offset => x \in ToSet(K)
  <2>1. \A x \in RetrBlk : x.offset \in Nat
    BY DEF RetrBlk
  <2> QED
    BY <1>1, <1>3, <2>1, KeptSet DEF OnePerPattern
<1>5. J0 = ToSet(K) \cup RestInHand(w)
  BY DEF KeptJobs
<1> HIDE DEF K, J0
<1>6. t # "retrieve"
  BY DEF Readers3
<1>7. /\ J0 \subseteq RestJobs(w)
      /\ retr_q' = K => retr_q' \in Seq(RetrBlk) /\ OnePerPattern' /\ Jobs' = J0
      /\ \A e \in RetrBlk :
           retr_q' = enqueue(K, e) /\ (\A x \in J0 : x.base # e.base) =>
             retr_q' \in Seq(RetrBlk) /\ OnePerPattern' /\ Jobs' = J0 \cup {e}
  BY <1>3, <1>4, <1>5, <1>6, RetrQueue
<1>8. RestJobs(w) \subseteq Jobs
  BY <1>3, RestOf
<1>9. ASSUME NEW x \in RestJobs(w)
      PROVE  x.base \in Nat /\ x.offset \in Nat /\ x.pos[1] \in Nat /\ x.base <= x.pos[1]
             /\ Words(x.pos[1]) <= x.offset
  BY <1>2, <1>3, <1>8, WorkTypes DEF Loaded
<1>10. ASSUME NEW x \in RestJobs(w), head_offs' <= x.offset PROVE x \in J0
  BY <1>4, <1>5, <1>10 DEF RestJobs
<1>11. ASSUME NEW x \in RestJobs(w), bs.offset <= x.offset PROVE x \in J0
  <2>1. x.offset \in Nat
    BY <1>9
  <2>2. head_offs' <= x.offset
    BY <1>1, <1>11, <2>1
  <2> QED
    BY <1>10, <2>2
<1>12. ASSUME NEW x \in RestJobs(w), x.base \in RealBases(stream), bs.pos[1] < x.base
       PROVE  x \in J0
  <2>1. head_offs' <= x.offset
    BY <1>1, <1>2, <1>9, <1>12, JobAhead
  <2> QED
    BY <1>10, <2>1
<1> QED
  BY <1>1, <1>7, <1>8, <1>11, <1>12 DEF K, J0

(* What Rejected() does to those who are overtaken, and to nobody else.    *)
LEMMA RejectedOnly ==
  ASSUME NEW over, \A x \in DOMAIN ublk : ublk[x] \in UnordBlk, NEW ub, ub = Rejected(over)
  PROVE  /\ DOMAIN ub \subseteq DOMAIN ublk /\ \A x \in DOMAIN ub : ub[x] \in UnordBlk
         /\ \A x \in DOMAIN ublk :
              /\ x \in over /\ ~ ublk[x].complete =>
                   x \in DOMAIN ub /\ ub[x].complete /\ ~ ub[x].legitimate
              /\ x \notin over => x \in DOMAIN ub /\ ub[x] = ublk[x]
<1>1. DOMAIN ub = {v \in DOMAIN ublk : ~ (v \in over /\ ublk[v].complete)}
  BY DEF Rejected
<1>2. ASSUME NEW x \in DOMAIN ub
      PROVE  ub[x] = IF x \in over THEN [ublk[x] EXCEPT !.complete = TRUE, !.legitimate = FALSE]
                     ELSE ublk[x]
  BY DEF Rejected
<1>3. ASSUME NEW x \in DOMAIN ub, x \in over
      PROVE  ub[x] \in UnordBlk /\ ub[x].complete /\ ~ ub[x].legitimate
  <2>1. ublk[x] \in UnordBlk /\ ub[x] = [ublk[x] EXCEPT !.complete = TRUE, !.legitimate = FALSE]
    BY <1>1, <1>2, <1>3
  <2> QED
    BY <2>1 DEF UnordBlk
<1>4. \A x \in DOMAIN ub : x \notin over => ub[x] = ublk[x] /\ ub[x] \in UnordBlk
  BY <1>1, <1>2
<1> QED
  BY <1>1, <1>3, <1>4

LEMMA ParseUniqueKeeps ==
  ASSUME CountInv, MasterInv, NEW w \in Workers, ParseUnique(w)
  PROVE  MasterInv'
<1> DEFINE r == Parsed(w)
           p == parser_bs.pos[1]
           B == Bases(unord_q)
           J0 == KeptJobs(w)
<1>1. PICK u \in RealBases(stream) :
        /\ r.bs = BitsAt(u, Words(u)) /\ Loaded(u, Words(u), tail_offs)
        /\ parser_bs.offset <= Words(u) /\ p < u
        /\ \A v \in RealBases(stream) : p < v => u <= v
  <2>1. pc[w] = "parse" /\ r.rv = "OK"
    BY DEF ParseUnique, BlockParsed, ParseReturns
  <2> QED
    BY <2>1, ParserReturns
<1>2. /\ ~ parsing_done /\ w \notin At({"retrieve"}) /\ At({"parse"}) = {w}
      /\ parse_token = FALSE /\ Reached(stream, Jobs, p) = {}
  <2>1. pc[w] = "parse"
    BY DEF ParseUnique, BlockParsed, ParseReturns
  <2> QED
    BY <2>1, ParserReturns
<1>3. Nums /\ StreamOK(stream) /\ DOMAIN job = Workers
  BY MasterParts
<1> DEFINE z == Pattern(stream, u).stop
           n == Pattern(stream, u).need
           o == Words(u)
           bs == BitsAt(u, o)
           e == [pos |-> bs.pos, offset |-> bs.offset, base |-> bs.pos[1], link |-> NULL]
<1>4. /\ u \in PatternBases(stream) /\ u \in Nat /\ z \in Nat /\ n \in Nat /\ o \in Nat
      /\ u < z /\ o <= n
  <2>1. u \in PatternBases(stream) /\ u \in Nat
    BY <1>3, RealOf
  <2>2. z \in Nat /\ n \in Nat /\ u < z /\ Words(z) <= n /\ o \in Nat /\ Words(z) \in Nat
    BY <1>3, <2>1, PatternOf, WordsOf
  <2>3. o <= Words(z)
    BY <2>1, <2>2, WordsGrow
  <2> HIDE DEF o, n, z
  <2>4. o <= n
    BY <2>2, <2>3
  <2> QED
    BY <2>1, <2>2, <2>4
<1>5. bs \in Bits /\ bs.pos = <<u, 0>> /\ bs.pos \in UnitPos /\ bs.pos[1] = u /\ bs.offset = o
  BY <1>4, BitsAtOf
<1>6. /\ u \notin B /\ Advance(w, bs, 0) /\ retr_q' = enqueue(Kept(retr_q), e)
      /\ unord_q' = Remaining(unord_q, bs.pos)
      /\ ublk' = Rejected(Bases(Overtaken(unord_q, bs.pos)))
      /\ job' = [job EXCEPT ![w] = NULL] /\ UNCHANGED <<eof, parsing_done, parse_token>>
      /\ Moves(w, "loop")
  <2>1. r.bs = bs
    BY <1>1
  <2> QED
    BY <1>5, <2>1 DEF ParseUnique, BlockParsed, Moves, WorkerStates
<1> HIDE DEF r, o, bs, z, n
<1>7. /\ OnePerPattern /\ unord_q \in Seq(UnordPos) /\ Sorted(unord_q)
      /\ Work(stream, Jobs, B, ublk, p, tail_offs)
      /\ head_offs <= parser_bs.offset /\ p \in Nat /\ parser_bs.offset \in Nat
  BY <1>2, MasterWorking
<1>8. Step(w, "loop") /\ At({"parse"})' = {}
  <2>1. job' = [job EXCEPT ![w] = job'[w]]
    BY <1>3, <1>6
  <2>2. Step(w, "loop")
    BY <1>3, <1>6, <2>1, MovesStep
  <2>3. At({"parse"})' = At({"parse"}) \ {w}
    BY <2>2, StepAway DEF Readers3
  <2> QED
    BY <1>2, <2>2, <2>3
<1>9. PlaceOK(stream, bs, tail_offs) /\ NoBlockUpTo(stream, u, u)
  <2>1. u <= u /\ u <= z /\ Loaded(u, o, tail_offs)
    BY <1>1, <1>4 DEF o
  <2> QED
    BY <1>3, <1>4, <2>1, PlaceInBlock DEF bs, z, NoBlockUpTo
<1>10. /\ Bases(unord_q') = {v \in B : u < v} /\ Bases(Overtaken(unord_q, bs.pos)) = {v \in B : v < u}
       /\ unord_q' \in Seq(UnordPos) /\ Sorted(unord_q')
  <2> DEFINE pos == <<u, 0>>
  <2>1. pos = <<u, 0>> /\ bs.pos = pos
    BY <1>5
  <2> HIDE DEF pos
  <2>2. /\ Bases(Remaining(unord_q, pos)) = {v \in Bases(unord_q) : u < v}
        /\ Bases(Overtaken(unord_q, pos)) = {v \in Bases(unord_q) : v < u}
        /\ Remaining(unord_q, pos) \in Seq(UnordPos) /\ Sorted(Remaining(unord_q, pos))
    BY <1>4, <1>7, <2>1, BasesSplit
  <2> QED
    BY <1>6, <2>1, <2>2
<1>11. head_offs <= bs.offset
  BY <1>1, <1>3, <1>4, <1>5, <1>7 DEF Nums, o
<1>12. /\ SourceSteady' /\ Buffers' /\ ParserPlaced' /\ Scanners'
       /\ UNCHANGED <<stream, tail_offs>> /\ parser_bs' = bs
       /\ J0 \subseteq Jobs
       /\ \A x \in RestJobs(w) :
            x.base \in RealBases(stream) /\ bs.pos[1] < x.base => x \in J0
       /\ \A d \in RetrBlk :
            retr_q' = enqueue(Kept(retr_q), d) /\ (\A x \in J0 : x.base # d.base) =>
              retr_q' \in Seq(RetrBlk) /\ OnePerPattern' /\ Jobs' = J0 \cup {d}
  <2>1. "loop" \notin Readers3 /\ Bases(unord_q') \subseteq Bases(unord_q)
    BY <1>10 DEF Readers3
  <2> QED
    BY <1>2, <1>6, <1>8, <1>9, <1>11, <2>1, MasterMoves
<1> HIDE DEF J0
<1>13. \A x \in Jobs : x.base \in Nat /\ x.base # u
  <2> SUFFICES ASSUME NEW x \in Jobs PROVE x.base \in Nat /\ x.base # u
    OBVIOUS
  <2>1. x.base \in Nat /\ (Pending(x, B, ublk) \/ Judged(stream, x, B, ublk, p))
    BY <1>3, <1>7, WorkTypes
  <2> QED
    BY <1>1, <1>4, <1>6, <1>7, <2>1 DEF Pending, Judged
<1>14. /\ e \in RetrBlk /\ e.base = u /\ e.pos[1] = u /\ e.offset = o /\ e.link = NULL
  BY <1>4, <1>5 DEF RetrBlk
<1> HIDE DEF e
<1>15. retr_q' \in Seq(RetrBlk) /\ OnePerPattern' /\ Jobs' = J0 \cup {e}
  BY <1>6, <1>12, <1>13, <1>14
<1>16. Work(stream, J0, Bases(unord_q'), ublk', u, tail_offs)
  <2>1. \A x \in DOMAIN ublk : ublk[x] \in UnordBlk /\ x \in Nat
    BY <1>3, <1>7, WorkTypes
  <2>2. ublk' = Rejected({v \in B : v < u})
    BY <1>6, <1>10
  <2>3. JudgedTo(ublk', ublk, B, u)
    <3> DEFINE over == {v \in B : v < u}
    <3>1. /\ DOMAIN ublk' \subseteq DOMAIN ublk /\ \A x \in DOMAIN ublk' : ublk'[x] \in UnordBlk
          /\ \A x \in DOMAIN ublk :
               /\ x \in over /\ ~ ublk[x].complete =>
                    x \in DOMAIN ublk' /\ ublk'[x].complete /\ ~ ublk'[x].legitimate
               /\ x \notin over => x \in DOMAIN ublk' /\ ublk'[x] = ublk[x]
      BY <2>1, <2>2, RejectedOnly
    <3>2. \A x \in DOMAIN ublk : x \in over <=> x \in B /\ x < u
      OBVIOUS
    <3> HIDE DEF over, B
    <3> QED
      BY <1>6, <3>1, <3>2 DEF JudgedTo
  <2>4. ASSUME NEW x \in Jobs, x.base \in RealBases(stream), p < x.base PROVE x \in J0
    <3>1. u <= x.base /\ x.base # u /\ x.base \in Nat
      BY <1>1, <1>13, <2>4
    <3>2. bs.pos[1] < x.base /\ x \in RestJobs(w)
      BY <1>2, <1>4, <1>5, <1>7, <3>1, RestOf
    <3> QED
      BY <1>12, <2>4, <3>2
  <2> QED
    BY <1>1, <1>3, <1>7, <1>10, <1>12, <2>3, <2>4, WorkJudged
<1>17. Work(stream, J0 \cup {e}, Bases(unord_q'), ublk', u, tail_offs)
  <2>1. JobOK(stream, e, tail_offs)
    BY <1>1, <1>4, <1>14 DEF JobOK, o, n, z
  <2>2. Judged(stream, e, Bases(unord_q'), ublk', u)
    BY <1>4, <1>10, <1>14 DEF Judged
  <2> QED
    BY <1>16, <2>1, <2>2, WorkJoins
<1>18. Retrievers'
  BY <1>5, <1>10, <1>12, <1>15, <1>17, RetrieversAgain
<1>19. Mastered'
  <2>1. Reached(stream, J0 \cup {e}, u) = {e}
    <3>1. ASSUME NEW x \in J0, x.base \in RealBases(stream), x.base <= u PROVE FALSE
      <4>1. x \in Jobs /\ x.base \in Nat /\ x.base # u
        BY <1>12, <1>13
      <4>2. x.base <= p
        BY <1>1, <1>4, <1>7, <3>1, <4>1
      <4> QED
        BY <1>2, <3>1, <4>1, <4>2 DEF Reached
    <3>2. e.base \in RealBases(stream) /\ e.base <= u
      BY <1>4, <1>14
    <3> QED
      BY <3>1, <3>2 DEF Reached
  <2>2. Exclusive(stream, J0 \cup {e}, bs, FALSE, {})
    <3>1. bs = BitsAt(e.pos[1], e.offset)
      BY <1>14 DEF bs
    <3> QED
      BY <1>5, <2>1, <3>1, OneRetriever
  <2>3. parse_token' = FALSE
    BY <1>2, <1>6
  <2> QED
    BY <1>8, <1>12, <1>15, <2>2, <2>3, MasteredAgain
<1> QED
  BY <1>2, <1>6, <1>12, <1>18, <1>19, MasterAgain

LEMMA BitsIs ==
  ASSUME NEW bs \in Bits
  PROVE  bs = BitsAt(bs.pos[1], bs.offset) /\ bs.pos[1] \in Nat /\ bs.offset \in Nat
<1>1. bs.pos \in UnitPos /\ bs.offset \in Nat /\ bs = [pos |-> bs.pos, offset |-> bs.offset]
  BY DEF Bits
<1>2. bs.pos = <<bs.pos[1], 0>> /\ bs.pos[1] \in Nat
  BY <1>1 DEF UnitPos
<1> QED
  BY <1>1, <1>2 DEF BitsAt

(* The parser comes to a pattern of unord_q.                               *)
LEMMA TakenJudged ==
  ASSUME NEW B, NEW u \in B, u \in Nat, \A x \in DOMAIN ublk : ublk[x] \in UnordBlk,
         u \in DOMAIN ublk, NEW judged, judged = Rejected({v \in B : v < u}), NEW ub,
         IF ublk[u].complete THEN ub = [x \in DOMAIN judged \ {u} |-> judged[x]]
         ELSE ub = [judged EXCEPT ![u].complete = TRUE, ![u].legitimate = TRUE]
  PROVE  JudgedTo(ub, ublk, B, u)
<1> DEFINE over == {v \in B : v < u}
<1>1. /\ DOMAIN judged \subseteq DOMAIN ublk /\ \A x \in DOMAIN judged : judged[x] \in UnordBlk
      /\ \A x \in DOMAIN ublk :
           /\ x \in over /\ ~ ublk[x].complete =>
                x \in DOMAIN judged /\ judged[x].complete /\ ~ judged[x].legitimate
           /\ x \notin over => x \in DOMAIN judged /\ judged[x] = ublk[x]
  BY RejectedOnly
<1>2. (\A x \in DOMAIN ublk : x \in over <=> x \in B /\ x < u) /\ u \notin over
  OBVIOUS
<1>3. u \in DOMAIN judged /\ judged[u] = ublk[u]
  BY <1>1, <1>2
<1> HIDE DEF over
<1>4. CASE ublk[u].complete
  <2>1. DOMAIN ub = DOMAIN judged \ {u} /\ \A x \in DOMAIN ub : ub[x] = judged[x]
    BY <1>4
  <2> QED
    BY <1>1, <1>2, <1>4, <2>1 DEF JudgedTo
<1>5. CASE ~ ublk[u].complete
  <2>1. ub = [judged EXCEPT ![u].complete = TRUE, ![u].legitimate = TRUE]
    BY <1>5
  <2>2. DOMAIN ub = DOMAIN judged /\ \A x \in DOMAIN judged \ {u} : ub[x] = judged[x]
    BY <2>1
  <2>3. ub[u] = [judged[u] EXCEPT !.complete = TRUE, !.legitimate = TRUE]
    BY <1>3, <2>1
  <2>4. judged[u] \in UnordBlk
    BY <1>1, <1>3
  <2>5. ub[u] \in UnordBlk /\ ub[u].complete /\ ub[u].legitimate
    BY <2>3, <2>4 DEF UnordBlk
  <2>6. \A x \in DOMAIN ub : ub[x] \in UnordBlk
    BY <1>1, <2>2, <2>5
  <2>7. \A x \in DOMAIN ublk : x \in over => x # u
    BY <1>2
  <2> QED
    BY <1>1, <1>2, <1>3, <2>2, <2>5, <2>6, <2>7 DEF JudgedTo
<1> QED
  BY <1>4, <1>5

LEMMA ParseTakenKeeps ==
  ASSUME CountInv, MasterInv, NEW w \in Workers, ParseTaken(w)
  PROVE  MasterInv'
<1> DEFINE r == Parsed(w)
           p == parser_bs.pos[1]
           B == Bases(unord_q)
           J0 == KeptJobs(w)
<1>0. pc[w] = "parse" /\ r.rv = "OK"
  BY DEF ParseTaken, BlockParsed, ParseReturns
<1>1. PICK u \in RealBases(stream) :
        /\ r.bs = BitsAt(u, Words(u))
        /\ parser_bs.offset <= Words(u) /\ p < u
        /\ \A v \in RealBases(stream) : p < v => u <= v
  BY <1>0, ParserReturns
<1>2. /\ ~ parsing_done /\ w \notin At({"retrieve"}) /\ At({"parse"}) = {w}
      /\ parse_token = FALSE /\ Reached(stream, Jobs, p) = {}
  BY <1>0, ParserReturns
<1>3. Nums /\ StreamOK(stream) /\ DOMAIN job = Workers
  BY MasterParts
<1>4. u \in Nat /\ Words(u) \in Nat
  BY <1>3, RealOf, WordsOf
<1> DEFINE pos == <<u, 0>>
           judged == Rejected(Bases(Overtaken(unord_q, pos)))
           bs == ublk[u].end_pos
           q == bs.pos[1]
<1>5. /\ u \in B /\ Advance(w, bs, 1) /\ retr_q' = Kept(retr_q)
      /\ unord_q' = Remaining(unord_q, pos)
      /\ job' = [job EXCEPT ![w] = NULL] /\ UNCHANGED <<eof, parsing_done>>
      /\ Moves(w, "loop")
      /\ IF ublk[u].complete
         THEN parse_token' = TRUE /\ ublk' = [x \in DOMAIN judged \ {u} |-> judged[x]]
         ELSE /\ parse_token' = parse_token
              /\ ublk' = [judged EXCEPT ![u].complete = TRUE, ![u].legitimate = TRUE]
  <2>1. r.bs.pos = pos /\ r.bs.pos[1] = u
    BY <1>1, <1>4, BitsAtOf
  <2> QED
    BY <2>1 DEF ParseTaken, BlockParsed, Moves, WorkerStates
<1>6. /\ OnePerPattern /\ unord_q \in Seq(UnordPos) /\ Sorted(unord_q) /\ retr_q \in Seq(RetrBlk)
      /\ Work(stream, Jobs, B, ublk, p, tail_offs)
      /\ head_offs <= parser_bs.offset /\ p \in Nat /\ parser_bs.offset \in Nat
  BY <1>2, MasterWorking
<1>7. /\ PatternOK(stream, u, Jobs, ublk, p, tail_offs) /\ u \in DOMAIN ublk
      /\ \A x \in DOMAIN ublk : ublk[x] \in UnordBlk
  BY <1>3, <1>5, <1>6, WorkTypes
<1>8. /\ bs \in Bits /\ bs = BitsAt(q, bs.offset) /\ q \in Nat /\ bs.offset \in Nat
      /\ u <= q /\ q <= Pattern(stream, u).stop /\ Loaded(q, bs.offset, tail_offs)
  <2>1. bs \in Bits
    BY <1>7 DEF UnordBlk
  <2>2. EndOK(stream, u, bs, tail_offs)
    BY <1>7 DEF PatternOK
  <2> QED
    BY <2>1, <2>2, BitsIs DEF EndOK
<1>9. PlaceOK(stream, bs, tail_offs) /\ NoBlockUpTo(stream, u, q)
  <2>1. PlaceOK(stream, BitsAt(q, bs.offset), tail_offs) /\ \A v \in RealBases(stream) : u < v => q < v
    BY <1>3, <1>8, PlaceInBlock
  <2> QED
    BY <1>8, <2>1 DEF NoBlockUpTo
<1>10. /\ Bases(unord_q') = {v \in B : u < v}
       /\ judged = Rejected({v \in B : v < u})
       /\ unord_q' \in Seq(UnordPos) /\ Sorted(unord_q')
  <2>1. pos = <<u, 0>>
    OBVIOUS
  <2> HIDE DEF pos
  <2>2. /\ Bases(Remaining(unord_q, pos)) = {v \in Bases(unord_q) : u < v}
        /\ Bases(Overtaken(unord_q, pos)) = {v \in Bases(unord_q) : v < u}
        /\ Remaining(unord_q, pos) \in Seq(UnordPos) /\ Sorted(Remaining(unord_q, pos))
    BY <1>4, <1>6, <2>1, BasesSplit
  <2> QED
    BY <1>5, <2>2
<1> HIDE DEF r, pos, judged
<1>11. Step(w, "loop") /\ At({"parse"})' = {}
  <2>1. job' = [job EXCEPT ![w] = job'[w]]
    BY <1>3, <1>5
  <2>2. Step(w, "loop")
    BY <1>3, <1>5, <2>1, MovesStep
  <2>3. At({"parse"})' = At({"parse"}) \ {w}
    BY <2>2, StepAway DEF Readers3
  <2> QED
    BY <1>2, <2>2, <2>3
<1>12. JudgedTo(ublk', ublk, B, u)
  BY <1>4, <1>5, <1>7, <1>10, TakenJudged
<1> HIDE DEF bs, B
<1>13. head_offs <= bs.offset
  <2>1. Words(u) <= Words(q) /\ Words(q) \in Nat
    BY <1>4, <1>8, WordsGrow, WordsOf
  <2>2. Words(q) <= bs.offset
    BY <1>8 DEF Loaded
  <2> DEFINE a == parser_bs.offset
             b == Words(u)
             c == Words(q)
             d == bs.offset
  <2>3. /\ a \in Nat /\ b \in Nat /\ c \in Nat /\ d \in Nat /\ head_offs \in Nat
        /\ head_offs <= a /\ a <= b /\ b <= c /\ c <= d
    BY <1>1, <1>3, <1>4, <1>6, <1>8, <2>1, <2>2 DEF Nums
  <2> HIDE DEF a, b, c, d
  <2>4. head_offs <= d
    BY <2>3
  <2> QED
    BY <2>4 DEF d
<1>14. /\ SourceSteady' /\ Buffers' /\ ParserPlaced' /\ Scanners'
       /\ UNCHANGED <<stream, tail_offs>> /\ parser_bs' = bs
       /\ J0 \subseteq RestJobs(w) /\ J0 \subseteq Jobs
       /\ \A x \in RestJobs(w) : bs.offset <= x.offset => x \in J0
       /\ \A x \in RestJobs(w) : x.base \in RealBases(stream) /\ q < x.base => x \in J0
       /\ retr_q' \in Seq(RetrBlk) /\ OnePerPattern' /\ Jobs' = J0
  <2>1. "loop" \notin Readers3 /\ Bases(unord_q') \subseteq Bases(unord_q)
    BY <1>10 DEF Readers3, B
  <2> QED
    BY <1>2, <1>5, <1>9, <1>11, <1>13, <2>1, MasterMoves
<1> HIDE DEF J0
<1>15. RestJobs(w) = Jobs
  BY <1>2, <1>6, RestOf
<1>16. ASSUME NEW x \in Jobs, x.base = u
       PROVE  bs = BitsAt(x.pos[1], x.offset) /\ bs.offset = x.offset /\ x \in J0
              /\ ~ ublk[u].complete
  <2>1. /\ Pending(x, B, ublk) \/ Judged(stream, x, B, ublk, p)
        /\ x.pos[1] \in Nat /\ x.offset \in Nat
    BY <1>3, <1>6, WorkTypes
  <2>2. bs = BitsAt(x.pos[1], x.offset) /\ ~ ublk[u].complete
    BY <1>5, <1>16, <2>1 DEF Pending, Judged, bs
  <2>3. bs.offset = x.offset /\ bs.offset <= x.offset
    BY <2>1, <2>2, BitsAtOf
  <2>4. x \in J0
    BY <1>14, <1>15, <2>3
  <2> QED
    BY <2>2, <2>3, <2>4
<1>17. Work(stream, J0, Bases(unord_q'), ublk', u, tail_offs)
  <2>1. ASSUME NEW x \in Jobs, x.base \in RealBases(stream), p < x.base PROVE x \in J0
    <3>1. CASE x.base = u
      BY <1>16, <3>1
    <3>2. CASE x.base # u
      <4>1. x.base \in Nat /\ u <= x.base
        BY <1>1, <1>3, <2>1, RealOf
      <4>2. u < x.base
        BY <1>4, <3>2, <4>1
      <4> QED
        BY <1>9, <1>14, <1>15, <2>1, <4>2 DEF NoBlockUpTo
    <3> QED
      BY <3>1, <3>2
  <2> QED
    BY <1>1, <1>3, <1>6, <1>10, <1>12, <1>14, <2>1, WorkJudged
<1>18. Work(stream, J0, Bases(unord_q'), ublk', q, tail_offs)
  BY <1>3, <1>4, <1>8, <1>9, <1>17, WorkMoves
<1>19. Retrievers'
  BY <1>10, <1>14, <1>18, RetrieversAgain
<1>20. Mastered'
  <2>1. ASSUME NEW x \in J0, x.base \in RealBases(stream), x.base <= q PROVE x.base = u
    <3>1. x \in Jobs /\ x.base \in Nat
      BY <1>3, <1>14, <2>1, RealOf
    <3>2. ~ (x.base <= p)
      BY <1>2, <2>1, <3>1 DEF Reached
    <3>3. u <= x.base
      BY <1>1, <1>6, <2>1, <3>1, <3>2
    <3>4. ~ (u < x.base)
      BY <1>8, <1>9, <2>1, <3>1 DEF NoBlockUpTo
    <3> QED
      BY <1>4, <3>1, <3>3, <3>4
  <2>2. CASE ublk[u].complete
    <3>1. Reached(stream, J0, q) = {}
      BY <1>14, <1>16, <2>1, <2>2 DEF Reached
    <3>2. Exclusive(stream, J0, bs, TRUE, {})
      BY <3>1, TokenFree
    <3> QED
      BY <1>5, <1>11, <1>14, <2>2, <3>2, MasteredAgain
  <2>3. CASE ~ ublk[u].complete
    <3>1. PICK x \in Jobs : x.base = u
      BY <1>7, <2>3 DEF PatternOK
    <3>2. x \in J0 /\ bs = BitsAt(x.pos[1], x.offset)
      BY <1>16, <3>1
    <3>3. \A y \in J0 : y.base = u => y = x
      BY <1>6, <1>14, <3>1, DistinctJobs
    <3>4. Reached(stream, J0, q) = {x}
      BY <1>8, <2>1, <3>1, <3>2, <3>3 DEF Reached
    <3>5. Exclusive(stream, J0, bs, FALSE, {})
      BY <3>2, <3>4, OneRetriever
    <3> QED
      BY <1>2, <1>5, <1>11, <1>14, <2>3, <3>5, MasteredAgain
  <2> QED
    BY <2>2, <2>3
<1> QED
  BY <1>2, <1>5, <1>14, <1>19, <1>20, MasterAgain

LEMMA ParseFinishKeeps ==
  ASSUME CountInv, MasterInv, NEW w \in Workers, ParseFinish(w)
  PROVE  MasterInv'
<1>1. /\ pc[w] = "parse" /\ input_q' = <<>> /\ scan_q' = <<>> /\ retr_q' = <<>> /\ unord_q' = <<>>
      /\ parse_token' = TRUE /\ parsing_done' = TRUE /\ eof' = eof
      /\ job' = [job EXCEPT ![w] = NULL] /\ Moves(w, "loop")
  BY DEF ParseFinish, ParseReturns, RejectAll, Moves, WorkerStates
<1>2. Nums /\ Buffers /\ SourceSteady /\ DOMAIN job = Workers /\ Chain(input_q, head_offs, tail_offs)
  BY MasterParts
<1>3. At({"parse"}) = {w}
  BY <1>1, ParserIsMaster
<1>4. Step(w, "loop")
  <2>1. job' = [job EXCEPT ![w] = job'[w]]
    BY <1>1, <1>2
  <2> QED
    BY <1>1, <1>2, <2>1, MovesStep
<1>5. Alone(w) /\ DOMAIN job' = Workers /\ pc'[w] \notin Readers3 /\ At({"parse"})' = {}
  <2>1. /\ Alone(w) /\ DOMAIN job' = Workers /\ pc'[w] = "loop"
        /\ At({"parse"})' = At({"parse"}) \ {w}
    BY <1>4, StepAway DEF Readers3
  <2> QED
    BY <1>3, <2>1 DEF Readers3
<1>6. PICK n : Gives(w, n)
  BY <1>2, FinishGives
<1>7. Buffers' /\ Nums'
  BY <1>1, <1>2, <1>5, <1>6, ReleaseStep, GivesChain
<1>8. /\ UNCHANGED <<stream, tail_offs, file_len, ispec_total, avail>>
      /\ source' = source \/ (source = "stalled" /\ source' = "top")
  <2>1. ReleaseRefs(ToSet(input_q), w, TRUE)
    BY DEF ParseFinish
  <2> QED
    BY <2>1 DEF ReleaseRefs
<1>9. SourceSteady'
  BY <1>1, <1>2, <1>7, <1>8, SteadyStays
<1>10. Finished'
  BY <1>1, <1>5 DEF Finished
<1> QED
  BY <1>1, <1>7, <1>9, <1>10, MasterAgain

(***************************************************************************)
(* The retrievers.                                                         *)
(***************************************************************************)
LEMMA DequeueOnce ==
  ASSUME NEW S, NEW q \in Seq(S), q # <<>>, NoRepeats(q)
  PROVE  /\ peek(q) \in S /\ dequeue(q) \in Seq(S) /\ NoRepeats(dequeue(q))
         /\ ToSet(q) = ToSet(dequeue(q)) \cup {peek(q)}
         /\ \A x \in ToSet(dequeue(q)) : x.base # peek(q).base
<1> DEFINE t == dequeue(q)
           n == Len(q)
<1>1. /\ peek(q) = q[1] /\ peek(q) \in S /\ t \in Seq(S) /\ n \in Nat /\ n > 0 /\ Len(t) = n - 1
      /\ \A j \in 1 .. n - 1 : t[j] = q[j + 1]
  BY DEF peek, dequeue
<1>2. /\ \A x : x \in ToSet(q) <=> \E j \in 1 .. n : q[j] = x
      /\ \A x : x \in ToSet(t) <=> \E j \in 1 .. n - 1 : t[j] = x
  BY <1>1, ToSetOf
<1>3. \A i, j \in 1 .. n : q[i].base = q[j].base => i = j
  BY DEF NoRepeats
<1> HIDE DEF t, n
<1>4. ASSUME NEW j \in 1 .. n - 1
      PROVE  j + 1 \in 1 .. n /\ 1 \in 1 .. n /\ j + 1 # 1 /\ t[j] = q[j + 1]
  BY <1>1
<1>5. ASSUME NEW j \in 1 .. n, j # 1 PROVE \E k \in 1 .. n - 1 : t[k] = q[j]
  <2> DEFINE k == j - 1
  <2>1. k \in 1 .. n - 1 /\ j = k + 1
    BY <1>1, <1>5
  <2> HIDE DEF k
  <2> QED
    BY <1>1, <2>1
<1>6. ASSUME NEW x PROVE x \in ToSet(q) <=> x \in ToSet(t) \/ x = q[1]
  <2>1. ASSUME NEW j \in 1 .. n, q[j] = x PROVE x \in ToSet(t) \/ x = q[1]
    BY <1>2, <1>5, <2>1
  <2>2. ASSUME NEW j \in 1 .. n - 1, t[j] = x PROVE x \in ToSet(q)
    BY <1>2, <1>4, <2>2
  <2>3. q[1] \in ToSet(q)
    BY <1>1, <1>2
  <2> QED
    BY <1>2, <2>1, <2>2, <2>3
<1>7. \A x \in ToSet(t) : x.base # q[1].base
  <2>1. ASSUME NEW j \in 1 .. n - 1 PROVE t[j].base # q[1].base
    BY <1>3, <1>4
  <2> QED
    BY <1>2, <2>1
<1>8. NoRepeats(t)
  <2>1. ASSUME NEW i \in 1 .. n - 1, NEW j \in 1 .. n - 1, t[i].base = t[j].base PROVE i = j
    <3>1. i + 1 \in 1 .. n /\ j + 1 \in 1 .. n /\ q[i + 1].base = q[j + 1].base
      BY <1>4, <2>1
    <3>2. i + 1 = j + 1
      BY <1>3, <3>1
    <3> QED
      BY <1>1, <3>2
  <2> QED
    BY <1>1, <2>1 DEF NoRepeats
<1> QED
  BY <1>1, <1>6, <1>7, <1>8 DEF t

LEMMA RetrieveReady ==
  ASSUME NextTaskFresh, next_task = "retrieve"
  PROVE  can_retrieve /\ ~ Released(peek(retr_q))
  BY DEF NextTaskFresh, SelectTask, NoTask, Abort, can_retrieve

LEMMA DoRetrieveKeeps ==
  ASSUME CountInv, MasterInv, NEW w \in Workers, DoRetrieve(w)
  PROVE  MasterInv'
<1> DEFINE rb == peek(retr_q)
           A == At({"retrieve"})
<1>1. /\ pc[w] = "loop" /\ retr_q # <<>> /\ can_attach(rb) /\ ~ (rb.offset < head_offs)
  BY RetrieveReady DEF CountInv, DoRetrieve, AtTask, can_retrieve, Released
<1>2. ~ parsing_done
  BY <1>1 DEF MasterInv, Finished
<1>3. Nums /\ Buffers /\ SourceSteady /\ DOMAIN job = Workers
  BY MasterParts
<1>4. /\ ParserPlaced /\ Scanners /\ OnePerPattern /\ retr_q \in Seq(RetrBlk)
      /\ unord_q \in Seq(UnordPos) /\ Sorted(unord_q)
      /\ Work(stream, Jobs, Bases(unord_q), ublk, parser_bs.pos[1], tail_offs)
      /\ Exclusive(stream, Jobs, parser_bs, parse_token, At({"parse"}))
  BY <1>2, MasterWorking
<1>5. /\ job' = [job EXCEPT ![w] = rb] /\ Attach(w, rb) /\ retr_q' = dequeue(retr_q)
      /\ UNCHANGED <<sourceVars, eof, stream, input_q, head_offs, tail_offs, scan_q,
                     unord_q, ublk, parsing_done, parse_token, parser_bs>>
      /\ Moves(w, "retrieve")
  BY DEF DoRetrieve, slotVars, unordVars, parserVars, Moves, WorkerStates
<1>6. /\ rb \in RetrBlk /\ retr_q' \in Seq(RetrBlk) /\ NoRepeats(retr_q')
      /\ ToSet(retr_q) = ToSet(retr_q') \cup {rb}
      /\ \A x \in ToSet(retr_q') : x.base # rb.base
  BY <1>1, <1>4, <1>5, DequeueOnce DEF OnePerPattern
<1> HIDE DEF rb
<1>7. job'[w] = rb /\ Step(w, "retrieve")
  <2>1. job'[w] = rb /\ job' = [job EXCEPT ![w] = job'[w]]
    BY <1>3, <1>5
  <2> QED
    BY <1>3, <1>5, <2>1, MovesStep
<1>8. /\ Alone(w) /\ DOMAIN job' = Workers /\ pc'[w] = "retrieve"
      /\ A' = A \cup {w}
      /\ At({"parse"})' = At({"parse"}) \ {w} /\ At({"scan"})' = At({"scan"}) \ {w}
  BY <1>7, StepEffect DEF Step, Readers3
<1>9. w \notin At({"parse"}) /\ w \notin At({"scan"}) /\ w \notin A
  BY <1>1 DEF At
<1>10. rb.offset \in Nat /\ head_offs <= rb.offset
  BY <1>1, <1>3, <1>6 DEF RetrBlk, Nums
<1>11. Buffers' /\ \A v \in Workers \ {w} : blk'[v] = blk[v]
  <2>1. pc[w] \notin Readers3 /\ pc'[w] \in Readers3 /\ pc'[w] # "scan"
    BY <1>1, <1>8 DEF Readers3
  <2> QED
    BY <1>1, <1>3, <1>5, <1>7, <1>8, <1>10, <2>1, AttachStep
<1>12. SourceSteady'
  <2>1. Nums' /\ UNCHANGED <<source, file_len, ispec_total, avail>>
    BY <1>3, <1>5 DEF Nums, sourceVars
  <2> QED
    BY <1>3, <1>5, <2>1, SteadyStays
<1>13. ParserPlaced'
  <2>1. \A v \in Workers :
          pc'[v] = "parse" => (pc[v] = "parse" /\ job'[v] = job[v]) \/ job'[v] = parser_bs
    <3>1. ASSUME NEW v \in Workers, pc'[v] = "parse" PROVE pc[v] = "parse" /\ job'[v] = job[v]
      BY <1>7, <1>8, <3>1 DEF Step
    <3> QED
      BY <3>1
  <2> QED
    BY <1>4, <1>5, <2>1, ParserStays
<1>14. /\ \A v \in A : v \in Workers \ {w} /\ job'[v] = job[v]
       /\ \A v \in A : job[v].base # rb.base /\ \A x \in ToSet(retr_q') : x.base # job[v].base
       /\ \A u, v \in A : job[u].base = job[v].base => u = v
  <2>1. \A v \in A : v \in Workers \ {w}
    BY <1>9 DEF At
  <2> QED
    BY <1>4, <1>6, <1>7, <2>1 DEF Step, OnePerPattern
<1>15. Jobs' = Jobs
  <2>1. InHand = {job[v] : v \in A} /\ InHand' = {job'[v] : v \in A'}
    BY DEF InHand
  <2> HIDE DEF A
  <2>2. InHand' = InHand \cup {rb}
    BY <1>7, <1>8, <1>14, <2>1
  <2> QED
    BY <1>6, <2>2 DEF Jobs
<1>16. OnePerPattern'
  <2> HIDE DEF A
  <2>1. /\ \A u, v \in A' : job'[u].base = job'[v].base => u = v
        /\ \A x \in ToSet(retr_q'), v \in A' : x.base # job'[v].base
    BY <1>6, <1>7, <1>8, <1>14
  <2> QED
    BY <1>6, <2>1 DEF OnePerPattern, A
<1>17. Retrievers'
  BY <1>4, <1>5, <1>6, <1>15, <1>16, RetrieversAgain
<1>18. Mastered'
  <2>1. Exclusive(stream', Jobs', parser_bs', parse_token', At({"parse"})')
    BY <1>4, <1>5, <1>8, <1>9, <1>15
  <2> QED
    BY <2>1, MasteredAgain
<1>19. Scanners'
  <2>1. At({"scan"})' \subseteq At({"scan"}) /\ \A v \in At({"scan"})' : v \in Workers \ {w}
    BY <1>8 DEF At
  <2>2. \A v \in At({"scan"})' : job'[v] = job[v] /\ blk'[v] = blk[v]
    BY <1>7, <1>11, <2>1 DEF Step
  <2>3. scan_q' \in Seq(Bits) /\ Sorted(scan_q')
    BY <1>4, <1>5 DEF Scanners
  <2> QED
    BY <1>4, <1>5, <2>1, <2>2, <2>3, ScannersKeep
<1> QED
  BY <1>2, <1>5, <1>11, <1>12, <1>13, <1>17, <1>18, <1>19, MasterAgain

(* Who works on a block of the stream that the parser has come to is the   *)
(* master; who works on another one is told so; the rest goes on.          *)
LEMMA WhoIsMaster ==
  ASSUME MasterInv, ~ parsing_done, NEW rb \in Jobs
  PROVE  LET p == parser_bs.pos[1]
             B == Bases(unord_q)
         IN /\ InVain(rb) => Judged(stream, rb, B, ublk, p) /\ rb.base \notin RealBases(stream)
            /\ ~ InVain(rb) /\ IsMaster(rb) =>
                 Judged(stream, rb, B, ublk, p) /\ rb \in Reached(stream, Jobs, p)
            /\ ~ InVain(rb) /\ ~ IsMaster(rb) =>
                 Pending(rb, B, ublk) /\ rb \notin Reached(stream, Jobs, p)
            /\ rb \in Reached(stream, Jobs, p) => ~ InVain(rb) /\ IsMaster(rb)
<1> DEFINE p == parser_bs.pos[1]
           B == Bases(unord_q)
<1>1. StreamOK(stream) /\ Work(stream, Jobs, B, ublk, p, tail_offs) /\ p \in Nat
  BY MasterParts, MasterWorking
<1>2. /\ Pending(rb, B, ublk) \/ Judged(stream, rb, B, ublk, p)
      /\ rb.base \in Nat /\ (rb.link # NULL => rb.link = rb.base)
      /\ \A u \in B : PatternOK(stream, u, Jobs, ublk, p, tail_offs)
  BY <1>1, WorkTypes
<1> HIDE DEF p, B
<1>3. ASSUME Pending(rb, B, ublk)
      PROVE  ~ InVain(rb) /\ ~ IsMaster(rb) /\ rb \notin Reached(stream, Jobs, p)
  <2>1. rb.base \in B /\ rb.link = rb.base /\ ~ ublk[rb.base].complete /\ rb.link # NULL
    BY <1>2, <1>3, NullAssumption DEF Pending
  <2>2. rb.base \in RealBases(stream) => ~ (rb.base <= p)
    BY <1>1, <1>2, <2>1 DEF PatternOK
  <2> QED
    BY <2>1, <2>2 DEF InVain, IsMaster, Reached
<1>4. ASSUME Judged(stream, rb, B, ublk, p)
      PROVE  /\ IsMaster(rb) /\ (InVain(rb) <=> rb.base \notin RealBases(stream))
             /\ rb \in Reached(stream, Jobs, p) <=> rb.base \in RealBases(stream)
  <2>1. CASE rb.link = NULL
    BY <1>4, <2>1 DEF Judged, InVain, IsMaster, Reached
  <2>2. CASE rb.link # NULL
    BY <1>2, <1>4, <2>2 DEF Judged, InVain, IsMaster, Reached
  <2> QED
    BY <2>1, <2>2
<1>5. /\ InVain(rb) => Judged(stream, rb, B, ublk, p) /\ rb.base \notin RealBases(stream)
      /\ ~ InVain(rb) /\ IsMaster(rb) =>
           Judged(stream, rb, B, ublk, p) /\ rb \in Reached(stream, Jobs, p)
      /\ ~ InVain(rb) /\ ~ IsMaster(rb) =>
           Pending(rb, B, ublk) /\ rb \notin Reached(stream, Jobs, p)
      /\ rb \in Reached(stream, Jobs, p) => ~ InVain(rb) /\ IsMaster(rb)
  BY <1>2, <1>3, <1>4
<1> QED
  BY <1>5 DEF p, B

(* What retrieve() has done when it returns.                               *)
LEMMA RetrieverReturns ==
  ASSUME MasterInv, ~ parsing_done, NEW w \in Workers, pc[w] = "retrieve", NEW rb, rb = job[w]
  PROVE  /\ w \notin At({"parse"}) /\ rb \in Jobs /\ RestJobs(w) = Jobs \ {rb}
         /\ \A x \in RestJobs(w) : x.base # rb.base
         /\ JobOK(stream, rb, tail_offs) /\ rb \in RetrBlk
         /\ rb.pos[1] \in Nat /\ rb.offset \in Nat /\ rb.base \in Nat
         /\ \A r \in Retrieved(w) :
              \E q \in Nat, l \in Nat :
                /\ r.bs = BitsAt(q, l) /\ rb.pos[1] <= q /\ rb.offset <= l /\ rb.base <= q
                /\ q <= Pattern(stream, rb.base).stop /\ Loaded(q, l, tail_offs)
                /\ l <= Pattern(stream, rb.base).need
<1>1. w \in At({"retrieve"}) /\ w \notin At({"parse"})
  BY DEF At
<1>2. Nums /\ Buffers /\ StreamOK(stream)
  BY MasterParts
<1>3. OnePerPattern /\ Work(stream, Jobs, Bases(unord_q), ublk, parser_bs.pos[1], tail_offs)
  BY MasterWorking
<1>4. /\ rb \in Jobs /\ RestJobs(w) = Jobs \ {rb} /\ \A x \in RestJobs(w) : x.base # rb.base
  BY <1>1, <1>3, RestOf
<1>5. JobOK(stream, rb, tail_offs)
  BY <1>3, <1>4 DEF Work
<1>6. /\ rb \in RetrBlk /\ rb.pos[1] \in Nat /\ rb.offset \in Nat /\ rb.base \in Nat
      /\ rb.base \in PatternBases(stream) /\ rb.base <= rb.pos[1]
      /\ rb.pos[1] <= Pattern(stream, rb.base).stop
      /\ Loaded(rb.pos[1], rb.offset, tail_offs) /\ rb.offset <= Pattern(stream, rb.base).need
  BY <1>2, <1>3, <1>4, WorkTypes
<1> DEFINE limit == Limit(w, rb)
           done == Eof(w, rb)
           p == rb.pos[1]
           o == rb.offset
           u == rb.base
           s == stream
           tail == tail_offs
<1>7. limit \in Nat /\ o <= limit /\ limit <= tail /\ done \in BOOLEAN /\ tail \in Nat
  BY <1>2, <1>6, ReaderLimit DEF Nums
<1>8. Retrieved(w) = Retrieve(Pattern(s, u), BitsAt(p, o), limit, done)
  BY DEF Retrieved
<1>9. /\ p \in Nat /\ o \in Nat /\ u \in Nat /\ u \in PatternBases(s) /\ u <= p
      /\ p <= Pattern(s, u).stop /\ Loaded(p, o, tail) /\ o <= Pattern(s, u).need /\ StreamOK(s)
  BY <1>2, <1>6
<1> HIDE DEF limit, done, p, o, u, s, tail
<1>10. ASSUME NEW r \in Retrieved(w)
       PROVE  \E q \in Nat, l \in Nat :
                /\ r.bs = BitsAt(q, l) /\ p <= q /\ o <= l /\ u <= q
                /\ q <= Pattern(s, u).stop /\ Loaded(q, l, tail) /\ l <= Pattern(s, u).need
  <2>1. r \in Retrieve(Pattern(s, u), BitsAt(p, o), limit, done)
    BY <1>8, <1>10
  <2>2. PICK q \in Nat, l \in Nat :
          /\ r.bs = BitsAt(q, l) /\ p <= q /\ o <= l
          /\ q <= Pattern(s, u).stop /\ Loaded(q, l, tail) /\ l <= Pattern(s, u).need
    BY <1>7, <1>9, <2>1, RetrieveGoesOn
  <2>3. u <= q
    BY <1>9, <2>2
  <2> QED
    BY <2>2, <2>3
<1> QED
  BY <1>1, <1>4, <1>5, <1>6, <1>10 DEF p, o, u, s, tail

(* Somebody who is not the master has retrieved; what is left to show is   *)
(* what becomes of the jobs.                                               *)
LEMMA RetrieverDetaches ==
  ASSUME MasterInv, ~ parsing_done, NEW w \in Workers, NEW t, Step(w, t), t \notin Readers3,
         pc[w] = "retrieve", Detach(w),
         UNCHANGED <<eof, scan_q, unord_q, parse_token, parsing_done>>,
         retr_q' \in Seq(RetrBlk), OnePerPattern', NEW J2, Jobs' = J2,
         NEW p, p = parser_bs.pos[1],
         Work(stream, J2, Bases(unord_q), ublk', p, tail_offs),
         Reached(stream, J2, p) = Reached(stream, Jobs, p)
  PROVE  MasterInv'
<1>1. /\ ParserPlaced /\ Scanners /\ unord_q \in Seq(UnordPos) /\ Sorted(unord_q)
      /\ Exclusive(stream, Jobs, parser_bs, parse_token, At({"parse"}))
  BY MasterWorking
<1>2. /\ SourceSteady' /\ Buffers'
      /\ UNCHANGED <<stream, input_q, head_offs, tail_offs, parser_bs>>
      /\ \A v \in Workers \ {w} : blk'[v] = blk[v]
  BY DetachStep
<1>3. /\ At({"parse"})' = At({"parse"}) \ {w} /\ At({"scan"})' = At({"scan"}) \ {w}
      /\ pc'[w] = t
  BY StepAway
<1>4. w \notin At({"parse"}) /\ w \notin At({"scan"})
  BY DEF At
<1>5. Retrievers'
  BY <1>1, <1>2, RetrieversAgain
<1>6. Mastered'
  <2>1. Exclusive(stream, J2, parser_bs, parse_token, At({"parse"}))
    BY <1>1 DEF Exclusive
  <2>2. Exclusive(stream', Jobs', parser_bs', parse_token', At({"parse"})')
    BY <1>2, <1>3, <1>4, <2>1
  <2> QED
    BY <2>2, MasteredAgain
<1>7. ParserPlaced'
  <2>1. \A v \in Workers :
          pc'[v] = "parse" => (pc[v] = "parse" /\ job'[v] = job[v]) \/ job'[v] = parser_bs
    BY <1>3 DEF Step, Readers3
  <2> QED
    BY <1>1, <1>2, <2>1, ParserStays
<1>8. Scanners'
  <2>1. At({"scan"})' \subseteq At({"scan"}) /\ \A v \in At({"scan"})' : v \in Workers \ {w}
    BY <1>3 DEF At
  <2>2. \A v \in At({"scan"})' : job'[v] = job[v] /\ blk'[v] = blk[v]
    BY <1>2, <2>1 DEF Step
  <2>3. scan_q' \in Seq(Bits) /\ Sorted(scan_q')
    BY <1>1 DEF Scanners
  <2> QED
    BY <1>1, <1>2, <2>1, <2>2, <2>3, ScannersKeep
<1> QED
  BY <1>2, <1>5, <1>6, <1>7, <1>8, MasterAgain

LEMMA RetrieveAbortKeeps ==
  ASSUME CountInv, MasterInv, NEW w \in Workers, RetrieveAbort(w)
  PROVE  MasterInv'
<1> DEFINE rb == job[w]
           p == parser_bs.pos[1]
<1>1. /\ pc[w] = "retrieve" /\ InVain(rb) /\ Detach(w) /\ job' = [job EXCEPT ![w] = NULL]
      /\ UNCHANGED <<eof, scan_q, retr_q, unord_q, ublk, parse_token, parsing_done>>
      /\ Moves(w, "loop")
  BY DEF RetrieveAbort, RetrieveReturns, queueVars, unordVars, Moves, WorkerStates
<1>2. Nums /\ DOMAIN job = Workers /\ StreamOK(stream)
  BY MasterParts
<1>3. Step(w, "loop")
  <2>1. job' = [job EXCEPT ![w] = job'[w]]
    BY <1>1, <1>2
  <2> QED
    BY <1>1, <1>2, <2>1, MovesStep
<1>4. CASE parsing_done
  <2>1. SourceSteady' /\ Buffers' /\ input_q' = input_q
    BY <1>1, <1>3, DetachStep DEF Readers3
  <2>2. At({"parse"})' = At({"parse"}) \ {w}
    BY <1>3, StepAway DEF Readers3
  <2>3. Finished'
    BY <1>1, <1>4, <2>1, <2>2 DEF MasterInv, Finished
  <2> QED
    BY <1>1, <1>4, <2>1, <2>3, MasterAgain
<1>5. CASE ~ parsing_done
  <2>1. /\ OnePerPattern /\ retr_q \in Seq(RetrBlk)
        /\ Work(stream, Jobs, Bases(unord_q), ublk, p, tail_offs) /\ p \in Nat
    BY <1>5, MasterWorking
  <2>2. rb \in Jobs /\ RestJobs(w) = Jobs \ {rb}
    BY <1>1, <1>5, RetrieverReturns
  <2>3. rb.base \notin RealBases(stream)
    BY <1>1, <1>5, <2>2, WhoIsMaster
  <2>4. retr_q' \in Seq(RetrBlk) /\ OnePerPattern' /\ Jobs' = RestJobs(w)
    <3>1. RestJobs(w) = ToSet(retr_q) \cup RestInHand(w) /\ "loop" # "retrieve"
      BY DEF RestJobs
    <3> QED
      BY <1>1, <1>3, <2>1, <3>1, RetrQueue DEF OnePerPattern
  <2> HIDE DEF rb, p
  <2>5. Work(stream, RestJobs(w), Bases(unord_q), ublk', p, tail_offs)
    <3>1. NoBlockUpTo(stream, p, p)
      BY DEF NoBlockUpTo
    <3> QED
      BY <1>1, <1>2, <2>1, <2>2, <2>3, <3>1, WorkMoves
  <2>6. Reached(stream, RestJobs(w), p) = Reached(stream, Jobs, p)
    BY <2>2, <2>3 DEF Reached
  <2> QED
    BY <1>1, <1>3, <1>5, <2>4, <2>5, <2>6, RetrieverDetaches DEF Readers3, p
<1> QED
  BY <1>4, <1>5

(* The master has retrieved, and has come from p to q.                     *)
LEMMA MasterRetrieves ==
  ASSUME MasterInv, ~ parsing_done, NEW w \in Workers, pc[w] = "retrieve", NEW rb, rb = job[w],
         ~ InVain(rb), IsMaster(rb), NEW r \in Retrieved(w), NEW p, p = parser_bs.pos[1]
  PROVE  /\ p \in Nat /\ rb.pos[1] = p /\ rb.base <= p /\ rb.base \in RealBases(stream)
         /\ At({"parse"}) = {} /\ parse_token = FALSE /\ Reached(stream, Jobs, p) = {rb}
         /\ Judged(stream, rb, Bases(unord_q), ublk, p)
         /\ \E q \in Nat, l \in Nat :
              /\ r.bs = BitsAt(q, l) /\ r.bs \in Bits
              /\ r.bs.pos = <<q, 0>> /\ r.bs.pos[1] = q /\ r.bs.offset = l
              /\ p <= q /\ rb.base <= q /\ NoBlockUpTo(stream, p, q)
              /\ q <= Pattern(stream, rb.base).stop
              /\ Loaded(q, l, tail_offs) /\ l <= Pattern(stream, rb.base).need
              /\ PlaceOK(stream, r.bs, tail_offs) /\ head_offs <= r.bs.offset
<1> DEFINE u == rb.base
           s == stream
           tail == tail_offs
           z == Pattern(s, u).stop
           n == Pattern(s, u).need
<1>1. StreamOK(s) /\ Nums
  BY MasterParts
<1>2. /\ rb \in Jobs /\ u \in Nat /\ rb.pos[1] \in Nat /\ rb.offset \in Nat
      /\ \A x \in Retrieved(w) :
           \E q \in Nat, l \in Nat :
             /\ x.bs = BitsAt(q, l) /\ rb.pos[1] <= q /\ rb.offset <= l /\ u <= q
             /\ q <= z /\ Loaded(q, l, tail) /\ l <= n
  BY RetrieverReturns
<1>3. /\ Judged(s, rb, Bases(unord_q), ublk, p) /\ rb \in Reached(s, Jobs, p)
  BY <1>2, WhoIsMaster
<1>4. /\ Exclusive(s, Jobs, parser_bs, parse_token, At({"parse"})) /\ p \in Nat
      /\ parser_bs.offset \in Nat /\ head_offs <= parser_bs.offset
  BY MasterWorking
<1>5. /\ Reached(s, Jobs, p) = {rb} /\ parser_bs = BitsAt(rb.pos[1], rb.offset)
      /\ At({"parse"}) = {} /\ ~ parse_token
  BY <1>3, <1>4 DEF Exclusive
<1>6. rb.pos[1] = p /\ rb.offset = parser_bs.offset
  BY <1>2, <1>5, BitsAtOf
<1>7. u \in RealBases(s) /\ u <= p
  BY <1>3 DEF Reached
<1>8. PICK q \in Nat, l \in Nat :
        /\ r.bs = BitsAt(q, l) /\ rb.pos[1] <= q /\ rb.offset <= l /\ u <= q
        /\ q <= z /\ Loaded(q, l, tail) /\ l <= n
  BY <1>2
<1>9. /\ r.bs \in Bits /\ r.bs.pos = <<q, 0>> /\ r.bs.pos[1] = q /\ r.bs.offset = l
  BY <1>8, BitsAtOf
<1> HIDE DEF u, s, tail, z, n
<1>10. PlaceOK(s, BitsAt(q, l), tail) /\ \A v \in RealBases(s) : u < v => q < v
  BY <1>1, <1>7, <1>8, PlaceInBlock DEF z
<1>11. NoBlockUpTo(s, p, q)
  <2>1. ASSUME NEW v \in RealBases(s), p < v PROVE q < v
    <3>1. v \in Nat
      BY <1>1, RealOf
    <3>2. u < v
      BY <1>2, <1>4, <1>7, <2>1, <3>1 DEF u
    <3> QED
      BY <1>10, <3>2
  <2> QED
    BY <2>1 DEF NoBlockUpTo
<1>12. head_offs <= l
  BY <1>1, <1>4, <1>6, <1>8 DEF Nums
<1>13. /\ p <= q /\ PlaceOK(s, r.bs, tail) /\ head_offs <= r.bs.offset
  BY <1>6, <1>8, <1>9, <1>10, <1>12
<1>14. parse_token = FALSE
  BY <1>5
<1> QED
  BY <1>3, <1>4, <1>5, <1>6, <1>7, <1>8, <1>9, <1>11, <1>13, <1>14 DEF u, s, tail, z, n

LEMMA RetrieveMoreAsMasterKeeps ==
  ASSUME CountInv, MasterInv, NEW w \in Workers, RetrieveMoreAsMaster(w)
  PROVE  MasterInv'
<1> DEFINE rb == job[w]
           p == parser_bs.pos[1]
           B == Bases(unord_q)
           J0 == KeptJobs(w)
<1>1. PICK r \in Retrieved(w) :
        /\ pc[w] = "retrieve" /\ ~ InVain(rb) /\ IsMaster(rb)
        /\ Advance(w, r.bs, 0) /\ retr_q' = enqueue(Kept(retr_q), MovedTo(rb, r.bs))
        /\ job' = [job EXCEPT ![w] = NULL]
        /\ UNCHANGED <<eof, unord_q, ublk, parse_token, parsing_done>>
        /\ Moves(w, "loop")
  BY DEF RetrieveMoreAsMaster, RetrieveReturns, unordVars, Moves, WorkerStates
<1> DEFINE bs == r.bs
           e == MovedTo(rb, bs)
<1>2. ~ parsing_done
  BY <1>1 DEF InVain
<1>3. DOMAIN job = Workers /\ Nums /\ StreamOK(stream)
  BY MasterParts
<1>4. /\ Work(stream, Jobs, B, ublk, p, tail_offs)
      /\ OnePerPattern /\ unord_q \in Seq(UnordPos) /\ Sorted(unord_q)
  BY <1>2, MasterWorking
<1>5. /\ rb \in Jobs /\ RestJobs(w) = Jobs \ {rb} /\ JobOK(stream, rb, tail_offs)
      /\ \A x \in RestJobs(w) : x.base # rb.base
      /\ rb \in RetrBlk /\ rb.base \in Nat
  BY <1>1, <1>2, RetrieverReturns
<1>6. /\ p \in Nat /\ rb.pos[1] = p /\ rb.base <= p /\ rb.base \in RealBases(stream)
      /\ At({"parse"}) = {} /\ parse_token = FALSE /\ Reached(stream, Jobs, p) = {rb}
      /\ Judged(stream, rb, B, ublk, p)
      /\ \E q \in Nat, l \in Nat :
           /\ bs = BitsAt(q, l) /\ bs \in Bits
           /\ bs.pos = <<q, 0>> /\ bs.pos[1] = q /\ bs.offset = l
           /\ p <= q /\ rb.base <= q /\ NoBlockUpTo(stream, p, q)
           /\ q <= Pattern(stream, rb.base).stop
           /\ Loaded(q, l, tail_offs) /\ l <= Pattern(stream, rb.base).need
           /\ PlaceOK(stream, bs, tail_offs) /\ head_offs <= bs.offset
  BY <1>1, <1>2, MasterRetrieves
<1>7. PICK q \in Nat, l \in Nat :
        /\ bs = BitsAt(q, l) /\ bs \in Bits
        /\ bs.pos = <<q, 0>> /\ bs.pos[1] = q /\ bs.offset = l
        /\ p <= q /\ rb.base <= q /\ NoBlockUpTo(stream, p, q)
        /\ q <= Pattern(stream, rb.base).stop
        /\ Loaded(q, l, tail_offs) /\ l <= Pattern(stream, rb.base).need
        /\ PlaceOK(stream, bs, tail_offs) /\ head_offs <= bs.offset
  BY <1>6
<1> HIDE DEF bs
<1>8. /\ e \in RetrBlk /\ e.base = rb.base /\ e.link = rb.link
      /\ e.pos[1] = q /\ e.offset = l
  BY <1>5, <1>7 DEF MovedTo, RetrBlk, Bits
<1> HIDE DEF rb, e
<1>9. Step(w, "loop") /\ At({"parse"})' = {}
  <2>1. job' = [job EXCEPT ![w] = job'[w]]
    BY <1>1, <1>3
  <2>2. Step(w, "loop")
    BY <1>1, <1>3, <2>1, MovesStep
  <2> QED
    BY <1>6, <2>2, StepAway DEF Readers3
<1>10. /\ SourceSteady' /\ Buffers' /\ ParserPlaced' /\ Scanners'
       /\ UNCHANGED <<stream, tail_offs>> /\ parser_bs' = bs
       /\ J0 \subseteq RestJobs(w) /\ J0 \subseteq Jobs
       /\ \A x \in RestJobs(w) :
            x.base \in RealBases(stream) /\ bs.pos[1] < x.base => x \in J0
       /\ \A d \in RetrBlk :
            retr_q' = enqueue(Kept(retr_q), d) /\ (\A x \in J0 : x.base # d.base) =>
              retr_q' \in Seq(RetrBlk) /\ OnePerPattern' /\ Jobs' = J0 \cup {d}
  <2>1. "loop" \notin Readers3 /\ Bases(unord_q') \subseteq Bases(unord_q)
    BY <1>1 DEF Readers3
  <2> QED
    BY <1>1, <1>2, <1>7, <1>9, <2>1, MasterMoves DEF bs
<1> HIDE DEF J0
<1>11. retr_q' \in Seq(RetrBlk) /\ OnePerPattern' /\ Jobs' = J0 \cup {e}
  <2>1. retr_q' = enqueue(Kept(retr_q), e)
    BY <1>1 DEF e, bs, rb
  <2> QED
    BY <1>5, <1>8, <1>10, <2>1
<1>12. Work(stream, J0, B, ublk, q, tail_offs)
  <2>1. ASSUME NEW x \in Jobs, x.base \in RealBases(stream), p < x.base PROVE x \in J0
    <3>1. x # rb
      BY <1>5, <1>6, <2>1
    <3>2. q < x.base
      BY <1>7, <2>1 DEF NoBlockUpTo
    <3> QED
      BY <1>5, <1>7, <1>10, <2>1, <3>1, <3>2
  <2> QED
    BY <1>3, <1>4, <1>6, <1>7, <1>10, <2>1, WorkMoves
<1>13. Work(stream, J0 \cup {e}, B, ublk, q, tail_offs)
  <2>1. JobOK(stream, e, tail_offs)
    BY <1>5, <1>7, <1>8 DEF JobOK
  <2>2. Judged(stream, e, B, ublk, q)
    BY <1>6, <1>7, <1>8 DEF Judged
  <2> QED
    BY <1>12, <2>1, <2>2, WorkJoins
<1>14. Retrievers'
  <2>1. Work(stream', Jobs', Bases(unord_q'), ublk', parser_bs'.pos[1], tail_offs')
    BY <1>1, <1>7, <1>10, <1>11, <1>13
  <2> QED
    BY <1>1, <1>4, <1>11, <2>1, RetrieversAgain
<1>15. Mastered'
  <2>1. Reached(stream, J0, q) \subseteq {rb}
    <3>1. \A x \in Jobs : x.base \in Nat
      BY <1>3, <1>4, WorkTypes
    <3> QED
      BY <1>6, <1>7, <1>10, <3>1, ReachedShrinks
  <2>2. rb \notin J0
    BY <1>5, <1>10
  <2>3. Reached(stream, J0 \cup {e}, bs.pos[1]) = {e}
    BY <1>6, <1>7, <1>8, <2>1, <2>2 DEF Reached
  <2>4. bs = BitsAt(e.pos[1], e.offset)
    BY <1>7, <1>8
  <2>5. Exclusive(stream, J0 \cup {e}, bs, FALSE, {})
    BY <2>3, <2>4, OneRetriever
  <2>6. Exclusive(stream', Jobs', parser_bs', parse_token', At({"parse"})')
    BY <1>1, <1>6, <1>9, <1>10, <1>11, <2>5
  <2> QED
    BY <2>6, MasteredAgain
<1> QED
  BY <1>1, <1>2, <1>10, <1>14, <1>15, MasterAgain

LEMMA RetrieveOverAsMasterKeeps ==
  ASSUME CountInv, MasterInv, NEW w \in Workers, RetrieveOverAsMaster(w)
  PROVE  MasterInv'
<1> DEFINE rb == job[w]
           p == parser_bs.pos[1]
           B == Bases(unord_q)
           J0 == KeptJobs(w)
           done == [pos |-> <<job[w].base, 0>>]
<1>1. PICK r \in Retrieved(w) :
        /\ pc[w] = "retrieve" /\ ~ InVain(rb) /\ IsMaster(rb)
        /\ Advance(w, r.bs, 0) /\ retr_q' = Kept(retr_q) /\ parse_token' = TRUE
        /\ ublk' = [x \in DOMAIN ublk \ {rb.link} |-> ublk[x]]
        /\ job' = [job EXCEPT ![w] = done]
        /\ UNCHANGED <<eof, unord_q, parsing_done>>
        /\ Moves(w, "decode")
  BY DEF RetrieveOverAsMaster, RetrieveReturns, ToDecode, Moves, WorkerStates
<1> HIDE DEF done
<1> DEFINE bs == r.bs
<1>2. ~ parsing_done
  BY <1>1 DEF InVain
<1>3. DOMAIN job = Workers /\ Nums /\ StreamOK(stream)
  BY MasterParts
<1>4. /\ Work(stream, Jobs, B, ublk, p, tail_offs)
      /\ OnePerPattern /\ unord_q \in Seq(UnordPos) /\ Sorted(unord_q)
  BY <1>2, MasterWorking
<1>5. /\ rb \in Jobs /\ RestJobs(w) = Jobs \ {rb}
      /\ \A x \in RestJobs(w) : x.base # rb.base
  BY <1>1, <1>2, RetrieverReturns
<1>6. /\ p \in Nat
      /\ At({"parse"}) = {} /\ Reached(stream, Jobs, p) = {rb}
      /\ Judged(stream, rb, B, ublk, p)
      /\ \E q \in Nat, l \in Nat :
           /\ bs = BitsAt(q, l) /\ bs \in Bits
           /\ bs.pos = <<q, 0>> /\ bs.pos[1] = q /\ bs.offset = l
           /\ p <= q /\ rb.base <= q /\ NoBlockUpTo(stream, p, q)
           /\ q <= Pattern(stream, rb.base).stop
           /\ Loaded(q, l, tail_offs) /\ l <= Pattern(stream, rb.base).need
           /\ PlaceOK(stream, bs, tail_offs) /\ head_offs <= bs.offset
  BY <1>1, <1>2, MasterRetrieves
<1>7. PICK q \in Nat :
        /\ bs.pos[1] = q /\ p <= q /\ NoBlockUpTo(stream, p, q)
        /\ PlaceOK(stream, bs, tail_offs) /\ head_offs <= bs.offset
  BY <1>6
<1> HIDE DEF bs
<1>9. Step(w, "decode") /\ At({"parse"})' = {}
  <2>1. job' = [job EXCEPT ![w] = job'[w]]
    BY <1>1, <1>3
  <2>2. Step(w, "decode")
    BY <1>1, <1>3, <2>1, MovesStep
  <2> QED
    BY <1>6, <2>2, StepAway DEF Readers3
<1>10. /\ SourceSteady' /\ Buffers' /\ ParserPlaced' /\ Scanners'
       /\ UNCHANGED <<stream, tail_offs>> /\ parser_bs' = bs
       /\ J0 \subseteq RestJobs(w)
       /\ \A x \in RestJobs(w) :
            x.base \in RealBases(stream) /\ bs.pos[1] < x.base => x \in J0
       /\ retr_q' \in Seq(RetrBlk) /\ OnePerPattern' /\ Jobs' = J0
  <2>1. "decode" \notin Readers3 /\ Bases(unord_q') \subseteq Bases(unord_q)
    BY <1>1 DEF Readers3
  <2> QED
    BY <1>1, <1>2, <1>7, <1>9, <2>1, MasterMoves DEF bs
<1> HIDE DEF J0, rb
<1>11. Work(stream, Jobs \ {rb}, B, ublk', p, tail_offs)
  BY <1>1, <1>3, <1>4, <1>5, <1>6, WorkEnds DEF rb
<1>12. Work(stream, J0, B, ublk', q, tail_offs)
  <2>1. ASSUME NEW x \in Jobs \ {rb}, x.base \in RealBases(stream), p < x.base PROVE x \in J0
    <3>1. q < x.base
      BY <1>7, <2>1 DEF NoBlockUpTo
    <3> QED
      BY <1>5, <1>7, <1>10, <2>1, <3>1
  <2> QED
    BY <1>3, <1>5, <1>6, <1>7, <1>10, <1>11, <2>1, WorkMoves
<1>13. Retrievers'
  <2>1. Work(stream', Jobs', Bases(unord_q'), ublk', parser_bs'.pos[1], tail_offs')
    BY <1>1, <1>7, <1>10, <1>12
  <2> QED
    BY <1>1, <1>4, <1>10, <2>1, RetrieversAgain
<1>14. Mastered'
  <2>1. Reached(stream, J0, q) \subseteq {rb}
    <3>1. \A x \in Jobs : x.base \in Nat
      BY <1>3, <1>4, WorkTypes
    <3>2. J0 \subseteq Jobs
      BY <1>5, <1>10
    <3> QED
      BY <1>6, <1>7, <3>1, <3>2, ReachedShrinks
  <2>2. rb \notin J0
    BY <1>5, <1>10
  <2>3. Reached(stream, J0, bs.pos[1]) = {}
    BY <1>7, <2>1, <2>2 DEF Reached
  <2>4. Exclusive(stream, J0, bs, TRUE, {})
    BY <2>3, TokenFree
  <2>5. Exclusive(stream', Jobs', parser_bs', parse_token', At({"parse"})')
    BY <1>1, <1>9, <1>10, <2>4
  <2> QED
    BY <2>5, MasteredAgain
<1> QED
  BY <1>1, <1>2, <1>10, <1>13, <1>14, MasterAgain

(* Ahead of the parser, worker w has retrieved what is known by its link.  *)
Ahead(w, rb, rb2, bs) ==
  /\ Pending(rb, Bases(unord_q), ublk) /\ rb.link = rb.base
  /\ rb.base \in DOMAIN ublk /\ ublk[rb.base] \in UnordBlk /\ ublk[rb.base].complete = FALSE
  /\ bs \in Bits /\ EndOK(stream, rb.base, bs, tail_offs)
  /\ rb2 \in RetrBlk /\ rb2.base = rb.base /\ rb2.link = rb.base
  /\ bs = BitsAt(rb2.pos[1], rb2.offset) /\ JobOK(stream, rb2, tail_offs)
  /\ rb \in Jobs /\ RestJobs(w) = Jobs \ {rb} /\ \A x \in RestJobs(w) : x.base # rb.base
  /\ \A J2 \in {RestJobs(w), RestJobs(w) \cup {rb2}} :
       Reached(stream, J2, parser_bs.pos[1]) = Reached(stream, Jobs, parser_bs.pos[1])

LEMMA AheadRetrieves ==
  ASSUME MasterInv, ~ parsing_done, NEW w \in Workers, pc[w] = "retrieve",
         ~ InVain(job[w]), ~ IsMaster(job[w]), NEW r \in Retrieved(w)
  PROVE  Ahead(w, job[w], MovedTo(job[w], r.bs), r.bs)
<1> DEFINE rb == job[w]
           p == parser_bs.pos[1]
           u == rb.base
           rb2 == MovedTo(rb, r.bs)
<1> DEFINE e == r.bs
           B == Bases(unord_q)
<1>1. StreamOK(stream) /\ Work(stream, Jobs, B, ublk, p, tail_offs)
  BY MasterParts, MasterWorking
<1>2. /\ rb \in Jobs /\ RestJobs(w) = Jobs \ {rb} /\ JobOK(stream, rb, tail_offs) /\ rb \in RetrBlk
      /\ \A x \in RestJobs(w) : x.base # u
      /\ u \in Nat
      /\ \A x \in Retrieved(w) :
           \E q \in Nat, l \in Nat :
             /\ x.bs = BitsAt(q, l) /\ u <= q
             /\ q <= Pattern(stream, u).stop /\ Loaded(q, l, tail_offs)
             /\ l <= Pattern(stream, u).need
  BY RetrieverReturns
<1>3. Pending(rb, B, ublk) /\ rb \notin Reached(stream, Jobs, p)
  BY <1>2, WhoIsMaster
<1>4. PICK q \in Nat, l \in Nat :
        /\ e = BitsAt(q, l) /\ u <= q
        /\ q <= Pattern(stream, u).stop /\ Loaded(q, l, tail_offs)
        /\ l <= Pattern(stream, u).need
  BY <1>2
<1>5. e \in Bits /\ e.pos = <<q, 0>> /\ e.pos[1] = q /\ e.offset = l /\ e.pos \in UnitPos
  BY <1>4, BitsAtOf
<1> HIDE DEF e, B
<1>6. u \in B /\ rb.link = u /\ ~ ublk[u].complete
  BY <1>3 DEF Pending
<1>7. u \in DOMAIN ublk /\ ublk[u] \in UnordBlk
  BY <1>1, <1>6, WorkTypes
<1>8. ublk[u].complete = FALSE
  BY <1>6, <1>7 DEF UnordBlk
<1>9. /\ rb2 \in RetrBlk /\ rb2.base = u /\ rb2.link = u /\ rb2.pos = <<q, 0>>
      /\ rb2.pos[1] = q /\ rb2.offset = l
  BY <1>2, <1>5, <1>6 DEF MovedTo, RetrBlk, e
<1>10. EndOK(stream, u, e, tail_offs)
  BY <1>4, <1>5 DEF EndOK
<1>11. JobOK(stream, rb2, tail_offs)
  BY <1>2, <1>4, <1>9 DEF JobOK
<1>12. e = BitsAt(rb2.pos[1], rb2.offset)
  BY <1>4, <1>9
<1>13. /\ Reached(stream, RestJobs(w), p) = Reached(stream, Jobs, p)
       /\ Reached(stream, RestJobs(w) \cup {rb2}, p) = Reached(stream, Jobs, p)
  <2>1. rb2 \notin Reached(stream, Jobs \cup {rb2}, p)
    BY <1>2, <1>3, <1>9 DEF Reached
  <2> QED
    BY <1>2, <1>3, <2>1 DEF Reached
<1>14. Ahead(w, rb, rb2, r.bs)
  <2>1. u = rb.base /\ p = parser_bs.pos[1] /\ B = Bases(unord_q) /\ e = r.bs
    BY DEF B, e
  <2> HIDE DEF rb, u, p, rb2
  <2> QED
    BY <1>2, <1>3, <1>5, <1>6, <1>7, <1>8, <1>9, <1>10, <1>11, <1>12, <1>13, <2>1 DEF Ahead
<1> QED
  BY <1>14

LEMMA RetrieveMoreAheadKeeps ==
  ASSUME CountInv, MasterInv, NEW w \in Workers, RetrieveMoreAhead(w)
  PROVE  MasterInv'
<1> DEFINE rb == job[w]
           p == parser_bs.pos[1]
           u == rb.base
           B == Bases(unord_q)
<1>1. PICK r \in Retrieved(w) :
        /\ pc[w] = "retrieve" /\ ~ InVain(rb) /\ ~ IsMaster(rb) /\ Detach(w)
        /\ ublk' = [ublk EXCEPT ![rb.link].end_pos = r.bs]
        /\ retr_q' = enqueue(retr_q, MovedTo(rb, r.bs))
        /\ job' = [job EXCEPT ![w] = NULL]
        /\ UNCHANGED <<eof, scan_q, unord_q, parse_token, parsing_done>>
        /\ Moves(w, "loop")
  BY DEF RetrieveMoreAhead, RetrieveReturns, slotVars, Moves, WorkerStates
<1> DEFINE e == MovedTo(rb, r.bs)
           J2 == RestJobs(w) \cup {e}
<1>2. ~ parsing_done
  BY <1>1 DEF InVain
<1>3. DOMAIN job = Workers /\ StreamOK(stream)
  BY MasterParts
<1>4. OnePerPattern /\ retr_q \in Seq(RetrBlk) /\ Work(stream, Jobs, B, ublk, p, tail_offs)
  BY <1>2, MasterWorking
<1>5. /\ Pending(rb, B, ublk) /\ rb.link = u
      /\ u \in DOMAIN ublk /\ ublk[u] \in UnordBlk /\ ublk[u].complete = FALSE
      /\ r.bs \in Bits /\ EndOK(stream, u, r.bs, tail_offs)
      /\ e \in RetrBlk /\ e.base = u /\ e.link = u
      /\ r.bs = BitsAt(e.pos[1], e.offset) /\ JobOK(stream, e, tail_offs)
      /\ rb \in Jobs /\ RestJobs(w) = Jobs \ {rb} /\ \A x \in RestJobs(w) : x.base # u
      /\ Reached(stream, J2, p) = Reached(stream, Jobs, p)
  <2>1. pc[w] = "retrieve" /\ ~ InVain(job[w]) /\ ~ IsMaster(job[w])
    BY <1>1
  <2>2. Ahead(w, job[w], MovedTo(job[w], r.bs), r.bs)
    BY <1>2, <2>1, AheadRetrieves
  <2>3. Ahead(w, rb, e, r.bs)
    BY <2>2
  <2>4. u = rb.base /\ J2 \in {RestJobs(w), RestJobs(w) \cup {e}}
    OBVIOUS
  <2> HIDE DEF rb, u, e, J2
  <2> QED
    BY <2>3, <2>4 DEF Ahead
<1>6. /\ DOMAIN ublk' = DOMAIN ublk /\ \A x \in DOMAIN ublk \ {u} : ublk'[x] = ublk[x]
      /\ ublk'[u] \in UnordBlk /\ ublk'[u].end_pos = r.bs /\ ~ ublk'[u].complete
  <2>1. ublk' = [ublk EXCEPT ![u].end_pos = r.bs]
    BY <1>1, <1>5
  <2>2. ublk'[u] = [ublk[u] EXCEPT !.end_pos = r.bs]
    BY <1>5, <2>1
  <2>3. ublk'[u] \in UnordBlk /\ ublk'[u].end_pos = r.bs /\ ~ ublk'[u].complete
    BY <1>5, <2>2 DEF UnordBlk
  <2> QED
    BY <1>5, <2>1, <2>3
<1>7. retr_q' = enqueue(retr_q, e) /\ u = rb.base
  BY <1>1
<1>8. Step(w, "loop")
  <2>1. job' = [job EXCEPT ![w] = job'[w]]
    BY <1>1, <1>3
  <2> QED
    BY <1>1, <1>3, <2>1, MovesStep
<1> HIDE DEF rb, u, B, e
<1>9. Work(stream, J2, B, ublk', p, tail_offs)
  <2>1. J2 = (Jobs \ {rb}) \cup {e} /\ \A x \in Jobs \ {rb} : x.base # rb.base
    BY <1>5, <1>7
  <2> DEFINE bs == r.bs
             ub2 == ublk'
             J == Jobs
  <2>2. bs \in Bits /\ EndOK(stream, u, bs, tail_offs) /\ bs = BitsAt(e.pos[1], e.offset)
    BY <1>5
  <2>3. /\ DOMAIN ub2 = DOMAIN ublk /\ \A x \in DOMAIN ublk \ {u} : ub2[x] = ublk[x]
        /\ ub2[u] \in UnordBlk /\ ub2[u].end_pos = bs /\ ~ ub2[u].complete
    BY <1>6
  <2>4. J2 = IF ub2[u].complete THEN J \ {rb} ELSE (J \ {rb}) \cup {e}
    BY <2>1, <2>3
  <2>5. /\ rb \in J /\ Pending(rb, B, ublk) /\ Work(stream, J, B, ublk, p, tail_offs)
        /\ \A x \in J \ {rb} : x.base # rb.base
    BY <1>4, <1>5, <2>1 DEF B
  <2> HIDE DEF bs, ub2, J, J2, p
  <2>6. Work(stream, J2, B, ub2, p, tail_offs)
    BY <1>3, <1>5, <1>7, <2>2, <2>3, <2>4, <2>5, WorkNotes
  <2> QED
    BY <2>6 DEF ub2
<1>10. retr_q' \in Seq(RetrBlk) /\ OnePerPattern' /\ Jobs' = J2
  <2>1. RestJobs(w) = ToSet(retr_q) \cup RestInHand(w) /\ "loop" # "retrieve"
    BY DEF RestJobs
  <2>2. /\ \A d \in RetrBlk :
             retr_q' = enqueue(retr_q, d) /\ (\A x \in RestJobs(w) : x.base # d.base) =>
               retr_q' \in Seq(RetrBlk) /\ OnePerPattern' /\ Jobs' = RestJobs(w) \cup {d}
    BY <1>4, <1>8, <2>1, RetrQueue DEF OnePerPattern
  <2> QED
    BY <1>5, <1>7, <2>2
<1> HIDE DEF J2
<1> QED
  BY <1>1, <1>2, <1>5, <1>8, <1>9, <1>10, RetrieverDetaches DEF Readers3, B

LEMMA RetrieveOverAheadKeeps ==
  ASSUME CountInv, MasterInv, NEW w \in Workers, RetrieveOverAhead(w)
  PROVE  MasterInv'
<1> DEFINE rb == job[w]
           p == parser_bs.pos[1]
           u == rb.base
           B == Bases(unord_q)
           done == [pos |-> <<job[w].base, 0>>]
<1>1. PICK r \in Retrieved(w) :
        /\ pc[w] = "retrieve" /\ ~ InVain(rb) /\ ~ IsMaster(rb) /\ Detach(w)
        /\ ublk' = [ublk EXCEPT ![rb.link].end_pos = r.bs, ![rb.link].complete = TRUE]
        /\ job' = [job EXCEPT ![w] = done]
        /\ UNCHANGED <<eof, scan_q, retr_q, unord_q, parse_token, parsing_done>>
        /\ Moves(w, "decode")
  BY DEF RetrieveOverAhead, RetrieveReturns, slotVars, queueVars, ToDecode, Moves, WorkerStates
<1> HIDE DEF done
<1> DEFINE e == MovedTo(rb, r.bs)
           J2 == RestJobs(w)
<1>2. ~ parsing_done
  BY <1>1 DEF InVain
<1>3. DOMAIN job = Workers /\ StreamOK(stream)
  BY MasterParts
<1>4. OnePerPattern /\ retr_q \in Seq(RetrBlk) /\ Work(stream, Jobs, B, ublk, p, tail_offs)
  BY <1>2, MasterWorking
<1>5. /\ Pending(rb, B, ublk) /\ rb.link = u
      /\ u \in DOMAIN ublk /\ ublk[u] \in UnordBlk /\ ublk[u].complete = FALSE
      /\ r.bs \in Bits /\ EndOK(stream, u, r.bs, tail_offs)
      /\ e \in RetrBlk /\ e.base = u /\ e.link = u
      /\ r.bs = BitsAt(e.pos[1], e.offset) /\ JobOK(stream, e, tail_offs)
      /\ rb \in Jobs /\ RestJobs(w) = Jobs \ {rb} /\ \A x \in RestJobs(w) : x.base # u
      /\ Reached(stream, J2, p) = Reached(stream, Jobs, p)
  <2>1. pc[w] = "retrieve" /\ ~ InVain(job[w]) /\ ~ IsMaster(job[w])
    BY <1>1
  <2>2. Ahead(w, job[w], MovedTo(job[w], r.bs), r.bs)
    BY <1>2, <2>1, AheadRetrieves
  <2>3. Ahead(w, rb, e, r.bs)
    BY <2>2
  <2>4. u = rb.base /\ J2 \in {RestJobs(w), RestJobs(w) \cup {e}}
    OBVIOUS
  <2> HIDE DEF rb, u, e, J2
  <2> QED
    BY <2>3, <2>4 DEF Ahead
<1>6. /\ DOMAIN ublk' = DOMAIN ublk /\ \A x \in DOMAIN ublk \ {u} : ublk'[x] = ublk[x]
      /\ ublk'[u] \in UnordBlk /\ ublk'[u].end_pos = r.bs /\ ublk'[u].complete
  <2>1. ublk' = [ublk EXCEPT ![u].end_pos = r.bs, ![u].complete = TRUE]
    BY <1>1, <1>5
  <2>2. ublk'[u] = [ublk[u] EXCEPT !.end_pos = r.bs, !.complete = TRUE]
    BY <1>5, <2>1
  <2>3. ublk'[u] \in UnordBlk /\ ublk'[u].end_pos = r.bs /\ ublk'[u].complete
    BY <1>5, <2>2 DEF UnordBlk
  <2> QED
    BY <1>5, <2>1, <2>3
<1>7. retr_q' = retr_q /\ u = rb.base
  BY <1>1
<1>8. Step(w, "decode")
  <2>1. job' = [job EXCEPT ![w] = job'[w]]
    BY <1>1, <1>3
  <2> QED
    BY <1>1, <1>3, <2>1, MovesStep
<1> HIDE DEF rb, u, B, e
<1>9. Work(stream, J2, B, ublk', p, tail_offs)
  <2>1. J2 = Jobs \ {rb} /\ \A x \in Jobs \ {rb} : x.base # rb.base
    BY <1>5, <1>7
  <2> DEFINE bs == r.bs
             ub2 == ublk'
             J == Jobs
  <2>2. bs \in Bits /\ EndOK(stream, u, bs, tail_offs) /\ bs = BitsAt(e.pos[1], e.offset)
    BY <1>5
  <2>3. /\ DOMAIN ub2 = DOMAIN ublk /\ \A x \in DOMAIN ublk \ {u} : ub2[x] = ublk[x]
        /\ ub2[u] \in UnordBlk /\ ub2[u].end_pos = bs /\ ub2[u].complete
    BY <1>6
  <2>4. J2 = IF ub2[u].complete THEN J \ {rb} ELSE (J \ {rb}) \cup {e}
    BY <2>1, <2>3
  <2>5. /\ rb \in J /\ Pending(rb, B, ublk) /\ Work(stream, J, B, ublk, p, tail_offs)
        /\ \A x \in J \ {rb} : x.base # rb.base
    BY <1>4, <1>5, <2>1 DEF B
  <2> HIDE DEF bs, ub2, J, J2, p
  <2>6. Work(stream, J2, B, ub2, p, tail_offs)
    BY <1>3, <1>5, <1>7, <2>2, <2>3, <2>4, <2>5, WorkNotes
  <2> QED
    BY <2>6 DEF ub2
<1>10. retr_q' \in Seq(RetrBlk) /\ OnePerPattern' /\ Jobs' = J2
  <2>1. RestJobs(w) = ToSet(retr_q) \cup RestInHand(w) /\ "decode" # "retrieve"
    BY DEF RestJobs
  <2> QED
    BY <1>4, <1>7, <1>8, <2>1, RetrQueue DEF OnePerPattern
<1> HIDE DEF J2
<1> QED
  BY <1>1, <1>2, <1>5, <1>8, <1>9, <1>10, RetrieverDetaches DEF Readers3, B

(***************************************************************************)
(* The scanners.                                                           *)
(***************************************************************************)
(* Neither the parser nor a retriever does anything.                       *)
LEMMA OthersStay ==
  ASSUME MasterInv, ~ parsing_done,
         UNCHANGED <<stream, input_q, head_offs, tail_offs, retr_q, unord_q, ublk, parser_bs,
                     parse_token>>,
         At({"retrieve"})' = At({"retrieve"}), At({"parse"})' = At({"parse"}),
         \A v \in At({"retrieve"}) \cup At({"parse"}) : job'[v] = job[v]
  PROVE  ParserPlaced' /\ Retrievers' /\ Mastered'
<1>1. /\ ParserPlaced /\ Retrievers
      /\ Exclusive(stream, Jobs, parser_bs, parse_token, At({"parse"}))
  BY MasterWorking
<1>2. \A v \in Workers : pc'[v] = "parse" => pc[v] = "parse" /\ job'[v] = job[v]
  BY DEF At
<1>3. ParserPlaced'
  BY <1>1, <1>2, ParserStays
<1>4. Retrievers' /\ Jobs' = Jobs
  BY <1>1, RetrieversStay
<1>5. Mastered'
  <2>1. Exclusive(stream', Jobs', parser_bs', parse_token', At({"parse"})')
    BY <1>1, <1>4
  <2> QED
    BY <2>1, MasteredAgain
<1> QED
  BY <1>3, <1>4, <1>5

(* A bitstream that scans in an input block is at words of it.             *)
LEMMA ScansAt ==
  ASSUME NEW x, NEW b \in InBlk, ScansIn(x, b)
  PROVE  /\ x.pos[1] \in Nat /\ x.pos = <<x.pos[1], 0>> /\ x.offset \in Nat
         /\ x.offset = Words(x.pos[1]) /\ 2 * b.offset <= x.pos[1]
         /\ b.offset <= x.offset /\ x.offset < End(b)
<1>1. /\ x.pos \in UnitPos /\ x.offset = Words(x.pos[1]) /\ 2 * b.offset <= x.pos[1]
      /\ x.offset < End(b)
  BY DEF ScansIn
<1>2. x.pos[1] \in Nat /\ x.pos = <<x.pos[1], 0>> /\ b.offset \in Nat
  BY <1>1, InBlkOf DEF UnitPos
<1> DEFINE p == x.pos[1]
           o == x.offset
           k == b.offset
<1>3. p \in Nat /\ k \in Nat /\ o = Words(p) /\ 2 * k <= p
  BY <1>1, <1>2
<1> HIDE DEF p, o, k
<1>4. o \in Nat /\ p <= 2 * o
  BY <1>3, WordsOf
<1>5. k <= o
  BY <1>3, <1>4
<1> QED
  BY <1>1, <1>2, <1>4, <1>5 DEF p, o, k

(* Two input blocks with a word in common are the same.                    *)
LEMMA SameBlock ==
  ASSUME NEW b \in InBlk, NEW c \in InBlk, Apart(b, c), NEW o \in Nat,
         b.offset <= o, o < End(b), c.offset <= o, o < End(c)
  PROVE  b = c
<1> DEFINE bo == b.offset
           co == c.offset
           be == End(b)
           ce == End(c)
<1>1. bo \in Nat /\ co \in Nat /\ be \in Nat /\ ce \in Nat
  BY InBlkOf
<1>2. b = c \/ be <= co \/ ce <= bo
  BY DEF Apart
<1>3. bo <= o /\ o < be /\ co <= o /\ o < ce
  OBVIOUS
<1> HIDE DEF bo, co, be, ce
<1>4. ~ (be <= co) /\ ~ (ce <= bo)
  BY <1>1, <1>3
<1> QED
  BY <1>2, <1>4

LEMMA DoScanKeeps ==
  ASSUME CountInv, MasterInv, NEW w \in Workers, DoScan(w)
  PROVE  MasterInv'
<1> DEFINE x0 == peek(scan_q)
           j0 == [pos |-> x0.pos, offset |-> x0.offset, skip |-> Skip(x0)]
           A == At({"scan"})
           B == Bases(unord_q)
<1>1. pc[w] = "loop" /\ scan_q # <<>> /\ can_attach(x0)
  BY TaskReady DEF CountInv, DoScan, AtTask, can_scan
<1>2. ~ parsing_done
  BY <1>1 DEF MasterInv, Finished
<1>3. Nums /\ Buffers /\ SourceSteady /\ DOMAIN job = Workers
  BY MasterParts
<1>4. Scanners /\ parser_bs.pos[1] \in Nat
  BY <1>2, MasterWorking
<1>5. /\ job' = [job EXCEPT ![w] = j0] /\ Attach(w, x0) /\ scan_q' = dequeue(scan_q)
      /\ UNCHANGED <<sourceVars, eof, stream, input_q, head_offs, tail_offs, retr_q,
                     unord_q, ublk, parsing_done, parse_token, parser_bs>>
      /\ Moves(w, "scan")
  BY DEF DoScan, unordVars, parserVars, Moves, WorkerStates
<1>6. /\ x0 \in ToSet(scan_q) /\ scan_q' \in Seq(Bits) /\ Sorted(scan_q')
      /\ ToSet(scan_q') = ToSet(scan_q) \ {x0}
  <2>1. scan_q \in Seq(Bits) /\ Sorted(scan_q) /\ \A x \in Bits : x.pos \in Position
    BY <1>4 DEF Scanners, Bits, UnitPos, Position
  <2> QED
    BY <1>1, <1>5, <2>1, DequeueSorted, DequeueType
<1>7. j0.pos = x0.pos /\ j0.offset = x0.offset /\ j0.skip = Skip(x0)
  OBVIOUS
<1> HIDE DEF x0, j0
<1>8. PICK b \in ToSet(input_q) : ScansIn(x0, b) /\ FoundBehind(x0, b, B)
  BY <1>4, <1>6 DEF Scanners
<1>9. /\ \A c \in ToSet(input_q) : c \in InBlk /\ head_offs <= c.offset /\ End(c) <= tail_offs
      /\ \A c, d \in ToSet(input_q) : Apart(c, d)
  BY <1>3, ChainMembers DEF Nums, Buffers
<1>10. /\ x0.pos[1] \in Nat /\ x0.offset \in Nat /\ b.offset <= x0.offset /\ x0.offset < End(b)
  BY <1>8, <1>9, ScansAt
<1>11. head_offs <= x0.offset /\ x0.offset < tail_offs
  BY <1>3, <1>8, <1>9, <1>10, InBlkOf DEF Nums
<1>12. job'[w] = j0 /\ Step(w, "scan")
  <2>1. job'[w] = j0 /\ job' = [job EXCEPT ![w] = job'[w]]
    BY <1>3, <1>5
  <2> QED
    BY <1>3, <1>5, <2>1, MovesStep
<1>13. /\ Alone(w) /\ DOMAIN job' = Workers /\ pc'[w] = "scan"
       /\ A' = A \cup {w}
       /\ At({"parse"})' = At({"parse"}) \ {w} /\ At({"retrieve"})' = At({"retrieve"}) \ {w}
  BY <1>12, StepEffect DEF Step, Readers3
<1>14. w \notin At({"parse"}) /\ w \notin At({"retrieve"}) /\ w \notin A
  BY <1>1 DEF At
<1>15. /\ Buffers' /\ \A v \in Workers \ {w} : blk'[v] = blk[v]
       /\ blk'[w] \in ToSet(input_q) /\ blk'[w].offset <= x0.offset /\ x0.offset < End(blk'[w])
  <2>1. pc[w] \notin Readers3 /\ pc'[w] \in Readers3 /\ job'[w].offset = x0.offset
    BY <1>1, <1>7, <1>12, <1>13 DEF Readers3
  <2> QED
    BY <1>1, <1>3, <1>5, <1>10, <1>11, <1>13, <2>1, AttachStep
<1>16. blk'[w] = b
  BY <1>8, <1>9, <1>10, <1>15, SameBlock
<1>17. SourceSteady'
  <2>1. Nums' /\ UNCHANGED <<source, file_len, ispec_total, avail>>
    BY <1>3, <1>5 DEF Nums, sourceVars
  <2> QED
    BY <1>3, <1>5, <2>1, SteadyStays
<1>18. ParserPlaced' /\ Retrievers' /\ Mastered'
  <2>1. \A v \in At({"retrieve"}) \cup At({"parse"}) : v \in Workers \ {w}
    BY <1>14 DEF At
  <2>2. \A v \in At({"retrieve"}) \cup At({"parse"}) : job'[v] = job[v]
    BY <1>12, <2>1 DEF Step
  <2> QED
    BY <1>2, <1>5, <1>13, <1>14, <2>2, OthersStay
<1>19. \A v \in A : v \in Workers \ {w} /\ job'[v] = job[v] /\ blk'[v] = blk[v]
  <2>1. \A v \in A : v \in Workers \ {w}
    BY <1>14 DEF At
  <2> QED
    BY <1>12, <1>15, <2>1 DEF Step
<1>20. Skip(x0) \in Nat
  BY <1>4, <1>10 DEF Skip
<1>21. /\ \A x \in ToSet(scan_q) :
             \E c \in ToSet(input_q) : ScansIn(x, c) /\ FoundBehind(x, c, B)
       /\ \A v \in A : /\ ScansIn(job[v], blk[v]) /\ FoundBehind(job[v], blk[v], B)
                       /\ job[v].skip \in Nat
       /\ \A c \in ToSet(input_q) :
            /\ \A x, y \in ToSet(scan_q) : ScansIn(x, c) /\ ScansIn(y, c) => x = y
            /\ \A x \in ToSet(scan_q), v \in A : ScansIn(x, c) => blk[v] # c
       /\ \A u, v \in A : blk[u] = blk[v] => u = v
  BY <1>4 DEF Scanners
<1>22. ScansIn(j0, b) /\ FoundBehind(j0, b, B) /\ j0.skip \in Nat
  BY <1>7, <1>8, <1>20 DEF ScansIn, FoundBehind
<1>23. Scanners'
  <2> HIDE DEF A, B
  <2>1. \A x \in ToSet(scan_q') :
          \E c \in ToSet(input_q) : ScansIn(x, c) /\ FoundBehind(x, c, B)
    BY <1>6, <1>21
  <2>2. \A v \in A' : /\ ScansIn(job'[v], blk'[v]) /\ FoundBehind(job'[v], blk'[v], B)
                      /\ job'[v].skip \in Nat
    BY <1>12, <1>13, <1>16, <1>19, <1>21, <1>22
  <2>3. ASSUME NEW c \in ToSet(input_q), NEW x \in ToSet(scan_q'), ScansIn(x, c), NEW v \in A'
        PROVE  blk'[v] # c
    BY <1>6, <1>8, <1>13, <1>16, <1>19, <1>21, <2>3
  <2>4. \A u, v \in A' : blk'[u] = blk'[v] => u = v
    BY <1>6, <1>8, <1>13, <1>16, <1>19, <1>21
  <2>5. \A c \in ToSet(input_q), x, y \in ToSet(scan_q') : ScansIn(x, c) /\ ScansIn(y, c) => x = y
    BY <1>6, <1>21
  <2>6. /\ (\A x \in ToSet(scan_q) :
              \E c \in ToSet(input_q) : ScansIn(x, c) /\ FoundBehind(x, c, Bases(unord_q)))'
        /\ (\A v \in At({"scan"}) :
              /\ ScansIn(job[v], blk[v]) /\ FoundBehind(job[v], blk[v], Bases(unord_q))
              /\ job[v].skip \in Nat)'
        /\ (\A c \in ToSet(input_q) :
              /\ \A x, y \in ToSet(scan_q) : ScansIn(x, c) /\ ScansIn(y, c) => x = y
              /\ \A x \in ToSet(scan_q), v \in At({"scan"}) : ScansIn(x, c) => blk[v] # c)'
    <3>1. Bases(unord_q)' = B
      BY <1>5 DEF B, Bases
    <3> QED
      BY <1>5, <2>1, <2>2, <2>3, <2>5, <3>1 DEF ScansIn, FoundBehind, A
  <2> QED
    BY <1>6, <2>4, <2>6 DEF Scanners, A
<1> QED
  BY <1>2, <1>5, <1>15, <1>17, <1>18, <1>23, MasterAgain

(* The block that worker w scans.                                          *)
LEMMA ScannerReads ==
  ASSUME MasterInv, NEW w \in Workers, pc[w] = "scan"
  PROVE  /\ w \notin At({"parse"}) /\ w \notin At({"retrieve"}) /\ w \in At({"scan"})
         /\ blk[w] # NULL /\ blk[w] \in InBlk
         /\ End(blk[w]) \in Nat /\ End(blk[w]) <= tail_offs
         /\ blk[w] \in ToSet(input_q) \/ End(blk[w]) <= head_offs
<1>1. Buffers
  BY MasterParts
<1>2. blk[w] # NULL
  BY <1>1 DEF Buffers, InputInHand
<1>3. /\ blk[w] \in InBlk /\ End(blk[w]) <= tail_offs
      /\ blk[w] \in ToSet(input_q) \/ End(blk[w]) <= head_offs
  BY <1>1, <1>2 DEF Buffers, Held
<1>4. w \notin At({"parse"}) /\ w \notin At({"retrieve"}) /\ w \in At({"scan"})
  BY DEF At
<1> QED
  BY <1>2, <1>3, <1>4, InBlkOf

(* What scan() has found when it returns.                                  *)
FoundAt(w, u) ==
  /\ u \in PatternBases(stream) /\ u \in Nat
  /\ Scanned(w).bs = BitsAt(u, Words(u))
  /\ job[w].pos[1] < u /\ u <= 2 * End(blk[w]) /\ Words(u) <= End(blk[w])

LEMMA ScannerReturns ==
  ASSUME MasterInv, ~ parsing_done, NEW w \in Workers, pc[w] = "scan", Scanned(w).rv = "OK"
  PROVE  \E u \in Nat : FoundAt(w, u)
<1> DEFINE x == job[w]
           limit == Limit(w, x)
           p == x.pos[1]
           r == Scanned(w)
<1>1. /\ w \in At({"scan"}) /\ blk[w] # NULL /\ blk[w] \in InBlk
      /\ End(blk[w]) \in Nat
  BY ScannerReads
<1>2. StreamOK(stream) /\ Scanners
  BY MasterParts, MasterWorking
<1>3. ScansIn(x, blk[w]) /\ x.skip \in Nat
  BY <1>1, <1>2 DEF Scanners
<1>4. /\ p \in Nat /\ x.pos = <<p, 0>> /\ x.offset \in Nat
      /\ x.offset = Words(p) /\ x.offset < End(blk[w])
  BY <1>1, <1>3, ScansAt
<1>5. limit = End(blk[w])
  BY <1>1 DEF Limit
<1>6. Words(p) <= limit
  BY <1>1, <1>4, <1>5
<1>7. r = Scan(stream, x, x.skip, limit)
  BY DEF Scanned
<1> HIDE DEF x, limit, p, r
<1>8. PICK u \in PatternBases(stream) :
        r.bs = BitsAt(u, Words(u)) /\ p < u /\ u <= 2 * limit /\ Words(u) <= limit
  <2>1. limit \in Nat /\ r.rv = "OK"
    BY <1>1, <1>5 DEF r
  <2> QED
    BY <1>2, <1>3, <1>4, <1>6, <1>7, <2>1, ScanGoesOn
<1>9. u \in Nat
  BY <1>2, PatternOf
<1>10. FoundAt(w, u)
  BY <1>5, <1>8, <1>9 DEF FoundAt, p, x, r
<1> QED
  BY <1>9, <1>10

(* The scanner of an input block puts back what is left of it.             *)
LEMMA ScannersGoOn ==
  ASSUME MasterInv, ~ parsing_done, NEW w \in Workers, pc[w] = "scan", NEW u \in Nat, FoundAt(w, u),
         Step(w, "loop"), input_q' = input_q, \A v \in Workers \ {w} : blk'[v] = blk[v],
         ScanOn(w, Scanned(w).bs), Bases(unord_q') \subseteq Bases(unord_q) \cup {u}
  PROVE  Scanners'
<1> DEFINE b == blk[w]
           z == BitsAt(u, Words(u))
           A == At({"scan"})
           B == Bases(unord_q)
           B2 == Bases(unord_q')
           S == ToSet(scan_q)
           I == ToSet(input_q)
<1>1. Nums /\ Buffers /\ Scanners
  BY MasterParts, MasterWorking
<1>2. /\ w \in A /\ b # NULL /\ b \in InBlk /\ End(b) \in Nat /\ End(b) <= tail_offs
      /\ b \in I \/ End(b) <= head_offs
  BY ScannerReads
<1>3. /\ scan_q \in Seq(Bits) /\ Sorted(scan_q)
      /\ \A x \in S : \E c \in I : ScansIn(x, c) /\ FoundBehind(x, c, B)
      /\ \A v \in A : /\ ScansIn(job[v], blk[v]) /\ FoundBehind(job[v], blk[v], B)
                      /\ job[v].skip \in Nat
      /\ \A c \in I :
           /\ \A x, y \in S : ScansIn(x, c) /\ ScansIn(y, c) => x = y
           /\ \A x \in S, v \in A : ScansIn(x, c) => blk[v] # c
      /\ \A v, x \in A : blk[v] = blk[x] => v = x
  BY <1>1 DEF Scanners
<1>4. /\ \A c \in I : c \in InBlk /\ head_offs <= c.offset
      /\ \A c, d \in I : Apart(c, d)
  BY <1>1, ChainMembers DEF Nums, Buffers
<1>5. A' = A \ {w}
  BY StepAway DEF Readers3
<1>6. \A v \in A' : /\ v \in A /\ v # w /\ job'[v] = job[v] /\ blk'[v] = blk[v]
                    /\ blk[v] \in InBlk /\ blk[v] # b /\ Apart(b, blk[v])
  <2>1. \A v \in A' : v \in A /\ v # w /\ v \in Workers /\ pc[v] = "scan"
    BY <1>5 DEF At
  <2>2. \A v \in A' : blk[v] # NULL /\ blk[v] \in InBlk
    BY <2>1, ScannerReads
  <2>3. \A v \in A' : Apart(b, blk[v])
    BY <1>1, <1>2, <2>1, <2>2 DEF Buffers, Held
  <2>4. \A v \in A' : job'[v] = job[v] /\ blk'[v] = blk[v]
    BY <2>1 DEF Step
  <2> QED
    BY <1>2, <1>3, <2>1, <2>2, <2>3, <2>4
<1>7. /\ job[w].pos[1] \in Nat /\ 2 * b.offset <= job[w].pos[1]
      /\ job[w].pos[1] < u /\ u <= 2 * End(b) /\ Words(u) <= End(b) /\ Words(u) \in Nat
      /\ Scanned(w).bs = z
  <2>1. ScansIn(job[w], b)
    BY <1>2, <1>3
  <2> QED
    BY <1>2, <2>1, ScansAt, WordsOf DEF FoundAt
<1>8. z \in Bits /\ z.pos = <<u, 0>> /\ z.pos \in UnitPos /\ z.pos[1] = u /\ z.offset = Words(u)
  BY <1>7, BitsAtOf
<1>9. b.offset \in Nat /\ b.offset <= Words(u) /\ 2 * b.offset <= u
  <2> DEFINE o == b.offset
             p == job[w].pos[1]
             n == Words(u)
  <2>1. o \in Nat /\ p \in Nat /\ n \in Nat /\ 2 * o <= p /\ p < u /\ u <= 2 * n
    BY <1>2, <1>7, InBlkOf, WordsOf
  <2> HIDE DEF o, p, n
  <2>2. o <= n /\ 2 * o <= u
    BY <2>1
  <2> QED
    BY <2>1, <2>2 DEF o, n
(* What was found is behind the others.                                    *)
<1>10. ASSUME NEW x, NEW c \in InBlk, ScansIn(x, c), FoundBehind(x, c, B), c # b, Apart(b, c)
       PROVE  FoundBehind(x, c, B2)
  <2>1. x.pos[1] \in Nat /\ 2 * c.offset <= x.pos[1] /\ c.offset \in Nat /\ End(c) \in Nat
    BY <1>10, ScansAt, InBlkOf
  <2>2. u <= x.pos[1] \/ u > 2 * End(c)
    <3> DEFINE p == x.pos[1]
               co == c.offset
               ce == End(c)
               bo == b.offset
               be == End(b)
    <3>1. /\ p \in Nat /\ co \in Nat /\ ce \in Nat /\ bo \in Nat /\ be \in Nat
          /\ 2 * co <= p /\ u <= 2 * be /\ 2 * bo < u
          /\ be <= co \/ ce <= bo
      <4>1. 2 * b.offset < u
        <5> DEFINE jp == job[w].pos[1]
                   k == b.offset
        <5>1. jp \in Nat /\ k \in Nat /\ 2 * k <= jp /\ jp < u
          BY <1>7, <1>9
        <5> HIDE DEF jp, k
        <5>2. 2 * k < u
          BY <5>1
        <5> QED
          BY <5>2 DEF k
      <4> QED
        BY <1>2, <1>7, <1>9, <1>10, <2>1, <4>1 DEF Apart
    <3> HIDE DEF p, co, ce, bo, be
    <3>2. u <= p \/ u > 2 * ce
      BY <3>1
    <3> QED
      BY <3>2 DEF p, ce
  <2>3. \A v \in B2 : v \in B \/ v = u
    OBVIOUS
  <2> HIDE DEF B, B2
  <2> QED
    BY <1>10, <2>2, <2>3 DEF FoundBehind
<1>11. ASSUME NEW x \in S PROVE \E c \in I : ScansIn(x, c) /\ FoundBehind(x, c, B2)
  <2>1. PICK c \in I : ScansIn(x, c) /\ FoundBehind(x, c, B)
    BY <1>3
  <2>2. c # b
    BY <1>2, <1>3, <2>1
  <2>3. Apart(b, c)
    <3>1. CASE b \in I
      BY <1>4, <3>1
    <3>2. CASE End(b) <= head_offs
      <4> DEFINE be == End(b)
                 co == c.offset
      <4>1. be \in Nat /\ co \in Nat /\ head_offs \in Nat /\ be <= head_offs /\ head_offs <= co
        BY <1>1, <1>2, <1>4, <3>2, InBlkOf DEF Nums
      <4> HIDE DEF be, co
      <4>2. be <= co
        BY <4>1
      <4> QED
        BY <4>2 DEF Apart, be, co
    <3> QED
      BY <1>2, <3>1, <3>2
  <2>4. FoundBehind(x, c, B2)
    BY <1>4, <1>10, <2>1, <2>2, <2>3
  <2> QED
    BY <2>1, <2>4
<1>12. ASSUME NEW v \in A'
       PROVE  /\ ScansIn(job'[v], blk'[v]) /\ FoundBehind(job'[v], blk'[v], B2)
              /\ job'[v].skip \in Nat
  BY <1>3, <1>6, <1>10, <1>12
<1>13. ASSUME b \in I, Words(u) < End(b), NEW c \in I, ScansIn(z, c)
       PROVE  c = b
  BY <1>4, <1>8, <1>9, <1>13, ScansAt, SameBlock
<1>14. ASSUME b \in I, Words(u) < End(b)
       PROVE  ScansIn(z, b) /\ FoundBehind(z, b, B2)
  <2>1. ScansIn(z, b)
    BY <1>8, <1>9, <1>14 DEF ScansIn
  <2>2. ASSUME NEW v \in B PROVE v <= u \/ v > 2 * End(b)
    <3>1. v <= job[w].pos[1] \/ v > 2 * End(b)
      BY <1>2, <1>3 DEF FoundBehind
    <3>2. v \in Nat
      <4>1. StreamOK(stream) /\ Work(stream, Jobs, B, ublk, parser_bs.pos[1], tail_offs)
        BY MasterParts, MasterWorking
      <4> QED
        BY <4>1, WorkTypes
    <3> QED
      BY <1>7, <3>1, <3>2
  <2>3. \A v \in B2 : v \in B \/ v = u
    OBVIOUS
  <2> HIDE DEF B, B2
  <2>4. FoundBehind(z, b, B2)
    BY <1>8, <2>2, <2>3 DEF FoundBehind
  <2> QED
    BY <2>1, <2>4
<1>15. \/ scan_q' = scan_q
       \/ /\ b \in I /\ Words(u) < End(b)
          /\ scan_q' = enqueue(scan_q, z)
  <2>1. Limit(w, job[w]) = End(b)
    BY <1>2 DEF Limit
  <2>2. CASE scan_q' = scan_q
    BY <2>2
  <2>3. CASE scan_q' # scan_q
    <3>1. scan_q' = enqueue(scan_q, z) /\ z.offset # End(b) /\ ~ (z.offset < head_offs)
      BY <1>7, <2>1, <2>3 DEF ScanOn, Released
    <3>2. Words(u) < End(b) /\ ~ (Words(u) < head_offs)
      BY <1>2, <1>7, <1>8, <3>1
    <3>3. ~ (End(b) <= head_offs)
      BY <1>1, <1>2, <1>7, <3>2 DEF Nums
    <3> QED
      BY <1>2, <3>1, <3>2, <3>3
  <2> QED
    BY <2>2, <2>3
<1> HIDE DEF b, z, A, B, B2, S, I
<1>16. /\ scan_q' \in Seq(Bits) /\ Sorted(scan_q')
       /\ \A x \in ToSet(scan_q') : x \in S \/ (x = z /\ b \in I /\ Words(u) < End(b))
  <2>1. CASE scan_q' = scan_q
    BY <1>3, <2>1 DEF S
  <2>2. CASE b \in I /\ Words(u) < End(b) /\ scan_q' = enqueue(scan_q, z)
    <3>1. \A x \in Bits : x.pos \in Position
      BY DEF Bits, UnitPos, Position
    <3>2. \A x \in ToSet(scan_q) : x.pos # z.pos
      <4> SUFFICES ASSUME NEW x \in S, x.pos = z.pos PROVE FALSE
        BY DEF S
      <4>1. PICK c \in I : ScansIn(x, c)
        BY <1>3
      <4>2. x.pos[1] = u /\ x.offset = Words(u)
        BY <1>8, <4>1 DEF ScansIn
      <4>3. ScansIn(z, c)
        BY <1>8, <4>1, <4>2 DEF ScansIn
      <4>4. c = b
        BY <1>13, <2>2, <4>3
      <4> QED
        BY <1>2, <1>3, <2>2, <4>1, <4>4 DEF b
    <3>3. Sorted(scan_q') /\ ToSet(scan_q') = ToSet(scan_q) \cup {z}
      BY <1>3, <1>8, <2>2, <3>1, <3>2, EnqueueSorted
    <3>4. scan_q' \in Seq(Bits)
      BY <1>3, <1>8, <2>2, EnqueueType
    <3> QED
      BY <2>2, <3>3, <3>4 DEF S
  <2> QED
    BY <1>15, <2>1, <2>2
<1>17. \A x \in ToSet(scan_q') : \E c \in I : ScansIn(x, c) /\ FoundBehind(x, c, B2)
  BY <1>11, <1>14, <1>16
<1>18. ASSUME NEW c \in I, NEW x \in ToSet(scan_q'), ScansIn(x, c)
       PROVE  /\ \A y \in ToSet(scan_q') : ScansIn(y, c) => x = y
              /\ \A v \in A' : blk'[v] # c
  <2>1. \A y \in S : ScansIn(y, c) => c # b
    BY <1>2, <1>3 DEF b
  <2>2. CASE x \in S
    BY <1>3, <1>6, <1>13, <1>16, <1>18, <2>1, <2>2
  <2>3. CASE x = z /\ b \in I /\ Words(u) < End(b)
    <3>1. c = b
      BY <1>13, <1>18, <2>3
    <3> QED
      BY <1>6, <1>16, <2>1, <2>3, <3>1
  <2> QED
    BY <1>16, <2>2, <2>3
<1>19. \A v, x \in A' : blk'[v] = blk'[x] => v = x
  BY <1>3, <1>6
<1>20. /\ (\A x \in ToSet(scan_q) :
             \E c \in ToSet(input_q) : ScansIn(x, c) /\ FoundBehind(x, c, Bases(unord_q)))'
       /\ (\A v \in At({"scan"}) :
             /\ ScansIn(job[v], blk[v]) /\ FoundBehind(job[v], blk[v], Bases(unord_q))
             /\ job[v].skip \in Nat)'
       /\ (\A c \in ToSet(input_q) :
             /\ \A x, y \in ToSet(scan_q) : ScansIn(x, c) /\ ScansIn(y, c) => x = y
             /\ \A x \in ToSet(scan_q), v \in At({"scan"}) : ScansIn(x, c) => blk[v] # c)'
  <2>1. Bases(unord_q)' = B2
    BY DEF B2, Bases
  <2> QED
    BY <1>12, <1>17, <1>18, <2>1 DEF ScansIn, FoundBehind, A, I
<1> QED
  BY <1>16, <1>19, <1>20 DEF Scanners, A

(* A scanner comes back: its input block is let go.                        *)
LEMMA ScannerDetaches ==
  ASSUME CountInv, MasterInv, NEW w \in Workers, ScanReturns(w), Return(w)
  PROVE  /\ pc[w] = "scan" /\ Step(w, "loop") /\ SourceSteady' /\ Buffers'
         /\ UNCHANGED <<stream, input_q, head_offs, tail_offs, parser_bs, parse_token, parsing_done>>
         /\ \A v \in Workers \ {w} : blk'[v] = blk[v]
         /\ At({"parse"})' = At({"parse"}) /\ At({"retrieve"})' = At({"retrieve"})
         /\ At({"scan"})' = At({"scan"}) \ {w}
         /\ \A v \in At({"retrieve"}) \cup At({"parse"}) : v # w /\ job'[v] = job[v]
<1>1. /\ pc[w] = "scan" /\ Detach(w) /\ job' = [job EXCEPT ![w] = NULL]
      /\ UNCHANGED <<eof, parse_token, parsing_done>> /\ Moves(w, "loop")
  BY DEF ScanReturns, Moves, WorkerStates
<1>2. DOMAIN job = Workers
  BY MasterParts
<1>3. Step(w, "loop")
  <2>1. job' = [job EXCEPT ![w] = job'[w]]
    BY <1>1, <1>2
  <2> QED
    BY <1>1, <1>2, <2>1, MovesStep
<1>4. /\ SourceSteady' /\ Buffers'
      /\ UNCHANGED <<stream, input_q, head_offs, tail_offs, parser_bs>>
      /\ \A v \in Workers \ {w} : blk'[v] = blk[v]
  BY <1>1, <1>3, DetachStep DEF Readers3
<1>5. /\ At({"parse"})' = At({"parse"}) \ {w} /\ At({"retrieve"})' = At({"retrieve"}) \ {w}
      /\ At({"scan"})' = At({"scan"}) \ {w}
  BY <1>3, StepAway DEF Readers3
<1>6. w \notin At({"parse"}) /\ w \notin At({"retrieve"})
  BY <1>1, ScannerReads
<1>7. \A v \in At({"retrieve"}) \cup At({"parse"}) : v \in Workers \ {w}
  BY <1>6 DEF At
<1>8. \A v \in At({"retrieve"}) \cup At({"parse"}) : v # w /\ job'[v] = job[v]
  BY <1>3, <1>7 DEF Step
<1> QED
  BY <1>1, <1>3, <1>4, <1>5, <1>6, <1>8

LEMMA ScanNothingKeeps ==
  ASSUME CountInv, MasterInv, NEW w \in Workers, ScanNothing(w)
  PROVE  MasterInv'
<1>1. /\ ScanReturns(w) /\ Return(w)
      /\ UNCHANGED <<scan_q, retr_q, unord_q, ublk>>
  BY DEF ScanNothing, unordVars
<1>2. /\ pc[w] = "scan" /\ Step(w, "loop") /\ SourceSteady' /\ Buffers'
      /\ UNCHANGED <<stream, input_q, head_offs, tail_offs, parser_bs, parse_token, parsing_done>>
      /\ \A v \in Workers \ {w} : blk'[v] = blk[v]
      /\ At({"parse"})' = At({"parse"}) /\ At({"retrieve"})' = At({"retrieve"})
      /\ At({"scan"})' = At({"scan"}) \ {w}
      /\ \A v \in At({"retrieve"}) \cup At({"parse"}) : v # w /\ job'[v] = job[v]
  BY <1>1, ScannerDetaches
<1>3. CASE parsing_done
  <2>1. Finished'
    BY <1>1, <1>2, <1>3 DEF MasterInv, Finished
  <2> QED
    BY <1>2, <1>3, <2>1, MasterAgain
<1>4. CASE ~ parsing_done
  <2>1. ParserPlaced' /\ Retrievers' /\ Mastered'
    BY <1>1, <1>2, <1>4, OthersStay
  <2>2. Scanners'
    <3>1. At({"scan"})' \subseteq At({"scan"}) /\ \A v \in At({"scan"})' : v \in Workers \ {w}
      BY <1>2 DEF At
    <3>2. \A v \in At({"scan"})' : job'[v] = job[v] /\ blk'[v] = blk[v]
      BY <1>2, <3>1 DEF Step
    <3>3. Scanners
      BY <1>4, MasterWorking
    <3>4. scan_q' \in Seq(Bits) /\ Sorted(scan_q')
      BY <1>1, <3>3 DEF Scanners
    <3> QED
      BY <1>1, <1>2, <3>1, <3>2, <3>3, <3>4, ScannersKeep
  <2> QED
    BY <1>2, <1>4, <2>1, <2>2, MasterAgain
<1> QED
  BY <1>3, <1>4

LEMMA ScanKnownKeeps ==
  ASSUME CountInv, MasterInv, NEW w \in Workers, ScanKnown(w)
  PROVE  MasterInv'
<1>1. /\ ScanReturns(w) /\ Return(w) /\ ~ parsing_done /\ Scanned(w).rv = "OK"
      /\ ScanOn(w, Scanned(w).bs) /\ UNCHANGED <<retr_q, unord_q, ublk>>
  BY DEF ScanKnown, unordVars
<1>2. /\ pc[w] = "scan" /\ Step(w, "loop") /\ SourceSteady' /\ Buffers'
      /\ UNCHANGED <<stream, input_q, head_offs, tail_offs, parser_bs, parse_token, parsing_done>>
      /\ \A v \in Workers \ {w} : blk'[v] = blk[v]
      /\ At({"parse"})' = At({"parse"}) /\ At({"retrieve"})' = At({"retrieve"})
      /\ At({"scan"})' = At({"scan"}) \ {w}
      /\ \A v \in At({"retrieve"}) \cup At({"parse"}) : v # w /\ job'[v] = job[v]
  BY <1>1, ScannerDetaches
<1>3. ParserPlaced' /\ Retrievers' /\ Mastered'
  BY <1>1, <1>2, OthersStay
<1>4. PICK u \in Nat : FoundAt(w, u)
  BY <1>1, <1>2, ScannerReturns
<1>5. Scanners'
  BY <1>1, <1>2, <1>4, ScannersGoOn
<1> QED
  BY <1>1, <1>2, <1>3, <1>5, MasterAgain

LEMMA ScanUniqueKeeps ==
  ASSUME CountInv, MasterInv, NEW w \in Workers, ScanUnique(w)
  PROVE  MasterInv'
<1> DEFINE r == Scanned(w)
           p == parser_bs.pos[1]
           B == Bases(unord_q)
<1>1. /\ ScanReturns(w) /\ Return(w) /\ ~ parsing_done /\ r.rv = "OK"
      /\ ScanOn(w, r.bs) /\ ~ pos_le(r.bs.pos, parser_bs.pos)
  BY DEF ScanUnique
<1>2. /\ pc[w] = "scan" /\ Step(w, "loop") /\ SourceSteady' /\ Buffers'
      /\ UNCHANGED <<stream, input_q, head_offs, tail_offs, parser_bs, parse_token, parsing_done>>
      /\ \A v \in Workers \ {w} : blk'[v] = blk[v]
      /\ At({"parse"})' = At({"parse"}) /\ At({"retrieve"})' = At({"retrieve"})
      /\ At({"scan"})' = At({"scan"}) \ {w}
      /\ \A v \in At({"retrieve"}) \cup At({"parse"}) : v # w /\ job'[v] = job[v]
  BY <1>1, ScannerDetaches
<1>3. PICK u \in Nat : FoundAt(w, u)
  BY <1>1, <1>2, ScannerReturns
<1>4. /\ Nums /\ StreamOK(stream) /\ w \in At({"scan"}) /\ w \notin At({"retrieve"})
      /\ End(blk[w]) \in Nat /\ End(blk[w]) <= tail_offs
  BY <1>2, MasterParts, ScannerReads
<1>5. /\ ParserPlaced /\ OnePerPattern /\ retr_q \in Seq(RetrBlk)
      /\ unord_q \in Seq(UnordPos) /\ Sorted(unord_q)
      /\ Work(stream, Jobs, B, ublk, p, tail_offs)
      /\ parser_bs \in Bits /\ p \in Nat /\ parser_bs.pos \in UnitPos
      /\ Exclusive(stream, Jobs, parser_bs, parse_token, At({"parse"}))
      /\ ScansIn(job[w], blk[w]) /\ FoundBehind(job[w], blk[w], B)
  BY <1>1, <1>4, MasterWorking DEF Scanners, Bits
<1> DEFINE o == Words(u)
           bs == BitsAt(u, o)
           e == [pos |-> bs.pos, offset |-> bs.offset, base |-> bs.pos[1], link |-> bs.pos[1]]
           new == [end_pos |-> bs, complete |-> FALSE, legitimate |-> FALSE]
<1>6. bs \in Bits /\ bs.pos = <<u, 0>> /\ bs.pos \in UnitPos /\ bs.pos[1] = u /\ bs.offset = o /\ o \in Nat
  BY WordsOf, BitsAtOf
<1>7. /\ unord_q' = enqueue(unord_q, [pos |-> bs.pos])
      /\ ublk' = [v \in DOMAIN ublk \cup {u} |-> IF v = u THEN new ELSE ublk[v]]
      /\ retr_q' = enqueue(retr_q, e)
  <2>1. r.bs = bs
    BY <1>3 DEF FoundAt
  <2> QED
    BY <1>6, <2>1 DEF ScanUnique
<1>8. /\ u \in PatternBases(stream) /\ job[w].pos[1] < u /\ u <= 2 * End(blk[w])
      /\ o <= End(blk[w]) /\ r.bs = bs
  BY <1>3 DEF FoundAt
<1>10. u \notin B
  <2>1. u \in B => u <= job[w].pos[1] \/ u > 2 * End(blk[w])
    BY <1>5 DEF FoundBehind
  <2>2. job[w].pos[1] \in Nat
    BY <1>5 DEF ScansIn, UnitPos
  <2> QED
    BY <1>4, <1>8, <2>1, <2>2
<1> DEFINE z == Pattern(stream, u).stop
           n == Pattern(stream, u).need
<1>11. z \in Nat /\ n \in Nat /\ u < z /\ o <= n
  <2>1. z \in Nat /\ n \in Nat /\ u < z /\ Words(z) <= n /\ Words(z) \in Nat
    BY <1>4, <1>8, PatternOf, WordsOf
  <2>2. o <= Words(z)
    BY <2>1, WordsGrow
  <2> HIDE DEF o, n, z
  <2>3. o <= n
    BY <1>6, <2>1, <2>2
  <2> QED
    BY <2>1, <2>3
<1>12. Loaded(u, o, tail_offs)
  <2>1. o <= tail_offs
    BY <1>4, <1>6, <1>8 DEF Nums
  <2> QED
    BY <1>6, <2>1 DEF Loaded
<1>13. /\ e \in RetrBlk /\ e.base = u /\ e.pos = <<u, 0>> /\ e.pos[1] = u /\ e.offset = o /\ e.link = u
  BY <1>6 DEF RetrBlk
<1> HIDE DEF r, o, bs, e, z, n
<1>9. p < u
  <2>1. ~ pos_le(<<u, 0>>, parser_bs.pos)
    BY <1>1, <1>6, <1>8
  <2>2. parser_bs.pos = <<p, 0>>
    BY <1>5 DEF UnitPos
  <2> HIDE DEF p
  <2> QED
    BY <1>5, <2>1, <2>2 DEF pos_le, pos_lt
<1>14. JobOK(stream, e, tail_offs) /\ EndOK(stream, u, bs, tail_offs) /\ bs = BitsAt(e.pos[1], e.offset)
  BY <1>6, <1>8, <1>11, <1>12, <1>13 DEF JobOK, EndOK, z, n, bs
<1>15. /\ Work(stream, Jobs \cup {e}, B \cup {u}, ublk', p, tail_offs)
       /\ \A x \in Jobs : x.base # u
  <2> DEFINE s == stream
             J == Jobs
             ub == ublk
             ub2 == ublk'
             tail == tail_offs
  <2>1. /\ StreamOK(s) /\ Work(s, J, B, ub, p, tail) /\ u \in PatternBases(s)
        /\ EndOK(s, u, bs, tail) /\ JobOK(s, e, tail)
    BY <1>4, <1>5, <1>8, <1>14
  <2>3. /\ DOMAIN ub2 = DOMAIN ub \cup {u} /\ ub2[u] = new
        /\ \A x \in DOMAIN ub \ {u} : ub2[x] = ub[x]
    BY <1>7
  <2>4. new \in UnordBlk /\ new.end_pos = bs /\ new.complete = FALSE
    BY <1>6 DEF UnordBlk
  <2> HIDE DEF s, J, ub, ub2, tail, B, p, new
  <2>2. /\ Work(s, J \cup {e}, B \cup {u}, ub2, p, tail)
        /\ \A x \in J : x.base # u
    <3>1. /\ p \in Nat /\ p < u /\ u \notin B /\ bs \in Bits
          /\ e.base = u /\ e.link = u /\ bs = BitsAt(e.pos[1], e.offset)
          /\ ub2[u] \in UnordBlk /\ ub2[u].end_pos = bs /\ ub2[u].complete = FALSE
      BY <1>5, <1>6, <1>9, <1>10, <1>13, <1>14, <2>3, <2>4
    <3>2. DOMAIN ub2 = DOMAIN ub \cup {u} /\ \A x \in DOMAIN ub \ {u} : ub2[x] = ub[x]
      BY <2>3
    <3>3. Begins(s, B, ub, p, tail, u, bs, ub2, e)
      BY <2>1, <3>1, <3>2 DEF Begins
    <3> QED
      BY <1>5, <2>1, <3>3, WorkFound
  <2> QED
    BY <2>2 DEF s, J, ub, ub2, tail
<1>16. unord_q' \in Seq(UnordPos) /\ Sorted(unord_q') /\ Bases(unord_q') = B \cup {u}
  <2>1. unord_q' = enqueue(unord_q, [pos |-> <<u, 0>>])
    BY <1>6, <1>7
  <2> QED
    BY <1>5, <1>10, <2>1, BasesJoin
<1>17. retr_q' \in Seq(RetrBlk) /\ OnePerPattern' /\ Jobs' = Jobs \cup {e}
  <2>1. RestJobs(w) = ToSet(retr_q) \cup RestInHand(w) /\ RestJobs(w) = Jobs /\ "loop" # "retrieve"
        /\ NoRepeats(retr_q)
    BY <1>4, <1>5, RestOf DEF RestJobs, OnePerPattern
  <2>2. \A x \in RestJobs(w) : x.base # e.base
    BY <1>13, <1>15, <2>1
  <2> QED
    <3>1. \A d \in RetrBlk :
            retr_q' = enqueue(retr_q, d) /\ (\A x \in RestJobs(w) : x.base # d.base) =>
              retr_q' \in Seq(RetrBlk) /\ OnePerPattern' /\ Jobs' = RestJobs(w) \cup {d}
      BY <1>2, <1>5, <2>1, RetrQueue
    <3> QED
      BY <1>7, <1>13, <2>1, <2>2, <3>1
<1>18. Retrievers'
  BY <1>2, <1>15, <1>16, <1>17, RetrieversAgain
<1>19. Mastered'
  <2>1. Reached(stream, Jobs \cup {e}, p) = Reached(stream, Jobs, p)
    BY <1>5, <1>9, <1>13 DEF Reached
  <2>2. Exclusive(stream, Jobs \cup {e}, parser_bs, parse_token, At({"parse"}))
    BY <1>5, <2>1 DEF Exclusive
  <2> QED
    BY <1>2, <1>17, <2>2, MasteredAgain
<1>20. ParserPlaced'
  <2>1. \A v \in Workers : pc'[v] = "parse" => pc[v] = "parse" /\ job'[v] = job[v]
    BY <1>2 DEF At
  <2> QED
    BY <1>2, <1>5, <2>1, ParserStays
<1>21. Scanners'
  BY <1>1, <1>2, <1>3, <1>16, ScannersGoOn DEF r
<1> QED
  BY <1>1, <1>2, <1>18, <1>19, <1>20, <1>21, MasterAgain

(* Nobody starts to read, and nobody comes back.                           *)
Undisturbed ==
  \A v \in Workers : pc'[v] = pc[v] \/ (pc[v] \notin Readers3 /\ pc'[v] \notin Readers3)

LEMMA ReadersStay ==
  ASSUME Undisturbed, NEW s \in Readers3
  PROVE  At({s})' = At({s})
<1>1. At({s})' = {v \in Workers : pc'[v] = s}
  BY DEF At
<1>2. At({s}) = {v \in Workers : pc[v] = s}
  BY DEF At
<1>3. \A v \in Workers : pc'[v] = s <=> pc[v] = s
  BY DEF Undisturbed
<1> HIDE DEF At
<1> QED
  BY <1>1, <1>2, <1>3

LEMMA UnlockUndisturbed ==
  ASSUME CountInv, Unlock(pc)
  PROVE  Undisturbed
<1>1. pc \in [Workers -> WorkerStates]
  BY DEF CountInv, CountsOK
<1>2. \A v \in Workers : pc'[v] = pc[v] \/ (pc[v] = "waiting" /\ pc'[v] = "enter")
  BY <1>1, UnlockEffect
<1> QED
  BY <1>2 DEF Undisturbed, Readers3

(* Patterns are found in what has been read.                               *)
LEMMA PatternsRead ==
  ASSUME NEW s, StreamOK(s), NEW J, NEW B, NEW ub, NEW p, NEW tail \in Nat,
         Work(s, J, B, ub, p, tail), NEW u \in B
  PROVE  u \in Nat /\ u <= 2 * tail
<1>1. u \in Nat /\ u \in PatternBases(s) /\ PatternOK(s, u, J, ub, p, tail) /\ ub[u] \in UnordBlk
  BY WorkTypes
<1> DEFINE e == ub[u].end_pos
           q == e.pos[1]
           o == e.offset
           n == Words(q)
<1>2. q \in Nat /\ o \in Nat
  BY <1>1 DEF UnordBlk, Bits, UnitPos
<1>3. u <= q /\ n <= o /\ o <= tail
  BY <1>1 DEF PatternOK, EndOK, Loaded
<1>4. n \in Nat /\ q <= 2 * n
  BY <1>2, WordsOf
<1> HIDE DEF q, o, n
<1> QED
  BY <1>1, <1>2, <1>3, <1>4

(* The parser and the retrievers, when input arrives.                      *)
LEMMA ParserGetsInput ==
  ASSUME MasterInv, ~ parsing_done, Undisturbed, Buffers', Nums',
         head_offs' = head_offs, tail_offs <= tail_offs',
         input_q' = Append(input_q, NewInBlk), End(NewInBlk) = tail_offs', tail_offs < tail_offs',
         UNCHANGED <<stream, retr_q, unord_q, ublk, parser_bs, parse_token, job>>
  PROVE  ParserPlaced' /\ Retrievers' /\ Mastered'
<1>1. /\ Nums /\ StreamOK(stream) /\ Chain(input_q, head_offs, tail_offs)
  BY MasterParts
<1>2. /\ ParserPlaced /\ OnePerPattern /\ retr_q \in Seq(RetrBlk)
      /\ unord_q \in Seq(UnordPos) /\ Sorted(unord_q)
      /\ Work(stream, Jobs, Bases(unord_q), ublk, parser_bs.pos[1], tail_offs)
      /\ PlaceOK(stream, parser_bs, tail_offs) /\ head_offs <= parser_bs.offset
      /\ parser_bs \in Bits /\ parser_bs.offset \in Nat
      /\ Exclusive(stream, Jobs, parser_bs, parse_token, At({"parse"}))
  BY MasterWorking
<1>3. At({"parse"})' = At({"parse"}) /\ At({"retrieve"})' = At({"retrieve"})
  BY ReadersStay DEF Readers3
<1>4. parser_bs.offset <= tail_offs /\ PlaceOK(stream, parser_bs, tail_offs')
  <2>1. parser_bs.offset <= tail_offs
    BY <1>2 DEF PlaceOK, Loaded
  <2>2. parser_bs.offset <= tail_offs'
    BY <1>1, <1>2, <2>1 DEF Nums
  <2> QED
    BY <1>2, <2>1, <2>2 DEF PlaceOK, Loaded
<1>5. parser_bs.offset < End(input_q'[1])
  <2>1. CASE input_q = <<>>
    <3>1. input_q'[1] = NewInBlk
      BY <2>1
    <3> QED
      BY <1>1, <1>2, <1>4, <3>1 DEF Nums
  <2>2. CASE input_q # <<>>
    <3>1. input_q'[1] = input_q[1]
      <4>1. input_q \in Seq(InBlk)
        BY <1>1 DEF Chain
      <4>2. Len(input_q) \in Nat /\ Len(input_q) > 0
        BY <2>2, <4>1
      <4> QED
        BY <4>1, <4>2
    <3> QED
      BY <1>2, <2>2, <3>1 DEF ParserPlaced
  <2> QED
    BY <2>1, <2>2
<1>6. ParserPlaced'
  <2>1. \A v \in Workers : pc'[v] = "parse" => job'[v] = parser_bs'
    <3>1. \A v \in Workers : pc'[v] = "parse" => pc[v] = "parse"
      BY DEF Undisturbed, Readers3
    <3> QED
      BY <1>2, <3>1 DEF ParserPlaced
  <2>2. PlaceOK(stream, parser_bs, tail_offs)'
    BY <1>4 DEF PlaceOK, RealBases
  <2>3. (input_q # <<>> => parser_bs.offset < End(input_q[1]))'
    BY <1>5 DEF End
  <2> QED
    BY <1>2, <2>1, <2>2, <2>3 DEF ParserPlaced
<1>7. Jobs' = Jobs /\ OnePerPattern'
  BY <1>2, <1>3 DEF Jobs, InHand, OnePerPattern
<1>8. Retrievers'
  <2> DEFINE s == stream
             J == Jobs
             B == Bases(unord_q)
             ub == ublk
             p == parser_bs.pos[1]
             t == tail_offs
             t2 == tail_offs'
  <2>1. t \in Nat /\ t2 \in Nat /\ t <= t2 /\ StreamOK(s) /\ Work(s, J, B, ub, p, t)
    BY <1>1, <1>2 DEF Nums
  <2> HIDE DEF s, J, B, ub, p, t, t2
  <2>2. Work(s, J, B, ub, p, t2)
    BY <2>1, WorkGrows
  <2>3. Work(stream, Jobs, Bases(unord_q), ublk, parser_bs.pos[1], tail_offs')
    BY <2>2 DEF s, J, B, ub, p, t2
  <2> QED
    BY <1>2, <1>7, <2>3, RetrieversAgain
<1>9. Mastered'
  BY <1>2, <1>3, <1>7, MasteredAgain
<1> QED
  BY <1>6, <1>8, <1>9

(* The scanners, when input arrives: it waits to be scanned.               *)
LEMMA ScannersGetInput ==
  ASSUME MasterInv, ~ parsing_done, Undisturbed,
         ToSet(input_q') = ToSet(input_q) \cup {NewInBlk},
         NewInBlk \in InBlk, tail_offs < End(NewInBlk),
         scan_q' = enqueue(scan_q, bits_init(tail_offs)), UNCHANGED <<unord_q, job, blk>>
  PROVE  Scanners'
<1> DEFINE n == NewInBlk
           t == tail_offs
           z == bits_init(t)
           A == At({"scan"})
           B == Bases(unord_q)
           S == ToSet(scan_q)
           I == ToSet(input_q)
<1>1. Nums /\ Buffers /\ StreamOK(stream) /\ Scanners
      /\ Work(stream, Jobs, B, ublk, parser_bs.pos[1], tail_offs)
  BY MasterParts, MasterWorking
<1>2. /\ scan_q \in Seq(Bits) /\ Sorted(scan_q)
      /\ \A x \in S : \E c \in I : ScansIn(x, c) /\ FoundBehind(x, c, B)
      /\ \A v \in A : /\ ScansIn(job[v], blk[v]) /\ FoundBehind(job[v], blk[v], B)
                      /\ job[v].skip \in Nat
      /\ \A c \in I :
           /\ \A x, y \in S : ScansIn(x, c) /\ ScansIn(y, c) => x = y
           /\ \A x \in S, v \in A : ScansIn(x, c) => blk[v] # c
      /\ \A v, x \in A : blk[v] = blk[x] => v = x
  BY <1>1 DEF Scanners
<1>3. A' = A
  BY ReadersStay DEF Readers3
<1>4. /\ t \in Nat /\ z \in Bits /\ z.pos = <<2 * t, 0>> /\ z.pos \in UnitPos /\ z.pos[1] = 2 * t
      /\ z.offset = t /\ Words(2 * t) = t /\ 2 * t \in Nat
  <2>1. t \in Nat
    BY <1>1 DEF Nums
  <2> QED
    BY <2>1, WordsTwice, BitsAtOf DEF bits_init
<1>5. n.offset = t /\ n \in InBlk /\ End(n) \in Nat /\ t < End(n)
  <2>1. n.offset = t
    BY DEF NewInBlk
  <2> QED
    BY <2>1, InBlkOf
<1>6. \A c \in I : c \in InBlk /\ End(c) \in Nat /\ End(c) <= t
  BY <1>1, ChainMembers, InBlkOf DEF Nums, Buffers
<1>7. \A v \in A : blk[v] # n
  <2>1. \A v \in A : v \in Workers /\ pc[v] = "scan"
    BY DEF At
  <2>2. \A v \in A : End(blk[v]) \in Nat /\ End(blk[v]) <= tail_offs
    BY <2>1, ScannerReads
  <2> QED
    BY <1>4, <1>5, <2>2
<1>8. ScansIn(z, n) /\ FoundBehind(z, n, B)
  <2>1. \A u \in B : u <= 2 * t
    BY <1>1, <1>4, PatternsRead
  <2>2. FoundBehind(z, n, B)
    BY <1>4, <2>1 DEF FoundBehind
  <2>3. 2 * n.offset <= z.pos[1]
    BY <1>4, <1>5
  <2> HIDE DEF z, n
  <2> QED
    BY <1>4, <1>5, <2>2, <2>3 DEF ScansIn
<1>9. \A c \in I : ~ ScansIn(z, c)
  BY <1>4, <1>6 DEF ScansIn
<1>10. ASSUME NEW x \in S PROVE ~ ScansIn(x, n) /\ x.pos # z.pos
  <2>1. PICK c \in I : ScansIn(x, c)
    BY <1>2
  <2>2. x.pos[1] \in Nat /\ x.offset \in Nat /\ x.offset = Words(x.pos[1]) /\ x.offset < End(c)
    BY <1>6, <2>1, ScansAt
  <2>3. x.offset < t
    BY <1>4, <1>6, <2>2
  <2>4. ~ (2 * t <= x.pos[1])
    <3> DEFINE o == x.offset
               p == x.pos[1]
    <3>1. o \in Nat /\ p \in Nat /\ o < t /\ p <= 2 * o
      BY <2>2, <2>3, WordsOf
    <3> HIDE DEF o, p
    <3>2. ~ (2 * t <= p)
      BY <1>4, <3>1
    <3> QED
      BY <3>2 DEF p
  <2>5. ~ ScansIn(x, n)
    BY <1>5, <2>4 DEF ScansIn
  <2> QED
    BY <1>4, <2>2, <2>4, <2>5
<1>11. scan_q' = enqueue(scan_q, z) /\ Bases(unord_q') = B /\ \A v \in A : job'[v] = job[v] /\ blk'[v] = blk[v]
  OBVIOUS
<1> HIDE DEF n, t, z, A, B
<1>12. scan_q' \in Seq(Bits) /\ Sorted(scan_q') /\ ToSet(scan_q') = S \cup {z}
  <2>1. \A x \in Bits : x.pos \in Position
    BY DEF Bits, UnitPos, Position
  <2>2. \A x \in ToSet(scan_q) : x.pos # z.pos
    BY <1>10
  <2>3. Sorted(scan_q') /\ ToSet(scan_q') = ToSet(scan_q) \cup {z}
    BY <1>2, <1>4, <1>11, <2>1, <2>2, EnqueueSorted
  <2>4. scan_q' \in Seq(Bits)
    BY <1>2, <1>4, <1>11, EnqueueType
  <2> QED
    BY <2>3, <2>4
<1>13. ToSet(input_q') = I \cup {n}
  BY DEF n
<1> HIDE DEF S, I
<1>14. \A x \in ToSet(scan_q') :
         \E c \in ToSet(input_q') : ScansIn(x, c) /\ FoundBehind(x, c, B)
  BY <1>2, <1>8, <1>12, <1>13
<1>15. \A v \in A' : /\ ScansIn(job'[v], blk'[v]) /\ FoundBehind(job'[v], blk'[v], B)
                     /\ job'[v].skip \in Nat
  BY <1>2, <1>3, <1>11
<1>16. ASSUME NEW c \in ToSet(input_q')
       PROVE  /\ \A x, y \in ToSet(scan_q') : ScansIn(x, c) /\ ScansIn(y, c) => x = y
              /\ \A x \in ToSet(scan_q'), v \in A' : ScansIn(x, c) => blk'[v] # c
  <2>1. CASE c = n
    BY <1>3, <1>7, <1>10, <1>11, <1>12, <2>1
  <2>2. CASE c \in I
    BY <1>2, <1>3, <1>9, <1>11, <1>12, <2>2
  <2> QED
    BY <1>13, <2>1, <2>2
<1>17. \A v, x \in A' : blk'[v] = blk'[x] => v = x
  BY <1>2, <1>3, <1>11
<1>18. /\ (\A x \in ToSet(scan_q) :
             \E c \in ToSet(input_q) : ScansIn(x, c) /\ FoundBehind(x, c, Bases(unord_q)))'
       /\ (\A v \in At({"scan"}) :
             /\ ScansIn(job[v], blk[v]) /\ FoundBehind(job[v], blk[v], Bases(unord_q))
             /\ job[v].skip \in Nat)'
       /\ (\A c \in ToSet(input_q) :
             /\ \A x, y \in ToSet(scan_q) : ScansIn(x, c) /\ ScansIn(y, c) => x = y
             /\ \A x \in ToSet(scan_q), v \in At({"scan"}) : ScansIn(x, c) => blk[v] # c)'
  <2>1. Bases(unord_q)' = B
    BY <1>11 DEF Bases
  <2> QED
    BY <1>14, <1>15, <1>16, <2>1 DEF ScansIn, FoundBehind, A
<1> QED
  BY <1>12, <1>17, <1>18 DEF Scanners, A

LEMMA OnInputAvailKeeps ==
  ASSUME CountInv, MasterInv, OnInputAvail
  PROVE  MasterInv'
<1>1. SourceSteady /\ Nums /\ Buffers
  BY MasterParts
<1>2. /\ ~ parsing_done /\ Unlock(pc)
      /\ input_q' = Append(input_q, NewInBlk) /\ scan_q' = enqueue(scan_q, bits_init(tail_offs))
      /\ UNCHANGED <<stream, head_offs, retr_q, unord_q, ublk, parse_token, parsing_done, parser_bs,
                     job, blk>>
  BY DEF OnInputAvail, unordVars, parserVars, handVars
<1>3. Undisturbed
  BY <1>2, UnlockUndisturbed
<1>4. /\ Buffers' /\ Nums'
      /\ head_offs' = head_offs /\ tail_offs < tail_offs' /\ tail_offs \in Nat /\ tail_offs' \in Nat
      /\ NewInBlk \in InBlk /\ End(NewInBlk) = tail_offs'
      /\ ToSet(input_q') = ToSet(input_q) \cup {NewInBlk}
  BY <1>1, <1>3, BuffersArrive DEF Undisturbed, Nums
<1>5. SourceSteady'
  BY <1>1, <1>4, SteadySource DEF Source
<1>6. ParserPlaced' /\ Retrievers' /\ Mastered'
  <2>1. tail_offs <= tail_offs'
    BY <1>4
  <2> QED
    BY <1>2, <1>3, <1>4, <2>1, ParserGetsInput
<1>7. Scanners'
  BY <1>2, <1>3, <1>4, ScannersGetInput
<1> QED
  BY <1>2, <1>4, <1>5, <1>6, <1>7, MasterAgain

(***************************************************************************)
(* The steps in which nobody reads.                                        *)
(***************************************************************************)
Idle ==
  /\ Undisturbed
  /\ UNCHANGED <<stream, input_q, head_offs, tail_offs, ref_count, blk, scan_q, retr_q,
                 unord_q, ublk, parse_token, parsing_done, parser_bs>>
  /\ DOMAIN job' = Workers /\ \A v \in Workers : pc[v] \in Readers3 => job'[v] = job[v]

LEMMA IdleKeeps ==
  ASSUME MasterInv, Idle, SourceSteady', eof => eof'
  PROVE  MasterInv'
<1>1. /\ Undisturbed
      /\ UNCHANGED <<stream, input_q, head_offs, tail_offs, ref_count, blk, scan_q, retr_q,
                     unord_q, ublk, parse_token, parsing_done, parser_bs>>
      /\ DOMAIN job' = Workers /\ \A v \in Workers : pc[v] \in Readers3 => job'[v] = job[v]
  BY DEF Idle
<1>2. Buffers'
  BY <1>1, MasterParts, BuffersStay DEF Undisturbed
<1>3. /\ At({"parse"})' = At({"parse"}) /\ At({"retrieve"})' = At({"retrieve"})
      /\ At({"scan"})' = At({"scan"})
  BY <1>1, ReadersStay DEF Readers3
<1>4. \A v \in At({"parse"}) \cup At({"retrieve"}) \cup At({"scan"}) : job'[v] = job[v]
  BY <1>1 DEF At, Readers3
<1>5. CASE parsing_done
  <2>1. Finished'
    BY <1>1, <1>3, <1>5 DEF MasterInv, Finished
  <2> QED
    BY <1>1, <1>2, <1>5, <2>1, MasterAgain
<1>6. CASE ~ parsing_done
  <2>1. ParserPlaced' /\ Retrievers' /\ Mastered'
    BY <1>1, <1>3, <1>4, <1>6, OthersStay
  <2>2. Scanners'
    <3>1. Scanners
      BY <1>6, MasterWorking
    <3>2. scan_q' \in Seq(Bits) /\ Sorted(scan_q')
      BY <1>1, <3>1 DEF Scanners
    <3>3. \A v \in At({"scan"})' : job'[v] = job[v] /\ blk'[v] = blk[v]
      BY <1>1, <1>3, <1>4
    <3> QED
      BY <1>1, <1>3, <3>1, <3>2, <3>3, ScannersKeep
  <2> QED
    BY <1>1, <1>2, <1>6, <2>1, <2>2, MasterAgain
<1> QED
  BY <1>5, <1>6

(* No step of the source thread is involved.                               *)
LEMMA IdleAndSteady ==
  ASSUME MasterInv, Idle, UNCHANGED <<file_len, ispec_total, avail, eof>>,
         source' = source \/ (source = "stalled" /\ source' = "top")
  PROVE  MasterInv'
<1>1. UNCHANGED <<stream, head_offs, tail_offs>>
  BY DEF Idle
<1>2. SourceSteady /\ Nums'
  BY <1>1, MasterParts DEF Nums
<1>3. SourceSteady'
  BY <1>1, <1>2, SteadyStays
<1> QED
  BY <1>3, IdleKeeps

(* A worker who does not read does something else.                         *)
LEMMA MovesUndisturbed ==
  ASSUME CountInv, NEW w \in Workers, pc[w] \notin Readers3, NEW t, t \notin Readers3, Moves(w, t)
  PROVE  Undisturbed
<1>1. /\ pc'[w] = t
      /\ \A v \in Workers \ {w} : pc'[v] = pc[v] \/ (pc[v] = "waiting" /\ pc'[v] = "enter")
  BY MovesEffect DEF CountInv
<1>2. \A v \in Workers : v = w \/ v \in Workers \ {w}
  OBVIOUS
<1>3. "waiting" \notin Readers3 /\ "enter" \notin Readers3
  BY DEF Readers3
<1> QED
  BY <1>1, <1>2, <1>3 DEF Undisturbed

(* What a worker has in its hands when it does not read does not matter.   *)
LEMMA HandsFree ==
  ASSUME MasterInv, NEW w \in Workers, pc[w] \notin Readers3, NEW j, job' = [job EXCEPT ![w] = j]
  PROVE  DOMAIN job' = Workers /\ \A v \in Workers : pc[v] \in Readers3 => job'[v] = job[v]
<1>1. DOMAIN job = Workers
  BY MasterParts
<1> QED
  BY <1>1

LEMMA EmittingKeeps ==
  ASSUME CountInv, MasterInv, NEW w \in Workers, Decoded(w) \/ DoEmit(w) \/ Emitted(w)
  PROVE  MasterInv'
<1>1. /\ pc[w] \in {"decode", "loop", "emit"}
      /\ \E j : job' = [job EXCEPT ![w] = j]
      /\ \E t \in {"loop", "emit"} : Moves(w, t)
      /\ UNCHANGED <<sourceVars, eof, stream, inputVars, blk, scan_q, retr_q, unordVars, parserVars>>
  <2>1. CASE Decoded(w)
    <3>1. Moves(w, "loop")
      BY <2>1 DEF Decoded, Moves, WorkerStates
    <3> QED
      BY <2>1, <3>1 DEF Decoded, slotVars
  <2>2. CASE DoEmit(w)
    <3>1. Moves(w, "emit")
      BY <2>2 DEF DoEmit, Moves, WorkerStates
    <3> QED
      BY <2>2, <3>1 DEF DoEmit, AtTask
  <2>3. CASE Emitted(w)
    <3>1. Moves(w, "loop")
      BY <2>3 DEF Emitted, Moves, WorkerStates
    <3> QED
      BY <2>3, <3>1 DEF Emitted
  <2> QED
    BY <2>1, <2>2, <2>3
<1>2. pc[w] \notin Readers3
  BY <1>1 DEF Readers3
<1>3. Undisturbed
  BY <1>1, <1>2, MovesUndisturbed DEF Readers3
<1>4. DOMAIN job' = Workers /\ \A v \in Workers : pc[v] \in Readers3 => job'[v] = job[v]
  BY <1>1, <1>2, HandsFree
<1>5. Idle
  BY <1>1, <1>3, <1>4 DEF Idle, inputVars, unordVars, parserVars
<1> QED
  BY <1>1, <1>5, IdleAndSteady DEF sourceVars

(* The worker reorders, or fails.                                          *)
LEMMA ReorderingKeeps ==
  ASSUME CountInv, MasterInv, NEW w \in Workers,
         RejectBogus(w) \/ DoReorder(w) \/ ReorderFail(w) \/ ParseFail(w)
  PROVE  MasterInv'
<1>1. UNCHANGED <<sourceVars, eof, stream, inputVars, handVars, scan_q, retr_q, unordVars, parserVars>>
  BY DEF RejectBogus, DoReorder, ReorderFail, ParseFail, Fail, slotVars, queueVars
<1>2. Undisturbed
  <2>1. CASE UNCHANGED pc
    BY <2>1 DEF Undisturbed
  <2>2. CASE ReorderFail(w)
    <3>1. pc[w] = "loop" /\ pc' = [pc EXCEPT ![w] = "dead"] /\ pc \in [Workers -> WorkerStates]
      BY <2>2 DEF ReorderFail, AtTask, CountInv, CountsOK
    <3>2. pc'[w] = "dead" /\ \A v \in Workers \ {w} : pc'[v] = pc[v]
      BY <3>1
    <3>3. \A v \in Workers : v = w \/ v \in Workers \ {w}
      OBVIOUS
    <3> QED
      BY <3>1, <3>2, <3>3 DEF Undisturbed, Readers3
  <2> QED
    BY <2>1, <2>2 DEF RejectBogus, DoReorder, ParseFail
<1>3. DOMAIN job = Workers
  BY MasterParts
<1>4. Idle
  BY <1>1, <1>2, <1>3 DEF Idle, inputVars, unordVars, parserVars, handVars
<1> QED
  BY <1>1, <1>4, IdleAndSteady DEF sourceVars

LEMMA JobUntouched ==
  ASSUME MasterInv, UNCHANGED jobVars, Undisturbed
  PROVE  Idle
<1>1. DOMAIN job = Workers
  BY MasterParts
<1> QED
  BY <1>1 DEF Idle, jobVars, inputVars, queueVars, unordVars, parserVars, handVars

(* Workers enter the monitor, wait, are woken, and leave.                  *)
LEMMA LoopKeeps ==
  ASSUME CountInv, MasterInv, NEW w \in Workers, UNCHANGED jobVars,
         WorkerEnter(w) \/ WorkerWait(w, can_terminate) \/ WorkerExit(w, can_terminate)
  PROVE  MasterInv'
<1>1. UNCHANGED <<sourceVars, eof>>
  BY DEF WorkerEnter, WorkerWait, WorkerExit, slotVars
<1>2. pc \in [Workers -> WorkerStates]
  BY DEF CountInv, CountsOK
<1>3. \A v \in Workers : pc'[v] = pc[v]
                         \/ (pc[v] \in {"enter", "loop", "waiting"}
                               /\ pc'[v] \in {"loop", "waiting", "enter", "done"})
  BY <1>2 DEF WorkerEnter, WorkerWait, WorkerExit, AtTask
<1>4. Undisturbed
  BY <1>3 DEF Undisturbed, Readers3
<1> QED
  BY <1>1, <1>4, JobUntouched, IdleAndSteady DEF sourceVars

LEMMA SourceKeeps ==
  ASSUME CountInv, MasterInv, Source
  PROVE  MasterInv'
<1>1. CASE OnInputAvail
  BY <1>1, OnInputAvailKeeps
<1>2. CASE InputRefused \/ InputEnds \/ (UNCHANGED jobVars /\ ~ Gone /\ SourceOnly)
  <2>1. UNCHANGED jobVars /\ (eof => eof')
    BY <1>2 DEF InputRefused, InputEnds, SourceOnly, SourceStall, SourceTakeSlot, SourceClosed,
                SourceRead, slotVars
  <2>2. Undisturbed
    <3>1. CASE InputRefused \/ InputEnds
      BY <3>1, UnlockUndisturbed DEF InputRefused, InputEnds
    <3>2. CASE SourceOnly
      BY <3>2 DEF SourceOnly, SourceStall, SourceTakeSlot, SourceClosed, SourceRead, schedVars,
                  Undisturbed
    <3> QED
      BY <1>2, <3>1, <3>2
  <2>3. SourceSteady /\ Nums'
    BY <2>1, MasterParts DEF Nums, jobVars, inputVars
  <2>4. SourceSteady'
    BY <2>3, SteadySource
  <2> QED
    BY <2>1, <2>2, <2>4, JobUntouched, IdleKeeps
<1> QED
  BY <1>1, <1>2 DEF Source

LEMMA SinkKeeps ==
  ASSUME CountInv, MasterInv, Sink
  PROVE  MasterInv'
<1>1. UNCHANGED jobVars /\ UNCHANGED <<sourceVars, eof>>
  BY DEF Sink, OnWriteComplete, SinkOnly, SinkStall, SinkTake, SinkWrite, SinkExit, slotVars
<1>2. Undisturbed
  <2>1. CASE OnWriteComplete
    BY <2>1, UnlockUndisturbed DEF OnWriteComplete
  <2>2. CASE SinkOnly
    BY <2>2 DEF SinkOnly, SinkStall, SinkTake, SinkWrite, SinkExit, schedVars, Undisturbed
  <2> QED
    BY <2>1, <2>2 DEF Sink
<1> QED
  BY <1>1, <1>2, JobUntouched, IdleAndSteady DEF sourceVars

(* The main thread, wakeups without a signal, and the end.                 *)
LEMMA MachineryKeeps ==
  ASSUME CountInv, MasterInv, Primary \/ Spurious \/ UNCHANGED vars
  PROVE  MasterInv'
<1>1. /\ UNCHANGED jobVars /\ UNCHANGED <<file_len, ispec_total, avail, eof>>
      /\ source' = source \/ (source = "stalled" /\ source' = "top")
  BY DEF Primary, Killed, PrimaryOnly, JoinWorkersAndSource, JoinSink, Spurious, SpuriousWakeup,
         vars, procVars, sourceVars, slotVars
<1>2. Undisturbed
  <2>1. CASE UNCHANGED pc
    BY <2>1 DEF Undisturbed
  <2>2. CASE \E v \in Waiting(pc) : pc' = [pc EXCEPT ![v] = "enter"]
    <3>1. PICK v \in Workers : pc[v] = "waiting" /\ pc' = [pc EXCEPT ![v] = "enter"]
      BY <2>2 DEF Waiting
    <3>2. pc'[v] = "enter" /\ \A x \in Workers \ {v} : pc'[x] = pc[x]
      BY <3>1 DEF CountInv, CountsOK
    <3>3. \A x \in Workers : x = v \/ x \in Workers \ {v}
      OBVIOUS
    <3> QED
      BY <3>1, <3>2, <3>3 DEF Undisturbed, Readers3
  <2>3. UNCHANGED pc \/ \E v \in Waiting(pc) : pc' = [pc EXCEPT ![v] = "enter"]
    BY DEF Primary, Killed, PrimaryOnly, JoinWorkersAndSource, JoinSink, Spurious, SpuriousWakeup,
           vars, procVars, schedVars
  <2> QED
    BY <2>1, <2>2, <2>3
<1> QED
  BY <1>1, <1>2, JobUntouched, IdleAndSteady

LEMMA WorkerKeeps ==
  ASSUME CountInv, MasterInv, NEW w \in Workers, Worker(w)
  PROVE  MasterInv'
<1>1. CASE /\ WorkerEnter(w) \/ WorkerWait(w, can_terminate) \/ WorkerExit(w, can_terminate)
           /\ UNCHANGED jobVars
  BY <1>1, LoopKeeps
<1>2. CASE Parsing(w)
  BY <1>2, DoParseKeeps, ParseMoreKeeps, ReorderingKeeps, ParseFinishKeeps, ParseUniqueKeeps,
     ParseTakenKeeps DEF Parsing
<1>3. CASE Retrieving(w)
  BY <1>3, DoRetrieveKeeps, RetrieveAbortKeeps, RetrieveMoreAsMasterKeeps, RetrieveMoreAheadKeeps,
     RetrieveOverAsMasterKeeps, RetrieveOverAheadKeeps, EmittingKeeps DEF Retrieving
<1>4. CASE DoEmit(w) \/ Emitted(w)
  BY <1>4, EmittingKeeps
<1>5. CASE RejectBogus(w) \/ ReorderFail(w) \/ DoReorder(w)
  BY <1>5, ReorderingKeeps
<1>6. CASE DoScan(w) \/ ScanNothing(w) \/ ScanKnown(w) \/ ScanUnique(w)
  BY <1>6, DoScanKeeps, ScanNothingKeeps, ScanKnownKeeps, ScanUniqueKeeps
<1> QED
  BY <1>1, <1>2, <1>3, <1>4, <1>5, <1>6 DEF Worker

LEMMA NextMaster == CountInv /\ MasterInv /\ [Next]_vars => MasterInv'
<1> SUFFICES ASSUME CountInv, MasterInv, [Next]_vars PROVE MasterInv'
  OBVIOUS
<1>1. ASSUME NEW w \in Workers, Worker(w) PROVE MasterInv'
  BY <1>1, WorkerKeeps
<1>2. CASE Source
  BY <1>2, SourceKeeps
<1>3. CASE Sink
  BY <1>3, SinkKeeps
<1>4. CASE Primary \/ Spurious \/ Over \/ UNCHANGED vars
  BY <1>4, MachineryKeeps DEF Over
<1> QED
  BY <1>1, <1>2, <1>3, <1>4 DEF Next

LEMMA InitMaster == Init => MasterInv
<1> SUFFICES ASSUME Init PROVE MasterInv
  OBVIOUS
<1>1. /\ stream \in Streams /\ file_len = stream.len /\ input_q = <<>> /\ head_offs = 0
      /\ tail_offs = 0 /\ ref_count = <<>> /\ scan_q = <<>> /\ retr_q = <<>> /\ unord_q = <<>>
      /\ ublk = <<>> /\ parse_token = TRUE /\ parsing_done = FALSE /\ parser_bs = bits_init(0)
      /\ job = [w \in Workers |-> NULL] /\ blk = [w \in Workers |-> NULL]
      /\ ispec_total = 0 /\ source = "top" /\ eof = FALSE /\ pc = [w \in Workers |-> "enter"]
  BY DEF Init, ProcessInit
<1>2. StreamOK(stream)
  BY <1>1, StreamsOK
<1>3. SourceSteady
  <2>1. Aligned(0)
    <3>1. InGranul \in Nat /\ 2 * 0 = InGranul * 0 /\ 0 \in Nat
      BY ProcessAssumption
    <3> QED
      BY <3>1 DEF Aligned
  <2>2. file_len \in Nat
    BY <1>1, <1>2 DEF StreamOK
  <2> QED
    BY <1>1, <2>1, <2>2 DEF SourceSteady
<1>4. Chain(input_q, head_offs, tail_offs)
  BY <1>1 DEF Chain
<1>5. \A w \in Workers : blk[w] = NULL /\ pc[w] = "enter"
  BY <1>1
<1>6. At({"parse"}) = {} /\ At({"retrieve"}) = {} /\ At({"scan"}) = {}
  BY <1>5 DEF At
<1>20. ToSet(<<>>) = {} /\ DOMAIN <<>> = {} /\ Len(<<>>) = 0
  BY DEF ToSet
<1>7. Held
  BY <1>1, <1>5 DEF Held
<1>8. Referred
  <2>1. /\ ToSet(input_q) = {} /\ DOMAIN ref_count = {}
        /\ \A w \in Workers : blk[w] = NULL
    BY <1>1, <1>5, <1>20
  <2> QED
    BY <2>1 DEF Referred
<1>9. InputInHand
  BY <1>5 DEF InputInHand
<1>10. /\ parser_bs \in Bits /\ parser_bs.pos[1] = 0 /\ parser_bs.offset = 0 /\ Words(0) = 0
  <2>1. parser_bs = BitsAt(0, 0)
    <3>1. 2 * 0 = 0
      OBVIOUS
    <3> QED
      BY <1>1, <3>1 DEF bits_init
  <2>2. Words(0) = 0
    BY DEF Words
  <2> QED
    BY <2>1, <2>2, BitsAtOf
<1>11. ParserPlaced
  <2>1. PlaceOK(stream, parser_bs, tail_offs)
    <3>1. \A u \in RealBases(stream) : u \in Nat /\ Words(u) \in Nat
      BY <1>2, RealOf, WordsOf
    <3> QED
      BY <1>1, <1>10, <3>1 DEF PlaceOK, Loaded
  <2> QED
    BY <1>1, <1>5, <1>10, <2>1 DEF ParserPlaced
<1>12. Jobs = {}
  BY <1>1, <1>6, <1>20 DEF Jobs, InHand
<1>13. Retrievers
  <2>1. Bases(unord_q) = {}
    BY <1>1, <1>20 DEF Bases
  <2>2. Work(stream, Jobs, Bases(unord_q), ublk, parser_bs.pos[1], tail_offs)
    BY <1>1, <1>12, <1>20, <2>1 DEF Work
  <2> QED
    BY <1>1, <1>6, <1>20, <2>2 DEF Retrievers, OnePerPattern, NoRepeats, Sorted
<1>14. Mastered
  <2>1. Reached(stream, Jobs, parser_bs.pos[1]) = {}
    BY <1>12 DEF Reached
  <2> QED
    BY <1>1, <1>6, <2>1 DEF Mastered, Exclusive
<1>15. Scanners
  BY <1>1, <1>6, <1>20 DEF Scanners, Sorted
<1> QED
  BY <1>1, <1>3, <1>4, <1>7, <1>8, <1>9, <1>11, <1>13, <1>14, <1>15 DEF MasterInv

(* A retriever is the master if it works on a block of the stream that the *)
(* parser has come to.                                                     *)
LEMMA MastersAre ==
  ASSUME MasterInv
  PROVE  /\ parsing_done => MasterJobs = {}
         /\ ~ parsing_done => MasterJobs = Reached(stream, Jobs, parser_bs.pos[1])
<1>1. MasterJobs = {rb \in Jobs : IsMaster(rb) /\ ~ InVain(rb)}
  BY DEF MasterJobs, Jobs
<1>2. CASE parsing_done
  <2>1. \A rb : InVain(rb)
    BY <1>2 DEF InVain
  <2> QED
    BY <1>1, <1>2, <2>1
<1>3. CASE ~ parsing_done
  <2> DEFINE R == Reached(stream, Jobs, parser_bs.pos[1])
  <2>1. \A rb \in Jobs : IsMaster(rb) /\ ~ InVain(rb) <=> rb \in R
    BY <1>3, WhoIsMaster
  <2>2. R \subseteq Jobs
    BY DEF Reached
  <2> HIDE DEF R
  <2>3. MasterJobs = R
    BY <1>1, <2>1, <2>2
  <2> QED
    BY <1>3, <2>3 DEF R
<1> QED
  BY <1>2, <1>3

LEMMA MasterOnly ==
  ASSUME MasterInv
  PROVE  OneMaster
<1> DEFINE P == At({"parse"})
           M == MasterJobs
<1>1. Cardinality({}) = 0 /\ \A x : Cardinality({x}) = 1
  BY FS_EmptySet, FS_Singleton
<1>2. CASE parsing_done
  <2>1. P = {} /\ parse_token /\ M = {}
    BY <1>2, MastersAre DEF MasterInv, Finished
  <2> QED
    BY <1>1, <2>1 DEF OneMaster, Slots
<1>3. CASE ~ parsing_done
  <2>1. /\ Exclusive(stream, Jobs, parser_bs, parse_token, P) /\ ParserPlaced
        /\ M = Reached(stream, Jobs, parser_bs.pos[1])
    BY <1>3, MasterWorking, MastersAre
  <2>2. /\ parse_token \/ P # {} \/ M # {}
        /\ parse_token => P = {} /\ M = {}
        /\ \A w \in P : P = {w} /\ M = {}
        /\ \A rb \in M : M = {rb} /\ parser_bs = BitsAt(rb.pos[1], rb.offset)
    BY <2>1 DEF Exclusive
  <2>3. \A w \in P : parser_bs = job[w]
    BY <2>1 DEF At, ParserPlaced
  <2> HIDE DEF P, M
  <2>4. Cardinality(P) + Slots(parse_token) + Cardinality(M) = 1
    <3>1. CASE parse_token
      BY <1>1, <2>2, <3>1 DEF Slots
    <3>2. CASE P # {}
      <4>1. PICK w \in P : P = {w} /\ M = {} /\ ~ parse_token
        BY <2>2, <3>2
      <4>2. Cardinality(P) = 1 /\ Cardinality(M) = 0
        BY <1>1, <4>1
      <4> QED
        BY <4>1, <4>2 DEF Slots
    <3>3. CASE M # {}
      <4>1. PICK rb \in M : M = {rb} /\ P = {} /\ ~ parse_token
        BY <2>2, <3>3
      <4>2. Cardinality(P) = 0 /\ Cardinality(M) = 1
        BY <1>1, <4>1
      <4> QED
        BY <4>1, <4>2 DEF Slots
    <3> QED
      BY <2>2, <3>1, <3>2, <3>3
  <2> QED
    BY <2>2, <2>3, <2>4 DEF OneMaster, P, M
<1> QED
  BY <1>2, <1>3

(* Whoever has still to retrieve a block of the stream finds it.           *)
LEMMA RealJobsKept ==
  ASSUME MasterInv, ~ parsing_done, NEW rb \in Jobs, rb.base \in RealBases(stream)
  PROVE  head_offs <= rb.offset
<1>1. Nums /\ StreamOK(stream)
  BY MasterParts
<1>2. /\ PlaceOK(stream, parser_bs, tail_offs) /\ head_offs <= parser_bs.offset
      /\ parser_bs.pos[1] \in Nat /\ parser_bs.offset \in Nat
      /\ Work(stream, Jobs, Bases(unord_q), ublk, parser_bs.pos[1], tail_offs)
      /\ Exclusive(stream, Jobs, parser_bs, parse_token, At({"parse"}))
  BY MasterWorking
<1>3. /\ rb.base \in Nat /\ rb.offset \in Nat /\ rb.pos[1] \in Nat /\ rb.base <= rb.pos[1]
      /\ Words(rb.pos[1]) <= rb.offset
  BY <1>1, <1>2, WorkTypes DEF Loaded
<1>4. CASE rb.base <= parser_bs.pos[1]
  <2>1. parser_bs = BitsAt(rb.pos[1], rb.offset)
    BY <1>2, <1>4 DEF Exclusive, Reached
  <2>2. parser_bs.offset = rb.offset
    BY <1>3, <2>1, BitsAtOf
  <2> QED
    BY <1>2, <2>2
<1>5. CASE ~ (rb.base <= parser_bs.pos[1])
  <2>1. parser_bs.pos[1] < rb.base
    BY <1>2, <1>3, <1>5
  <2> QED
    BY <1>1, <1>2, <1>3, <2>1, JobAhead DEF Nums
<1> QED
  BY <1>4, <1>5

(* A scanner is not behind the input block that the parser is in.          *)
LEMMA QuotientBound ==
  ASSUME NEW g \in Nat \ {0}, NEW k \in Nat, NEW u \in Nat, NEW v \in Nat,
         u < g * k + g, g * k <= v
  PROVE  u \div g <= v \div g
<1> DEFINE a == u \div g
           b == v \div g
<1>1. a \in Nat /\ b \in Nat /\ g * a <= u /\ v < g * b + g
  OBVIOUS
<1> HIDE DEF a, b
<1>2. g * a < g * (k + 1) /\ g * k < g * (b + 1)
  BY <1>1
<1>3. a < k + 1 /\ k < b + 1
  BY <1>1, <1>2
<1> QED
  BY <1>1, <1>3 DEF a, b

LEMMA ScansNotBehind ==
  ASSUME MasterInv, ~ parsing_done, NEW x \in ToSet(scan_q)
  PROVE  head_offs <= x.offset /\ Major(x.pos[1]) >= Major(parser_bs.pos[1])
<1>1. Nums /\ Chain(input_q, head_offs, tail_offs) /\ Scanners /\ ParserPlaced
  BY MasterParts, MasterWorking
<1>2. /\ parser_bs.pos[1] \in Nat /\ parser_bs.offset \in Nat
      /\ Words(parser_bs.pos[1]) <= parser_bs.offset
  BY MasterWorking DEF PlaceOK, Loaded
<1>3. PICK b \in ToSet(input_q) : ScansIn(x, b)
  BY <1>1 DEF Scanners
<1>4. /\ b \in InBlk /\ head_offs <= b.offset
      /\ \E i \in 1 .. Len(input_q) : input_q[i] = b
  BY <1>1, <1>3, ChainMembers DEF Nums
<1>5. PICK i \in 1 .. Len(input_q) : input_q[i] = b
  BY <1>4
<1> DEFINE a == input_q[1]
<1>6. /\ Len(input_q) \in Nat /\ input_q # <<>> /\ a \in ToSet(input_q)
      /\ a \in InBlk /\ Aligned(a.offset) /\ 2 * a.size <= InGranul /\ a.offset = head_offs
  <2>1. Len(input_q) \in Nat
    BY <1>1, ChainMembers DEF Nums
  <2>2. 1 \in 1 .. Len(input_q) /\ input_q # <<>>
    BY <1>5, <2>1
  <2> QED
    <3>1. a \in ToSet(input_q)
      BY <1>1, <2>2, ChainMembers DEF Nums
    <3>2. a \in InBlk /\ Aligned(a.offset) /\ 2 * a.size <= InGranul
      BY <1>1, <3>1, ChainMembers DEF Nums
    <3>3. a.offset = head_offs
      BY <1>1, <2>2 DEF Chain
    <3> QED
      BY <2>1, <2>2, <3>1, <3>2, <3>3
<1>7. /\ x.pos[1] \in Nat /\ x.offset \in Nat /\ 2 * b.offset <= x.pos[1] /\ b.offset <= x.offset
  BY <1>3, <1>4, ScansAt
<1>8. head_offs <= x.offset
  BY <1>1, <1>4, <1>7, InBlkOf DEF Nums
<1>9. parser_bs.offset < a.offset + a.size /\ a.offset \in Nat /\ a.size \in Nat
  BY <1>1, <1>6, InBlkOf DEF ParserPlaced, End
<1>10. PICK k \in Nat : 2 * a.offset = InGranul * k
  BY <1>6 DEF Aligned
<1> DEFINE g == InGranul
           u == parser_bs.pos[1]
           v == x.pos[1]
           h == a.offset
           m == a.size
           o == parser_bs.offset
           n == Words(u)
           c == b.offset
<1>11. /\ g \in Nat \ {0} /\ u \in Nat /\ v \in Nat /\ h \in Nat /\ m \in Nat /\ o \in Nat
       /\ n \in Nat /\ u <= 2 * n /\ n <= o /\ o < h + m /\ 2 * m <= g
       /\ 2 * h = g * k /\ h <= c /\ 2 * c <= v /\ c \in Nat
  BY <1>2, <1>4, <1>6, <1>7, <1>9, <1>10, WordsOf, InBlkOf, ProcessAssumption
<1> HIDE DEF g, u, v, h, m, o, n, c
<1>12. u < g * k + g /\ g * k <= v
  <2> DEFINE e == g * k
  <2>1. e = 2 * h
    BY <1>11
  <2> HIDE DEF e
  <2>2. u < e + g /\ e <= v
    BY <1>11, <2>1
  <2> QED
    BY <2>2 DEF e
<1>13. u \div g <= v \div g
  BY <1>11, <1>12, QuotientBound
<1>14. u \div g \in Nat /\ v \div g \in Nat
  BY <1>11
<1>15. v \div g >= u \div g
  BY <1>13, <1>14
<1> QED
  BY <1>8, <1>15 DEF Major, g, u, v

LEMMA InputKept ==
  ASSUME MasterInv
  PROVE  InputAvailable
<1>1. Nums /\ Buffers /\ Chain(input_q, head_offs, tail_offs)
  BY MasterParts
<1>2. ReferencesCounted
  BY <1>1 DEF Buffers, Referred, ReferencesCounted
<1>3. /\ \A i \in 1 .. Len(input_q) :
           input_q[i].offset = IF i = 1 THEN head_offs ELSE End(input_q[i - 1])
      /\ tail_offs = IF input_q = <<>> THEN head_offs ELSE End(Last(input_q))
  BY <1>1 DEF Chain, Last
<1>4. parsing_done \/ ~ Released(parser_bs)
  BY <1>1, MasterWorking DEF Nums, Released
<1>5. ASSUME NEW x \in ToSet(scan_q)
      PROVE  ~ Released(x) /\ Major(x.pos[1]) >= Major(parser_bs.pos[1])
  <2>1. ~ parsing_done
    <3> SUFFICES ASSUME parsing_done PROVE FALSE
      OBVIOUS
    <3>1. scan_q = <<>>
      BY DEF MasterInv, Finished
    <3> QED
      BY <1>5, <3>1 DEF ToSet
  <2>2. x.offset \in Nat
    BY <2>1, MasterWorking, ScansInOrder
  <2> QED
    BY <1>1, <2>1, <2>2, ScansNotBehind DEF Nums, Released
<1>6. ASSUME NEW rb \in ToSet(retr_q), rb.base \in {b.base : b \in ToSet(stream.blocks)}
      PROVE  ~ Released(rb)
  <2>1. ~ parsing_done
    <3> SUFFICES ASSUME parsing_done PROVE FALSE
      OBVIOUS
    <3>1. retr_q = <<>>
      BY DEF MasterInv, Finished
    <3> QED
      BY <1>6, <3>1 DEF ToSet
  <2>2. rb \in Jobs /\ rb.base \in RealBases(stream)
    BY <1>6 DEF Jobs, RealBases
  <2>3. rb.offset \in Nat
    BY <2>1, <2>2, MasterParts, MasterWorking, WorkTypes
  <2>4. head_offs <= rb.offset
    BY <2>1, <2>2, RealJobsKept
  <2> QED
    BY <1>1, <2>3, <2>4 DEF Nums, Released
<1> QED
  BY <1>2, <1>3, <1>4, <1>5, <1>6 DEF InputAvailable

(* The chain of blocks has one master, which is where parser_bs says.      *)
THEOREM ExpansionOneMaster == Spec => []OneMaster
<1>1. Init => CountInv /\ MasterInv
  BY InitCounts, InitMaster
<1>2. CountInv /\ MasterInv /\ [Next]_vars => (CountInv /\ MasterInv)'
  BY NextCounts, NextMaster
<1>3. CountInv /\ MasterInv => OneMaster
  BY MasterOnly
<1> QED
  BY <1>1, <1>2, <1>3, PTL DEF Spec

(* The input that is still needed is there, contiguous and counted.        *)
THEOREM ExpansionKeepsInput == Spec => []InputAvailable
<1>1. Init => CountInv /\ MasterInv
  BY InitCounts, InitMaster
<1>2. CountInv /\ MasterInv /\ [Next]_vars => (CountInv /\ MasterInv)'
  BY NextCounts, NextMaster
<1>3. CountInv /\ MasterInv => InputAvailable
  BY InputKept
<1> QED
  BY <1>1, <1>2, <1>3, PTL DEF Spec
=============================================================================

----------------------------- MODULE CopyProofs -----------------------------
(***************************************************************************)
(* Proofs about copying, for any input and any number of slots.            *)
(***************************************************************************)
EXTENDS CopyProps, TLAPS

(***************************************************************************)
(* The inductive invariant.                                                *)
(***************************************************************************)
SourceStates == {"top", "stalled", "read", "deliver", "push", "eof", "done"}
SinkStates == {"top", "stalled", "write", "release", "count", "done"}

(* Types; what is in the hands of the two threads; a buffer that was not   *)
(* filled is the last one.                                                 *)
ThreadInv ==
  /\ file_len \in Nat /\ ispec_total \in 0 .. file_len /\ avail \in 0 .. InGranul
  /\ source \in SourceStates /\ sink \in SinkStates
  /\ in_slots \in Nat /\ request_close = FALSE
  /\ output_q \in Seq(OutBlk) /\ written \in Seq(OutBlk) /\ block \in OutBlk \cup {NULL}
  /\ block # NULL <=> sink \in {"write", "release"}
  /\ eof <=> source = "done"
  /\ source \in {"deliver", "push"} =>
       /\ 0 < avail /\ avail <= ispec_total
       /\ avail < InGranul => ispec_total = file_len
  /\ source \in {"eof", "done"} => ispec_total = file_len

(* Input buffers that are not free.                                        *)
InUse ==
  Len(output_q) + (IF source \in {"read", "deliver", "push"} THEN 1 ELSE 0)
    + (IF sink \in {"write", "release"} THEN 1 ELSE 0)

(* The free input slots bound what is on its way, so that out_slots wraps  *)
(* around by one at most.  SIGUSR2 is raised when nothing is on its way    *)
(* any more and nothing will be.                                           *)
SlotInv ==
  /\ in_slots + InUse = TotalInSlots
  /\ out_slots = IF OnTheirWay <= TotalOutSlots THEN TotalOutSlots - OnTheirWay
                 ELSE Word + TotalOutSlots - OnTheirWay
  /\ raised = IF eof /\ OnTheirWay = 0 THEN 1 ELSE 0
  /\ shutdown \in {"running", "draining", "done"}
  /\ shutdown # "running" => raised = 1

(* How much of the input has been pushed, and how much is written or in    *)
(* the hands of the sink thread.                                           *)
Pushed == IF source \in {"deliver", "push"} THEN ispec_total - avail ELSE ispec_total
Taken == IF sink = "write" THEN block.hi ELSE Abstract!Covered(written)

(* What is written, being written, queued and being pushed are consecutive *)
(* intervals of the input.                                                 *)
ChainInv ==
  /\ sink = "write" =>
       block.lo = Abstract!Covered(written) /\ block.lo < block.hi /\ block.hi <= file_len
  /\ \A i \in 1 .. Len(output_q) :
       /\ output_q[i].lo = IF i = 1 THEN Taken ELSE output_q[i - 1].hi
       /\ output_q[i].lo < output_q[i].hi /\ output_q[i].hi <= file_len
  /\ Pushed = IF output_q = <<>> THEN Taken ELSE output_q[Len(output_q)].hi

CopyInv == ThreadInv /\ SlotInv /\ ChainInv

(***************************************************************************)
(* Unsigned arithmetic.                                                    *)
(***************************************************************************)
LEMMA Wrapped ==
  ASSUME NEW n \in Int, - Word <= n, n < Word
  PROVE  n % Word = IF n < 0 THEN n + Word ELSE n
<1>1. Word \in Nat \ {0}
  BY CopyAssumption, ProcessAssumption
<1>2. CASE n >= 0
  BY <1>1, <1>2
<1>3. CASE n < 0
  BY <1>1, <1>3
<1> QED
  BY <1>2, <1>3

LEMMA Cancel == \A a, b \in Nat : (a + b) - b = a
  OBVIOUS

LEMMA MinFacts ==
  ASSUME NEW a \in Nat, NEW b \in Nat
  PROVE  min(a, b) \in Nat /\ min(a, b) <= a /\ min(a, b) <= b /\ min(a, b) \in {a, b}
BY DEF min

(***************************************************************************)
(* The initial states.                                                     *)
(***************************************************************************)
LEMMA InitCopyInv == Init => CopyInv
<1> SUFFICES ASSUME Init PROVE CopyInv
  OBVIOUS
<1> USE ProcessAssumption, CopyAssumption DEF Init, ProcessInit
<1>1. ThreadInv
  <2>1. <<>> \in Seq(OutBlk) /\ file_len \in Nat /\ InGranul \in Nat
    OBVIOUS
  <2> QED
    BY <2>1 DEF ThreadInv, SourceStates, SinkStates
<1>2. SlotInv
  BY DEF SlotInv, InUse, OnTheirWay
<1>3. ChainInv
  BY DEF ChainInv, Pushed, Taken, Abstract!Covered
<1> QED
  BY <1>1, <1>2, <1>3 DEF CopyInv

(***************************************************************************)
(* The steps.                                                              *)
(***************************************************************************)
LEMMA ThreadInvStep == CopyInv /\ [Next]_vars => ThreadInv'
<1> SUFFICES ASSUME CopyInv, [Next]_vars PROVE ThreadInv'
  OBVIOUS
<1> USE ProcessAssumption, BlockAssumption DEF CopyInv, ThreadInv, SourceStates, SinkStates, sourceVars,
        sinkVars, slotVars
<1>1. CASE OnInputAvail
  BY <1>1 DEF OnInputAvail
<1>2. CASE InputPushed
  <2>1. [lo |-> ispec_total - avail, hi |-> ispec_total] \in OutBlk
    BY <1>2 DEF InputPushed, OutBlk
  <2>2. output_q' \in Seq(OutBlk)
    BY <1>2, <2>1 DEF InputPushed, SinkWriteBuffer
  <2>3. source' = (IF avail < InGranul THEN "eof" ELSE "top") /\ source = "push"
        /\ UNCHANGED <<file_len, ispec_total, avail, in_slots, request_close, eof, block, written>>
        /\ sink' = IF sink = "stalled" THEN "top" ELSE sink
    BY <1>2 DEF InputPushed, SinkWriteBuffer, AfterDelivery
  <2> QED
    BY <2>2, <2>3
<1>3. CASE SourceEnds
  BY <1>3 DEF SourceEnds, SourceSetsEof
<1>4. CASE SourceStall \/ SourceTakeSlot \/ SourceClosed
  BY <1>4 DEF SourceStall, SourceTakeSlot, SourceClosed
<1>5. CASE SourceRead
  <2> DEFINE rest == file_len - ispec_total
  <2>1. rest \in Nat /\ avail' = min(InGranul, rest) /\ ispec_total' = ispec_total + avail'
        /\ source' = (IF avail' = 0 THEN "eof" ELSE "deliver") /\ source = "read"
        /\ in_slots' \in Nat /\ UNCHANGED <<file_len, request_close, output_q, sink, block, written, eof>>
    BY <1>5 DEF SourceRead
  <2>2. avail' \in Nat /\ avail' <= InGranul /\ avail' <= rest /\ (avail' = InGranul \/ avail' = rest)
    BY <2>1, MinFacts
  <2>3. ispec_total' \in 0 .. file_len /\ (avail' < InGranul => ispec_total' = file_len)
    BY <2>1, <2>2
  <2>4. source' = "deliver" => 0 < avail' /\ avail' <= ispec_total'
    BY <2>1, <2>2
  <2>5. source' = "eof" => ispec_total' = file_len
    BY <2>1, <2>2, <2>3
  <2> QED
    BY <2>1, <2>2, <2>3, <2>4, <2>5
<1>6. CASE OnWriteComplete
  BY <1>6 DEF OnWriteComplete, SourceReleaseBuffer
<1>7. CASE WriteCounted
  BY <1>7 DEF WriteCounted
<1>8. CASE SinkStall \/ SinkExit
  BY <1>8 DEF SinkStall, SinkExit
<1>9. CASE SinkTake
  <2>1. Head(output_q) \in OutBlk /\ Tail(output_q) \in Seq(OutBlk)
    BY <1>9 DEF SinkTake
  <2>2. block' # NULL /\ sink' = "write" /\ UNCHANGED <<sourceVars, written, slotVars>>
    BY <1>9, <2>1 DEF SinkTake
  <2> QED
    BY <1>9, <2>1, <2>2 DEF SinkTake
<1>10. CASE SinkWrite
  BY <1>10 DEF SinkWrite
<1>11. CASE PrimaryOnly
  BY <1>11 DEF PrimaryOnly, JoinWorkersAndSource, JoinSink
<1>12. CASE SpuriousWakeup
  BY <1>12 DEF SpuriousWakeup
<1>13. CASE UNCHANGED vars
  BY <1>13 DEF vars, procVars
<1> QED
  BY <1>1, <1>2, <1>3, <1>4, <1>5, <1>6, <1>7, <1>8, <1>9, <1>10, <1>11, <1>12, <1>13
  DEF Next, Source, Sink, Main, Spurious, Over, SourceOnly, SinkOnly

(* What is on its way is in use, or about to be counted as free.           *)
LEMMA WayBounds ==
  ASSUME CopyInv
  PROVE  /\ InUse \in Nat /\ OnTheirWay \in Nat
         /\ OnTheirWay <= InUse + 1 /\ InUse <= TotalInSlots
         /\ Len(output_q) <= InUse
         /\ source \in {"read", "deliver"} => OnTheirWay <= InUse
<1>1. Len(output_q) \in Nat /\ in_slots \in Nat
  BY DEF CopyInv, ThreadInv
<1> DEFINE held == IF source \in {"read", "deliver", "push"} THEN 1 ELSE 0
           pushing == IF source = "push" THEN 1 ELSE 0
           writing == IF sink \in {"write", "release"} THEN 1 ELSE 0
           done == IF sink \in {"write", "release", "count"} THEN 1 ELSE 0
<1>4. /\ held \in 0 .. 1 /\ pushing \in 0 .. held /\ writing \in 0 .. 1 /\ done \in writing .. 1
      /\ source \in {"read", "deliver"} => held = 1 /\ pushing = 0
  OBVIOUS
<1>5. InUse = Len(output_q) + held + writing /\ OnTheirWay = Len(output_q) + pushing + done
  BY DEF InUse, OnTheirWay
<1>2. /\ InUse \in Nat /\ OnTheirWay \in Nat /\ OnTheirWay <= InUse + 1 /\ Len(output_q) <= InUse
      /\ source \in {"read", "deliver"} => OnTheirWay <= InUse
  <2> HIDE DEF held, pushing, writing, done
  <2> QED
    BY <1>1, <1>4, <1>5
<1>3. in_slots + InUse = TotalInSlots
  BY DEF CopyInv, SlotInv
<1> QED
  BY <1>1, <1>2, <1>3

(* The counter after one more, or one less, is on its way.                 *)
LEMMA CounterSteps ==
  ASSUME NEW n \in Nat, n <= TotalOutSlots + 1, NEW c,
         c = IF n <= TotalOutSlots THEN TotalOutSlots - n ELSE Word + TotalOutSlots - n
  PROVE  /\ n <= TotalOutSlots =>
              (c - 1) % Word = IF n + 1 <= TotalOutSlots THEN TotalOutSlots - (n + 1)
                               ELSE Word + TotalOutSlots - (n + 1)
         /\ n > 0 =>
              (c + 1) % Word = IF n - 1 <= TotalOutSlots THEN TotalOutSlots - (n - 1)
                               ELSE Word + TotalOutSlots - (n - 1)
         /\ c = TotalOutSlots <=> n = 0
<1> USE ProcessAssumption, CopyAssumption
<1>1. CASE n <= TotalOutSlots
  <2>1. c \in Int /\ c = TotalOutSlots - n
    BY <1>1
  <2>2. (c - 1) % Word = IF c - 1 < 0 THEN c - 1 + Word ELSE c - 1
    BY <2>1, Wrapped
  <2>3. n > 0 => (c + 1) % Word = c + 1
    BY <2>1, Wrapped
  <2> QED
    BY <1>1, <2>1, <2>2, <2>3
<1>2. CASE n = TotalOutSlots + 1
  <2>1. c = Word - 1
    BY <1>2
  <2>2. (c + 1) % Word = 0
    BY <2>1
  <2> QED
    BY <1>2, <2>1, <2>2
<1> QED
  BY <1>1, <1>2

(* Steps that change neither what is on its way nor who has the slots.     *)
Quiet ==
  /\ OnTheirWay' = OnTheirWay /\ in_slots' + InUse' = in_slots + InUse
  /\ UNCHANGED <<eof, out_slots, raised>>
  /\ UNCHANGED shutdown \/ (shutdown' \in {"draining", "done"} /\ raised = 1)

LEMMA QuietKeeps ==
  ASSUME CopyInv, Quiet
  PROVE  SlotInv'
BY DEF CopyInv, SlotInv, Quiet

LEMMA SlotInvStep == CopyInv /\ [Next]_vars => SlotInv'
<1> SUFFICES ASSUME CopyInv, [Next]_vars PROVE SlotInv'
  OBVIOUS
<1>t. Len(output_q) \in Nat /\ in_slots \in Nat /\ output_q \in Seq(OutBlk)
  BY DEF CopyInv, ThreadInv
<1>s. /\ InUse \in Nat /\ OnTheirWay \in Nat /\ OnTheirWay <= InUse + 1 /\ InUse <= TotalInSlots
      /\ TotalInSlots \in Nat /\ TotalOutSlots \in Nat /\ TotalInSlots <= TotalOutSlots
  BY WayBounds, ProcessAssumption, CopyAssumption
<1>1. CASE OnInputAvail
  <2>1. OnTheirWay' = OnTheirWay + 1 /\ InUse' = InUse
    BY <1>1, <1>t DEF OnInputAvail, OnTheirWay, InUse, sinkVars
  <2>2. ~ eof' /\ UNCHANGED <<eof, in_slots, shutdown>>
    BY <1>1 DEF OnInputAvail, CopyInv, ThreadInv
  <2>3. OnTheirWay <= TotalOutSlots
    BY <1>1, <1>s, WayBounds DEF OnInputAvail
  <2>4. out_slots' = (out_slots - 1) % Word /\ raised' = raised
    BY <1>1, <2>2 DEF OnInputAvail, Unlock, Raise, Finished
  <2>5. out_slots' = IF OnTheirWay' <= TotalOutSlots THEN TotalOutSlots - OnTheirWay'
                     ELSE Word + TotalOutSlots - OnTheirWay'
    BY <1>s, <2>1, <2>3, <2>4, CounterSteps DEF CopyInv, SlotInv
  <2> QED
    BY <1>s, <2>1, <2>2, <2>4, <2>5 DEF CopyInv, SlotInv
<1>2. CASE InputPushed
  <2>1. Len(output_q') = Len(output_q) + 1
    BY <1>2, <1>t DEF InputPushed, SinkWriteBuffer
  <2>2. Quiet
    BY <1>2, <1>t, <2>1 DEF InputPushed, SinkWriteBuffer, AfterDelivery, Quiet, OnTheirWay, InUse,
       slotVars
  <2> QED
    BY <2>2, QuietKeeps
<1>3. CASE SourceEnds
  <2>1. /\ OnTheirWay' = OnTheirWay /\ InUse' = InUse /\ eof' /\ ~ eof
        /\ UNCHANGED <<in_slots, out_slots, shutdown>>
    BY <1>3, <1>t DEF SourceEnds, SourceSetsEof, OnTheirWay, InUse, sinkVars, CopyInv, ThreadInv
  <2>2. out_slots = TotalOutSlots <=> OnTheirWay = 0
    BY <1>s, CounterSteps DEF CopyInv, SlotInv
  <2>3. raised = 0 /\ raised' = IF OnTheirWay = 0 THEN 1 ELSE 0
    BY <1>3, <2>1, <2>2 DEF SourceEnds, Raise, Finished, CopyInv, SlotInv
  <2> QED
    BY <2>1, <2>3 DEF CopyInv, SlotInv
<1>4. CASE (SourceStall \/ SourceTakeSlot \/ SourceClosed) /\ UNCHANGED raised
  <2>1. /\ source = "top"
        /\ \/ source' \in {"stalled", "eof"} /\ in_slots' = in_slots
           \/ source' = "read" /\ in_slots' = in_slots - 1
        /\ UNCHANGED <<output_q, sink, eof, out_slots, raised, shutdown>>
    BY <1>4 DEF SourceStall, SourceTakeSlot, SourceClosed, sinkVars, slotVars
  <2>2. InUse' = IF source' = "read" THEN InUse + 1 ELSE InUse
    <3> DEFINE writing == IF sink \in {"write", "release"} THEN 1 ELSE 0
    <3>1. writing \in Nat /\ writing' = writing
      BY <2>1
    <3>2. CASE source' = "read"
      BY <1>t, <2>1, <3>1, <3>2 DEF InUse
    <3>3. CASE source' # "read"
      BY <1>t, <2>1, <3>1, <3>3 DEF InUse
    <3> QED
      BY <3>2, <3>3
  <2>3. OnTheirWay' = OnTheirWay
    BY <1>t, <2>1 DEF OnTheirWay
  <2>4. Quiet
    BY <1>t, <1>s, <2>1, <2>2, <2>3 DEF Quiet
  <2> QED
    BY <2>4, QuietKeeps
<1>5. CASE SourceRead /\ UNCHANGED raised
  <2>1. /\ source = "read"
        /\ \/ source' = "eof" /\ in_slots' = in_slots + 1
           \/ source' = "deliver" /\ in_slots' = in_slots
        /\ UNCHANGED <<output_q, sink, eof, out_slots, raised, shutdown>>
    BY <1>5 DEF SourceRead, sinkVars, slotVars
  <2>2. InUse' = IF source' = "eof" THEN InUse - 1 ELSE InUse
    <3> DEFINE writing == IF sink \in {"write", "release"} THEN 1 ELSE 0
    <3>1. writing \in Nat /\ writing' = writing
      BY <2>1
    <3>2. CASE source' = "eof"
      BY <1>t, <2>1, <3>1, <3>2 DEF InUse
    <3>3. CASE source' # "eof"
      BY <1>t, <2>1, <3>1, <3>3 DEF InUse
    <3> QED
      BY <3>2, <3>3
  <2>3. OnTheirWay' = OnTheirWay
    BY <1>t, <2>1 DEF OnTheirWay
  <2>4. Quiet
    BY <1>t, <1>s, <2>1, <2>2, <2>3 DEF Quiet
  <2> QED
    BY <2>4, QuietKeeps
<1>6. CASE OnWriteComplete
  <2>1. /\ sink = "release" /\ sink' = "count" /\ in_slots' = in_slots + 1
        /\ source' = source \/ (source = "stalled" /\ source' = "top")
        /\ UNCHANGED <<output_q, eof, out_slots, raised, shutdown>>
    BY <1>6 DEF OnWriteComplete, SourceReleaseBuffer, slotVars
  <2>2. InUse' = InUse - 1
    BY <1>t, <2>1 DEF InUse
  <2>3. OnTheirWay' = OnTheirWay
    BY <1>t, <2>1 DEF OnTheirWay
  <2>4. Quiet
    BY <1>t, <1>s, <2>1, <2>2, <2>3 DEF Quiet
  <2> QED
    BY <2>4, QuietKeeps
<1>7. CASE WriteCounted
  <2>1. OnTheirWay' = OnTheirWay - 1 /\ InUse' = InUse /\ OnTheirWay > 0
    BY <1>7, <1>t DEF WriteCounted, OnTheirWay, InUse, sourceVars
  <2>2. /\ out_slots' = (out_slots + 1) % Word
        /\ UNCHANGED <<in_slots, eof, shutdown>>
    BY <1>7 DEF WriteCounted, sourceVars
  <2>3. OnTheirWay' \in Nat /\ OnTheirWay' <= TotalOutSlots
    BY <1>s, <2>1
  <2>4. out_slots' = TotalOutSlots - OnTheirWay'
    BY <1>s, <2>1, <2>2, <2>3, CounterSteps DEF CopyInv, SlotInv
  <2>5. out_slots' = TotalOutSlots <=> OnTheirWay' = 0
    <3>1. \A a, n \in Nat : a - n = a <=> n = 0
      OBVIOUS
    <3> QED
      BY <1>s, <2>3, <2>4, <3>1
  <2>6. raised' = IF Finished' THEN raised + 1 ELSE raised
    BY <1>7 DEF WriteCounted, Unlock, Raise
  <2>7. raised = 0 /\ shutdown = "running"
    BY <2>1 DEF CopyInv, SlotInv
  <2> QED
    BY <1>s, <2>1, <2>2, <2>3, <2>4, <2>5, <2>6, <2>7 DEF CopyInv, SlotInv, Finished
<1>8. CASE (SinkStall \/ SinkExit) /\ UNCHANGED raised
  <2> Quiet
    BY <1>8, <1>t DEF SinkStall, SinkExit, Quiet, OnTheirWay, InUse, sourceVars, slotVars
  <2> QED
    BY QuietKeeps
<1>9. CASE SinkTake /\ UNCHANGED raised
  <2>1. Len(output_q') = Len(output_q) - 1
    BY <1>9, <1>t DEF SinkTake
  <2> Quiet
    BY <1>9, <1>t, <2>1 DEF SinkTake, Quiet, OnTheirWay, InUse, sourceVars, slotVars
  <2> QED
    BY QuietKeeps
<1>10. CASE SinkWrite /\ UNCHANGED raised
  <2> Quiet
    BY <1>10, <1>t DEF SinkWrite, Quiet, OnTheirWay, InUse, sourceVars, slotVars
  <2> QED
    BY QuietKeeps
<1>11. CASE Main
  <2>1. /\ sink' = sink \/ (sink = "stalled" /\ sink' = "top")
        /\ shutdown' \in {"draining", "done"}
        /\ UNCHANGED <<output_q, source, in_slots, eof, out_slots, raised>>
    BY <1>11 DEF Main, PrimaryOnly, JoinWorkersAndSource, JoinSink, sourceVars, sinkVars, slotVars
  <2>2. InUse' = InUse
    BY <1>t, <2>1 DEF InUse
  <2>3. OnTheirWay' = OnTheirWay
    BY <1>t, <2>1 DEF OnTheirWay
  <2>4. raised = 1
    BY <1>11 DEF Main, CopyInv, SlotInv
  <2>5. Quiet
    BY <2>1, <2>2, <2>3, <2>4 DEF Quiet
  <2> QED
    BY <2>5, QuietKeeps
<1>12. CASE Spurious
  <2>1. /\ source' = source \/ (source = "stalled" /\ source' = "top")
        /\ sink' = sink \/ (sink = "stalled" /\ sink' = "top")
        /\ UNCHANGED <<output_q, in_slots, eof, out_slots, raised, shutdown>>
    BY <1>12 DEF Spurious, SpuriousWakeup, slotVars
  <2>2. InUse' = InUse
    BY <1>t, <2>1 DEF InUse
  <2>3. OnTheirWay' = OnTheirWay
    BY <1>t, <2>1 DEF OnTheirWay
  <2>4. Quiet
    BY <2>1, <2>2, <2>3 DEF Quiet
  <2> QED
    BY <2>4, QuietKeeps
<1>13. CASE UNCHANGED vars
  <2> Quiet
    BY <1>13, <1>t DEF vars, procVars, Quiet, OnTheirWay, InUse, sourceVars, sinkVars, slotVars
  <2> QED
    BY QuietKeeps
<1> QED
  BY <1>1, <1>2, <1>3, <1>4, <1>5, <1>6, <1>7, <1>8, <1>9, <1>10, <1>11, <1>12, <1>13
  DEF Next, Source, Sink, Over, SourceOnly, SinkOnly

(***************************************************************************)
(* The order of the output.                                                *)
(***************************************************************************)
(* The queue joins what is taken and what is pushed.                       *)
LEMMA ChainKept ==
  ASSUME ChainInv, UNCHANGED <<file_len, output_q, block>>, Taken' = Taken, Pushed' = Pushed,
         sink' = "write" => sink = "write" /\ UNCHANGED written
  PROVE  ChainInv'
BY DEF ChainInv

LEMMA ChainInvStep == CopyInv /\ [Next]_vars => ChainInv'
<1> SUFFICES ASSUME CopyInv, [Next]_vars PROVE ChainInv'
  OBVIOUS
<1>t. /\ output_q \in Seq(OutBlk) /\ written \in Seq(OutBlk)
      /\ ispec_total \in Nat /\ avail \in Nat /\ file_len \in Nat
  BY ProcessAssumption DEF CopyInv, ThreadInv
<1>c. ChainInv
  BY DEF CopyInv
<1>1. CASE OnInputAvail \/ SourceEnds \/ SourceStall \/ SourceTakeSlot \/ SourceClosed
  <2>1. /\ \/ source = "deliver" /\ source' = "push"
           \/ source \in {"top", "eof"} /\ source' \in {"stalled", "read", "eof", "done"}
        /\ UNCHANGED <<file_len, ispec_total, avail, output_q, sink, block, written>>
    BY <1>1 DEF OnInputAvail, SourceEnds, SourceSetsEof, SourceStall, SourceTakeSlot, SourceClosed,
       sinkVars
  <2>2. Pushed' = Pushed
    BY <2>1 DEF Pushed
  <2>3. Taken' = Taken
    BY <2>1 DEF Taken
  <2> QED
    BY <1>c, <2>1, <2>2, <2>3, ChainKept
<1>2. CASE SourceRead
  <2>1. /\ source = "read" /\ ispec_total' = ispec_total + avail'
        /\ source' = IF avail' = 0 THEN "eof" ELSE "deliver"
        /\ UNCHANGED <<file_len, output_q, sink, block, written>>
    BY <1>2 DEF SourceRead, sinkVars
  <2>2. avail' \in Nat
    <3>1. file_len - ispec_total \in Nat
      BY DEF CopyInv, ThreadInv
    <3> QED
      BY <1>2, <3>1, MinFacts, ProcessAssumption DEF SourceRead
  <2>3. Pushed' = Pushed
    <3>1. Pushed = ispec_total
      BY <2>1 DEF Pushed
    <3>2. CASE avail' = 0
      <4>1. Pushed' = ispec_total'
        BY <2>1, <3>2 DEF Pushed
      <4> QED
        BY <1>t, <2>1, <3>1, <3>2, <4>1
    <3>3. CASE avail' # 0
      <4>1. Pushed' = ispec_total' - avail'
        BY <2>1, <3>3 DEF Pushed
      <4>2. (ispec_total + avail') - avail' = ispec_total
        BY <1>t, <2>2, Cancel
      <4> QED
        BY <2>1, <3>1, <4>1, <4>2
    <3> QED
      BY <3>2, <3>3
  <2>4. Taken' = Taken
    BY <2>1 DEF Taken
  <2> QED
    BY <1>c, <2>1, <2>3, <2>4, ChainKept
<1>3. CASE InputPushed
  <2> DEFINE b == [lo |-> ispec_total - avail, hi |-> ispec_total]
  <2>1. /\ source = "push" /\ output_q' = Append(output_q, b) /\ source' \in {"eof", "top"}
        /\ sink' = sink \/ (sink = "stalled" /\ sink' = "top")
        /\ UNCHANGED <<file_len, ispec_total, avail, block, written>>
    BY <1>3 DEF InputPushed, SinkWriteBuffer, AfterDelivery
  <2>2. Taken' = Taken /\ (sink' = "write" <=> sink = "write")
    BY <2>1 DEF Taken
  <2>3. Pushed = b.lo /\ Pushed' = b.hi
    BY <2>1 DEF Pushed
  <2>4. b.lo < b.hi /\ b.hi <= file_len /\ b \in OutBlk
    BY <1>t, <2>1 DEF CopyInv, ThreadInv, OutBlk
  <2>5. /\ Len(output_q') = Len(output_q) + 1 /\ output_q' # <<>>
        /\ \A i \in 1 .. Len(output_q) : output_q'[i] = output_q[i]
        /\ output_q'[Len(output_q) + 1] = b
    BY <1>t, <2>1, <2>4
  <2>6. output_q = <<>> <=> Len(output_q) = 0
    BY <1>t
  <2>7. ASSUME NEW i \in 1 .. Len(output_q')
        PROVE  /\ output_q'[i].lo = IF i = 1 THEN Taken' ELSE output_q'[i - 1].hi
               /\ output_q'[i].lo < output_q'[i].hi /\ output_q'[i].hi <= file_len'
    <3>1. CASE i = Len(output_q) + 1
      <4>1. output_q'[i] = b
        BY <2>5, <3>1
      <4>2. b.lo = IF output_q = <<>> THEN Taken ELSE output_q[Len(output_q)].hi
        BY <1>c, <2>3 DEF ChainInv
      <4>3. CASE i = 1
        BY <1>t, <2>1, <2>2, <2>4, <2>6, <3>1, <4>1, <4>2, <4>3
      <4>4. CASE i # 1
        <5>1. i - 1 = Len(output_q) /\ i - 1 \in 1 .. Len(output_q)
          BY <1>t, <3>1, <4>4
        <5> QED
          BY <2>1, <2>4, <2>5, <2>6, <4>1, <4>2, <4>4, <5>1
      <4> QED
        BY <4>3, <4>4
    <3>2. CASE i # Len(output_q) + 1
      <4>1. i \in 1 .. Len(output_q) /\ (i # 1 => i - 1 \in 1 .. Len(output_q))
        BY <1>t, <2>5, <3>2
      <4> QED
        BY <1>c, <2>1, <2>2, <2>5, <4>1 DEF ChainInv
    <3> QED
      BY <3>1, <3>2
  <2>8. Pushed' = output_q'[Len(output_q')].hi
    BY <2>3, <2>5
  <2> QED
    BY <1>c, <2>1, <2>2, <2>5, <2>7, <2>8 DEF ChainInv, Taken
<1>4. CASE SinkTake
  <2>1. /\ sink = "top" /\ sink' = "write" /\ output_q # <<>>
        /\ block' = Head(output_q) /\ output_q' = Tail(output_q)
        /\ UNCHANGED <<file_len, ispec_total, avail, source, written>>
    BY <1>4 DEF SinkTake, sourceVars
  <2>2. /\ Len(output_q) \in Nat \ {0} /\ Len(output_q') = Len(output_q) - 1
        /\ block' = output_q[1] /\ \A i \in 1 .. Len(output_q') : output_q'[i] = output_q[i + 1]
        /\ output_q' = <<>> <=> Len(output_q) = 1
    <3>1. Len(output_q) \in Nat \ {0} /\ output_q' \in Seq(OutBlk)
      BY <1>t, <2>1
    <3>2. /\ Len(output_q') = Len(output_q) - 1 /\ block' = output_q[1]
          /\ \A i \in 1 .. Len(output_q') : output_q'[i] = output_q[i + 1]
      BY <1>t, <2>1, <3>1
    <3>3. output_q' = <<>> <=> Len(output_q') = 0
      BY <3>1
    <3> QED
      BY <3>1, <3>2, <3>3
  <2>3. Pushed' = Pushed
    BY <2>1 DEF Pushed
  <2>4. Taken = Abstract!Covered(written) /\ Taken' = output_q[1].hi
    BY <2>1, <2>2 DEF Taken
  <2>5. block'.lo = Abstract!Covered(written') /\ block'.lo < block'.hi /\ block'.hi <= file_len'
    BY <1>c, <2>1, <2>2, <2>4 DEF ChainInv
  <2>6. ASSUME NEW i \in 1 .. Len(output_q')
        PROVE  /\ output_q'[i].lo = IF i = 1 THEN Taken' ELSE output_q'[i - 1].hi
               /\ output_q'[i].lo < output_q'[i].hi /\ output_q'[i].hi <= file_len'
    <3>1. i + 1 \in 1 .. Len(output_q) /\ i + 1 # 1 /\ (i + 1) - 1 = i
      BY <2>2
    <3>2. /\ output_q[i + 1].lo = output_q[i].hi
          /\ output_q[i + 1].lo < output_q[i + 1].hi /\ output_q[i + 1].hi <= file_len
      BY <1>c, <3>1 DEF ChainInv
    <3>3. i # 1 => i - 1 \in 1 .. Len(output_q') /\ (i - 1) + 1 = i
      BY <2>2
    <3> QED
      BY <2>1, <2>2, <2>4, <3>2, <3>3
  <2>7. Pushed' = IF output_q' = <<>> THEN Taken' ELSE output_q'[Len(output_q')].hi
    <3>1. Pushed = output_q[Len(output_q)].hi
      BY <1>c, <2>1 DEF ChainInv
    <3>2. CASE Len(output_q) = 1
      BY <2>2, <2>3, <2>4, <3>1, <3>2
    <3>3. CASE Len(output_q) # 1
      <4>1. Len(output_q') \in 1 .. Len(output_q') /\ Len(output_q') + 1 = Len(output_q)
        BY <2>2, <3>3
      <4> QED
        BY <2>2, <2>3, <3>1, <3>3, <4>1
    <3> QED
      BY <3>2, <3>3
  <2> QED
    BY <2>5, <2>6, <2>7 DEF ChainInv
<1>5. CASE SinkWrite
  <2>1. /\ sink = "write" /\ sink' = "release" /\ written' = Append(written, block)
        /\ UNCHANGED <<file_len, ispec_total, avail, source, output_q, block>>
    BY <1>5 DEF SinkWrite, sourceVars
  <2>2. block \in OutBlk
    BY <2>1 DEF CopyInv, ThreadInv
  <2>3. Abstract!Covered(written') = block.hi
    BY <1>t, <2>1, <2>2 DEF Abstract!Covered
  <2>4. Taken' = Taken /\ Pushed' = Pushed
    BY <2>1, <2>3 DEF Taken, Pushed
  <2> QED
    BY <1>c, <2>1, <2>4 DEF ChainInv
<1>6. CASE OnWriteComplete
  <2>1. /\ sink = "release" /\ sink' = "count"
        /\ source' = source \/ (source = "stalled" /\ source' = "top")
        /\ UNCHANGED <<file_len, ispec_total, avail, output_q, written>>
    BY <1>6 DEF OnWriteComplete, SourceReleaseBuffer
  <2>2. Taken' = Taken /\ Pushed' = Pushed
    BY <2>1 DEF Taken, Pushed
  <2> QED
    BY <1>c, <2>1, <2>2 DEF ChainInv
<1>7. CASE WriteCounted \/ SinkStall \/ SinkExit \/ PrimaryOnly \/ SpuriousWakeup \/ UNCHANGED vars
  <2>1. /\ UNCHANGED <<file_len, ispec_total, avail, output_q, block, written>>
        /\ source' = source \/ (source = "stalled" /\ source' = "top")
        /\ sink' = sink \/ (sink # "write" /\ sink' # "write")
    BY <1>7 DEF WriteCounted, SinkStall, SinkExit, PrimaryOnly, JoinWorkersAndSource, JoinSink,
       SpuriousWakeup, vars, procVars, sourceVars, sinkVars
  <2>2. Taken' = Taken /\ Pushed' = Pushed
    BY <2>1 DEF Taken, Pushed
  <2> QED
    BY <1>c, <2>1, <2>2, ChainKept
<1> QED
  BY <1>1, <1>2, <1>3, <1>4, <1>5, <1>6, <1>7
  DEF Next, Source, Sink, Main, Spurious, Over, SourceOnly, SinkOnly

(***************************************************************************)
(* The theorems.                                                           *)
(***************************************************************************)
LEMMA CopyInvariant == Spec => []CopyInv
<1>1. Init => CopyInv
  BY InitCopyInv
<1>2. CopyInv /\ [Next]_vars => CopyInv'
  BY ThreadInvStep, SlotInvStep, ChainInvStep DEF CopyInv
<1> QED
  BY <1>1, <1>2, PTL DEF Spec

(* out_slots, which may wrap around below zero, is always the true         *)
(* balance, and no block finds output_q full.                              *)
THEOREM SlotsBalanceHolds == Spec => []SlotsBalance
<1>1. CopyInv => SlotsBalance
  <2> SUFFICES ASSUME CopyInv PROVE SlotsBalance
    OBVIOUS
  <2>1. /\ InUse \in Nat /\ OnTheirWay \in Nat /\ OnTheirWay <= InUse + 1
        /\ InUse <= TotalInSlots /\ Len(output_q) <= InUse
        /\ TotalInSlots \in Nat /\ TotalOutSlots \in Nat /\ TotalInSlots <= TotalOutSlots
        /\ Word \in Nat /\ Word > 2 * TotalOutSlots /\ TotalOutSlots # 0
    BY WayBounds, ProcessAssumption, CopyAssumption
  <2>2. Len(output_q) \in Nat
    BY DEF CopyInv, ThreadInv
  <2> DEFINE n == TotalOutSlots - OnTheirWay
  <2>3. n \in Int /\ - Word <= n /\ n < Word
    BY <2>1
  <2>4. n % Word = IF n < 0 THEN n + Word ELSE n
    BY <2>3, Wrapped
  <2>5. out_slots = n % Word
    BY <2>1, <2>4 DEF CopyInv, SlotInv
  <2> QED
    BY <2>1, <2>2, <2>5 DEF SlotsBalance
<1> QED
  BY <1>1, CopyInvariant, PTL

(* When SIGUSR2 is raised the output is the whole input.                   *)
LEMMA RaisedMeansWritten ==
  ASSUME CopyInv, raised # 0
  PROVE  /\ raised = 1 /\ source = "done" /\ output_q = <<>>
         /\ sink \notin {"write", "release"} /\ block = NULL
         /\ Abstract!Covered(written) = file_len
<1>1. raised = 1 /\ eof /\ OnTheirWay = 0
  BY DEF CopyInv, SlotInv
<1>2. Len(output_q) \in Nat /\ output_q \in Seq(OutBlk)
  BY DEF CopyInv, ThreadInv
<1>3. Len(output_q) = 0 /\ sink \notin {"write", "release"}
  <2> DEFINE pushing == IF source = "push" THEN 1 ELSE 0
             done == IF sink \in {"write", "release", "count"} THEN 1 ELSE 0
  <2>1. pushing \in Nat /\ done \in Nat /\ Len(output_q) + pushing + done = 0
    BY <1>1 DEF OnTheirWay
  <2>2. Len(output_q) = 0 /\ done = 0
    <3> HIDE DEF pushing, done
    <3> QED
      BY <1>2, <2>1
  <2> QED
    BY <2>2
<1>4. source = "done" /\ output_q = <<>> /\ block = NULL /\ ispec_total = file_len
  BY <1>1, <1>2, <1>3 DEF CopyInv, ThreadInv
<1> QED
  BY <1>1, <1>3, <1>4 DEF CopyInv, ChainInv, Pushed, Taken

(* Whichever thread comes last, SIGUSR2 is raised by it alone, once.       *)
THEOREM RaisedOnceHolds == Spec => []RaisedOnce
<1>1. CopyInv => RaisedOnce
  BY RaisedMeansWritten DEF RaisedOnce, CopyInv, SlotInv
<1> QED
  BY <1>1, CopyInvariant, PTL

(* Copying implements the ordered output: every step of the two threads    *)
(* writes the next interval of the input, closes the output when all of it *)
(* is covered, or is not seen.                                             *)
THEOREM CopyIsOrdered == Spec => CopiesInput
<1>1. Init => Abstract!Init
  BY ProcessAssumption DEF Init, ProcessInit, Abstract!Init
<1>2. CopyInv /\ [Next]_vars => [Abstract!Next]_(Abstract!vars)
  <2> SUFFICES ASSUME CopyInv, [Next]_vars PROVE [Abstract!Next]_(Abstract!vars)
    OBVIOUS
  <2>1. CASE SinkWrite /\ UNCHANGED raised
    <3>1. /\ sink = "write" /\ written' = Append(written, block) /\ UNCHANGED <<file_len, shutdown>>
      BY <2>1 DEF SinkWrite, sourceVars
    <3>2. raised = 0 /\ shutdown = "running"
      BY <3>1, RaisedMeansWritten DEF CopyInv, SlotInv
    <3>3. /\ block \in OutBlk /\ file_len \in Nat /\ block.lo = Abstract!Covered(written)
          /\ block.lo < block.hi /\ block.hi <= file_len
      BY <3>1 DEF CopyInv, ThreadInv, ChainInv
    <3>4. block = [lo |-> Abstract!Covered(written), hi |-> block.hi]
      BY <3>3 DEF OutBlk
    <3>5. block.hi \in Abstract!Covered(written) + 1 .. file_len
      BY <3>3 DEF OutBlk
    <3>6. Abstract!Emit
      BY <3>1, <3>2, <3>4, <3>5 DEF Abstract!Emit
    <3> QED
      BY <3>6 DEF Abstract!Next
  <2>2. CASE Main
    <3>4. raised # 0
      BY <2>2 DEF Main
    <3>1. UNCHANGED <<file_len, written>> /\ raised # 0
      BY <2>2, <3>4 DEF Main, PrimaryOnly, JoinWorkersAndSource, JoinSink, sourceVars, sinkVars
    <3>2. CASE JoinWorkersAndSource
      BY <3>1, <3>2 DEF JoinWorkersAndSource, Abstract!vars
    <3>3. CASE JoinSink
      <4>1. shutdown = "draining" /\ shutdown' = "done"
        BY <3>3 DEF JoinSink
      <4>2. Abstract!Close
        BY <3>1, <4>1, RaisedMeansWritten DEF Abstract!Close
      <4> QED
        BY <4>2 DEF Abstract!Next
    <3> QED
      BY <2>2, <3>2, <3>3 DEF Main, PrimaryOnly
  <2>3. CASE ~ (SinkWrite /\ UNCHANGED raised) /\ ~ Main
    <3>1. UNCHANGED <<file_len, written, shutdown>>
      BY <2>3 DEF Next, Source, Sink, Spurious, Over, OnInputAvail, InputPushed, SinkWriteBuffer,
         SourceEnds, SourceSetsEof, SourceOnly, SourceStall, SourceTakeSlot, SourceClosed, SourceRead,
         OnWriteComplete, WriteCounted, SinkOnly, SinkStall, SinkTake, SinkExit, SpuriousWakeup,
         vars, procVars, sourceVars, sinkVars
    <3> QED
      BY <3>1 DEF Abstract!vars
  <2> QED
    BY <2>1, <2>2, <2>3
<1> QED
  BY <1>1, <1>2, CopyInvariant, PTL DEF Spec, CopiesInput
(***************************************************************************)
(* Copying does not stand still.                                           *)
(***************************************************************************)
(* Why threads sleep, since when the main thread does not, and that nobody *)
(* keeps the monitor.                                                      *)
SleepInv ==
  /\ source = "stalled" => in_slots = 0
  /\ sink = "stalled" => output_q = <<>> /\ ~ finish
  /\ sink = "done" => finish
  /\ finish <=> shutdown # "running"
  /\ sched_mutex = NULL

LEMMA NextSleep == CopyInv /\ SleepInv /\ [Next]_vars => SleepInv'
<1> SUFFICES ASSUME CopyInv, SleepInv, [Next]_vars PROVE SleepInv'
  OBVIOUS
<1>0. output_q \in Seq(OutBlk) /\ in_slots \in Nat
  BY DEF CopyInv, ThreadInv
<1>1. CASE Source
  BY <1>0, <1>1 DEF Source, OnInputAvail, InputPushed, SinkWriteBuffer, AfterDelivery, SourceEnds,
     SourceSetsEof, Unlock, SchedUnlock, SourceOnly, SourceStall, SourceTakeSlot, SourceClosed,
     SourceRead, SleepInv, sinkVars, schedVars
<1>2. CASE Sink
  BY <1>0, <1>2 DEF Sink, OnWriteComplete, SourceReleaseBuffer, WriteCounted, Unlock, SchedUnlock,
     SinkOnly, SinkStall, SinkTake, SinkWrite, SinkExit, SleepInv, sourceVars, schedVars
<1>3. CASE Main
  BY <1>3 DEF Main, PrimaryOnly, JoinWorkersAndSource, JoinSink, SleepInv, sourceVars, sinkVars,
     schedVars
<1>4. CASE Spurious
  BY <1>4 DEF Spurious, SpuriousWakeup, SleepInv
<1>5. CASE UNCHANGED vars
  BY <1>5 DEF vars, procVars, sourceVars, sinkVars, schedVars, SleepInv
<1> QED
  BY <1>1, <1>2, <1>3, <1>4, <1>5 DEF Next, Over

(* Both threads sleep or have ended, or wait for the monitor, and the main *)
(* thread has not got its signal or cannot join the thread it waits for.   *)
AllAsleep ==
  /\ source \in {"stalled", "done"} \/ (source \in {"deliver", "eof"} /\ ~ MonitorFree)
  /\ sink \in {"stalled", "done"} \/ (sink = "count" /\ ~ MonitorFree)
  /\ \/ shutdown = "running" /\ (raised = 0 \/ source # "done")
     \/ shutdown = "draining" /\ (raised = 0 \/ sink # "done")

(* copy() never comes to a state in which nobody will take another step:   *)
(* a reader without a slot has a writer that will return one, a writer     *)
(* without a block has a reader that will bring one, and when there is     *)
(* nothing to bring the main thread has its signal.                        *)
THEOREM CopyNeverStuck == Spec => []~AllAsleep
<1>1. Init => SleepInv
  BY DEF Init, ProcessInit, SleepInv
<1>2. Spec => []SleepInv
  BY <1>1, NextSleep, CopyInvariant, PTL DEF Spec
<1>3. CopyInv /\ SleepInv => ~ AllAsleep
  <2> SUFFICES ASSUME CopyInv, SleepInv, AllAsleep PROVE FALSE
    OBVIOUS
  <2>1. source \in {"stalled", "done"} /\ sink \in {"stalled", "done"}
    BY DEF AllAsleep, SleepInv, MonitorFree
  <2>2. Len(output_q) \in Nat /\ InUse = Len(output_q) /\ OnTheirWay = Len(output_q)
    <3>1. Len(output_q) \in Nat
      BY DEF CopyInv, ThreadInv
    <3>2. /\ source \notin {"read", "deliver", "push"}
          /\ sink \notin {"write", "release"} /\ sink \notin {"write", "release", "count"}
          /\ source # "push"
      BY <2>1
    <3>3. InUse = Len(output_q) + 0 + 0 /\ OnTheirWay = Len(output_q) + 0 + 0
      BY <3>2, Zenon DEF InUse, OnTheirWay
    <3> QED
      BY <3>1, <3>3
  <2>3. sink = "done" => raised = 1 /\ source = "done" /\ shutdown # "running"
    BY RaisedMeansWritten DEF SleepInv, CopyInv, SlotInv
  <2>4. CASE source = "stalled"
    <3>1. in_slots = 0 /\ output_q = <<>> /\ InUse = TotalInSlots
      BY <2>1, <2>2, <2>3, <2>4 DEF SleepInv, CopyInv, SlotInv
    <3> QED
      BY <2>2, <3>1, ProcessAssumption
  <2>5. CASE source = "done"
    <3>1. CASE sink = "done"
      BY <2>3, <2>5, <3>1 DEF AllAsleep
    <3>2. CASE sink = "stalled"
      <4>1. eof /\ OnTheirWay = 0 /\ shutdown = "running"
        BY <2>2, <2>5, <3>2 DEF SleepInv, CopyInv, ThreadInv
      <4>2. raised = 1
        BY <4>1 DEF CopyInv, SlotInv
      <4> QED
        BY <2>5, <4>1, <4>2 DEF AllAsleep
    <3> QED
      BY <2>1, <3>1, <3>2
  <2> QED
    BY <2>1, <2>4, <2>5
<1> QED
  BY <1>2, <1>3, CopyInvariant, PTL
=============================================================================

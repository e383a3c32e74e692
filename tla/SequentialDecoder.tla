------------------------- MODULE SequentialDecoder -------------------------
(***************************************************************************)
(* What the decompressor promises to whoever reads its output, however     *)
(* many workers guess what comes next: it behaves as a decoder that takes  *)
(* the blocks one after the other, and writes the chunks that each of them *)
(* decodes to, in order.  It says that all is well when it has written     *)
(* everything and the file is sound.  It may give up at any time, but only *)
(* if the file is not; no damaged block is ever written to its end.        *)
(***************************************************************************)
EXTENDS Bitstream

VARIABLES
  stream,     \* what is in the file
  out,        \* the chunks written so far
  verdict     \* "working", "well" or "error"

vars == <<stream, out, verdict>>

Init == out = <<>> /\ verdict = "working"

(* The chunk to be written next: that of a block whose chunks are not all  *)
(* written yet while those of all blocks before it are.                    *)
ChunksOf(i) == {k \in 1 .. Len(out) : out[k].pos[1] = stream.blocks[i].base}

Turn(i) ==
  /\ Cardinality(ChunksOf(i)) < stream.blocks[i].chunks
  /\ \A j \in 1 .. i - 1 : Cardinality(ChunksOf(j)) = stream.blocks[j].chunks

Damage(b, k) == b.defect = "overflow" \/ (b.defect # "none" /\ k + 1 = b.chunks)

Write ==
  /\ verdict = "working"
  /\ \E i \in 1 .. Len(stream.blocks) :
       LET b == stream.blocks[i]
           k == Cardinality(ChunksOf(i))
       IN /\ Turn(i) /\ ~ Damage(b, k)
          /\ out' = Append(out, [pos |-> <<b.base, k>>])
  /\ UNCHANGED <<stream, verdict>>

Succeed ==
  /\ verdict = "working"
  /\ \A i \in 1 .. Len(stream.blocks) : ~ Turn(i)
  /\ Sound(stream)
  /\ verdict' = "well"
  /\ UNCHANGED <<stream, out>>

GiveUp ==
  /\ verdict = "working"
  /\ ~ Sound(stream)
  /\ verdict' = "error"
  /\ UNCHANGED <<stream, out>>

Next == Write \/ Succeed \/ GiveUp

Spec == Init /\ [][Next]_vars
=============================================================================

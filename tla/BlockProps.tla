----------------------------- MODULE BlockProps -----------------------------
(***************************************************************************)
(* What the block codec promises.                                          *)
(***************************************************************************)
EXTENDS BlockCodec

(* What a block says that begins with a character that follows run times   *)
(* ch; the last run may have no count.                                     *)
RECURSIVE Expanded(_, _, _)
Expanded(block, ch, run) ==
  IF block = <<>> THEN [out |-> <<>>, rv |-> IF run = 4 THEN "ERR_RUNLEN" ELSE "OK"]
  ELSE LET c == Head(block)
           now == IF run = 4 THEN [i \in 1 .. c |-> ch] ELSE <<c>>
           rest == IF run = 4 THEN Expanded(Tail(block), ch, 0)
                   ELSE Expanded(Tail(block), c, IF c = ch THEN run + 1 ELSE 1)
       IN [rest EXCEPT !.out = now \o @]

(* The characters at some places of a randomized block are not those that  *)
(* it says.                                                                *)
Scrambled(block) ==
  LET flips == E!Flips(RAND_THRESH, 0, Len(block))
  IN [i \in DOMAIN block |-> IF i - 1 \in flips THEN E!Flipped(block[i]) ELSE block[i]]

Promised == Expanded(IF fault[1] = "rand" THEN Scrambled(enc.block) ELSE enc.block, -1, 0)

(* What comes out of emit() is what went into collect(), and so is what    *)
(* the checksum of the block is made of, however input, bits and output    *)
(* are cut into buffers, and wherever a run or a block ends; retrieve()    *)
(* stops at the last bit of the block.  A randomized block decodes to what *)
(* its text says, error included.                                          *)
RoundTrip ==
  phase = "done" /\ fault[1] \in {"none", "rand"} =>
    /\ r.rv = "OK" /\ r.pos = Len(bits)
    /\ d.rv = Promised.rv /\ d.out = Promised.out
    /\ enc.crc = SubSeq(input, 1, Consumed)
    /\ fault[1] = "none" => d.out = enc.crc

(* A block never outgrows its buffer, the count of the last run included,  *)
(* and the bits that transmit() sends are as many as encode() has counted, *)
(* which is where the stream goes on; the assertions of transmit().        *)
SizesExact ==
  /\ phase # "done" => Len(enc.block) <= max_block_size
  /\ phase = "collect" /\ enc.rle_state >= 4 => Len(enc.block) < max_block_size
  /\ phase = "transmit" => Len(transmit(enc)) + Trailing = 8 * enc.out_expect_len

(* How many codes may have each length, if as of them make a whole tree.   *)
Profiles(as) ==
  {p \in [1 .. MAX_CODE_LENGTH -> 0 .. as] :
     /\ SumOf(p) = as
     /\ SumOf([l \in DOMAIN p |-> p[l] * 2 ^ (MAX_CODE_LENGTH - l)]) = 2 ^ MAX_CODE_LENGTH}

(* Alphabets of up to ten symbols are looked at.                           *)
ProfilesOf == [as \in 3 .. 10 |-> Profiles(as)]

(* What symbols cost with these codes, if the heaviest get the shortest.   *)
ProfileCost(freq, p) ==
  LET heaviest == SortSeq([i \in 1 .. Size(freq) |-> freq[i - 1]], >)
      lengths == FlattenSeq([l \in 1 .. MAX_CODE_LENGTH |-> [i \in 1 .. p[l] |-> l]])
  IN SumOf([i \in DOMAIN lengths |-> heaviest[i] * lengths[i]])

Complete(length) ==
  /\ Range(length) \subseteq 1 .. MAX_CODE_LENGTH
  /\ SumOf([v \in DOMAIN length |-> 2 ^ (MAX_CODE_LENGTH - length[v])]) = 2 ^ MAX_CODE_LENGTH

NoHigher(p, length) == \A l \in DOMAIN p : p[l] > 0 => \E v \in DOMAIN length : length[v] >= l

(* The codes that assign_codes() finds by package-merge make a whole tree, *)
(* no higher than the format allows, and no tree that is not higher codes  *)
(* the symbols in fewer bits.  The codes that build_tree() and             *)
(* compute_depths() find in place are those of Huffman: if no code can be  *)
(* too long, none are better.                                              *)
CodesOptimal ==
  phase = "transmit" =>
    \A t \in DOMAIN enc.code.trees :
      LET tree == enc.code.trees[t]
          as == Size(tree.freq)
          weight == Value([v \in DOMAIN tree.freq |-> Greatest(tree.freq[v], 1)])
      IN /\ Complete(tree.length)
         /\ \A p \in ProfilesOf[as] :
              NoHigher(p, tree.length) => CodeCost(tree.length, tree.freq) <= ProfileCost(tree.freq, p)
         /\ as <= MAX_CODE_LENGTH + 1 =>
              \A p \in ProfilesOf[as] :
                CodeCost(make_code_lengths(weight), weight) <= ProfileCost(weight, p)

(* retrieve() never uses bits that it has not loaded, never holds so many  *)
(* that a code could be mistaken for infinity, and never loads a word that *)
(* is not there, least of all where it does not look; whatever the bits    *)
(* are, it ends, and what it takes for a block has a place to begin.       *)
RetrieverInBounds ==
  r # Nothing =>
    /\ r.w \in 0 .. 63 /\ r.next <= r.limit /\ r.limit <= words
    /\ Len(r.tt) <= MAX_BLOCK_SIZE
    /\ r.rv = "OK" => r.bwt_idx < Len(r.tt)
=============================================================================

---------------------------- MODULE BlockDecoder ----------------------------
(***************************************************************************)
(* retrieve() of decode.c, as operators: from the bits of a block to what  *)
(* divbwt() has made of it.                                                *)
(*                                                                         *)
(* It is an automaton that stops wherever it needs a word that is not      *)
(* there.  A record r has what is kept in struct retriever_internal_state  *)
(* and in the bitstream, and the part of the block that is known.  Of the  *)
(* bits, pos have been consumed and w more are live; next words have been  *)
(* loaded out of limit.  Where the code stops with NEED(s), r.state is s;  *)
(* an operator that is named after such a state is what the code does from *)
(* there to the next NEED.                                                 *)
(***************************************************************************)
EXTENDS Util, TLC

CONSTANTS
  Chars,               \* 0 .. 255
  GROUP_SIZE,          \* 50
  MAX_CODE_LENGTH,     \* 20
  HUFF_START_WIDTH,    \* 10
  ROW_WIDTH,           \* 16
  SLIDE_LENGTH,        \* 8192
  MAX_BLOCK_SIZE,      \* 900000
  MAX_SELECTORS_USED,  \* 18001
  FAST_WORDS           \* 32 words hold the longest group

MIN_CODE_LENGTH == 1
MIN_TREES == 2
MAX_TREES == 6

(* What stands for a tree that cannot be used.                             *)
ERR_INCOMPLT == MAX_TREES
ERR_PREFIX == MAX_TREES + 1

RUN_A == 257
RUN_B == 258
EOB == 0
IsRun(s) == s > 256

(***************************************************************************)
(* The bit buffer.  What is not loaded yet reads as zeros.                 *)
(***************************************************************************)
Bit(bits, i) == IF i \in DOMAIN bits THEN bits[i] ELSE 0

PeekBits(bits, r, k) ==
  [i \in 1 .. k |-> IF i <= r.w THEN Bit(bits, r.pos + i) ELSE 0]

Number(b) == FoldLeft(LAMBDA n, x : 2 * n + x, 0, b)

Peek(bits, r, k) == Number(PeekBits(bits, r, k))
Dump(r, k) == [r EXCEPT !.pos = @ + k, !.w = @ - k]

(* NEED() and NEED_FAST(), which does not look whether a word is there.    *)
Starved(r) == r.w < 32 /\ r.next = r.limit /\ r.state # "FAST"
Load(r) == IF r.w < 32 THEN [r EXCEPT !.w = @ + 32, !.next = @ + 1] ELSE r

Goto(r, s) == [r EXCEPT !.state = s]
Return(r, rv) == [r EXCEPT !.state = "RETURN", !.rv = rv]

(***************************************************************************)
(* make_tree().                                                            *)
(***************************************************************************)
(* Codes are left-justified in MAX_CODE_LENGTH bits.  base[k] is the first *)
(* code of length k or, if there is none, of the next length; Infinity if  *)
(* there is none of that length or longer.                                 *)
Infinity == 2 ^ MAX_CODE_LENGTH
Kraft(L) == SumOf([v \in DOMAIN L |-> 2 ^ (MAX_CODE_LENGTH - L[v])])

Symbol(v, n) == CASE v = 0 -> RUN_A [] v = 1 -> RUN_B [] v = n - 1 -> EOB [] OTHER -> v - 1

make_tree(L) ==
  LET n == Size(L)
      lengths == MIN_CODE_LENGTH .. MAX_CODE_LENGTH
      C(k) == Cardinality({v \in DOMAIN L : L[v] = k})
      count == [k \in lengths |-> Cardinality({v \in DOMAIN L : L[v] < k})]
      base == [k \in MIN_CODE_LENGTH .. MAX_CODE_LENGTH + 1 |->
                 IF k > MAX_CODE_LENGTH \/ \A l \in k .. MAX_CODE_LENGTH : C(l) = 0 THEN Infinity
                 ELSE SumOf([v \in {u \in DOMAIN L : L[u] < k} |-> 2 ^ (MAX_CODE_LENGTH - L[v])])]
      order == Value(SortSeq([i \in 1 .. n |-> i - 1], LAMBDA u, v : L[u] < L[v] \/ (L[u] = L[v] /\ u < v)))
      short == SelectSeq(order, LAMBDA v : L[v] <= HUFF_START_WIDTH)
      entries == FlattenSeq([i \in DOMAIN short |->
                   [j \in 1 .. 2 ^ (HUFF_START_WIDTH - L[short[i]]) |->
                      [k |-> L[short[i]], s |-> Symbol(short[i], n)]]])
      first(code) == CHOOSE k \in HUFF_START_WIDTH + 1 .. MAX_CODE_LENGTH :
                       LET v == code * 2 ^ (MAX_CODE_LENGTH - HUFF_START_WIDTH)
                       IN v < base[k + 1] /\ \A l \in HUFF_START_WIDTH + 2 .. k : v >= base[l]
  IN [count |-> count, base |-> base, perm |-> [i \in DOMAIN order |-> Symbol(order[i], n)],
      start |-> [c \in 0 .. 2 ^ HUFF_START_WIDTH - 1 |->
                   IF c < Len(entries) THEN entries[c + 1] ELSE [k |-> first(c), s |-> -1]]]

(* The symbol at the head of the bits, and the length of its code.         *)
Decoded(bits, r, tree) ==
  LET x == tree.start[Peek(bits, r, HUFF_START_WIDTH)]
      v == Peek(bits, r, MAX_CODE_LENGTH)
      k == CHOOSE k \in x.k .. MAX_CODE_LENGTH :
             v < tree.base[k + 1] /\ \A l \in x.k + 1 .. k : v >= tree.base[l]
      i == tree.count[k] + ((v - tree.base[k]) \div 2 ^ (MAX_CODE_LENGTH - k))
  IN IF x.k <= HUFF_START_WIDTH THEN x ELSE [k |-> k, s |-> tree.perm[i + 1]]

(***************************************************************************)
(* mtf_one(): the list is kept in rows of ROW_WIDTH, each at its place in  *)
(* a slide; to move an element, a row gives up one place at its end and    *)
(* gets one at its front.  When there is no place left in front of the     *)
(* first row, all of them are moved back to the end of the slide.          *)
(***************************************************************************)
NumRows == Cardinality(Chars) \div ROW_WIDTH
MtfBase == SLIDE_LENGTH - Cardinality(Chars)

Rebuilt(m) ==
  [row |-> [i \in DOMAIN m.row |-> MtfBase + i * ROW_WIDTH],
   slide |-> [k \in DOMAIN m.slide |->
                IF k < MtfBase THEN m.slide[k]
                ELSE m.slide[m.row[(k - MtfBase) \div ROW_WIDTH] + ((k - MtfBase) % ROW_WIDTH)]]]

(* Elements from first to last - 1 move up by one place.                   *)
Moved(slide, first, last) ==
  [k \in DOMAIN slide |-> IF first < k /\ k <= last THEN slide[k - 1] ELSE slide[k]]

mtf_one(m0, c) ==
  LET m == IF c >= ROW_WIDTH /\ m0.row[0] = 0 THEN Value(Rebuilt(m0)) ELSE m0
      n == c \div ROW_WIDTH
      last == m.row[n] + (c % ROW_WIDTH)
      slid == Value(Moved(m.slide, m.row[n], last))
      row == Value([i \in DOMAIN m.row |-> IF i < n THEN m.row[i] - 1 ELSE m.row[i]])
      Carry(s, i) == [s EXCEPT ![row[n - i + 1]] = s[row[n - i] + ROW_WIDTH]]
  IN [row |-> row,
      slide |-> [FoldLeft(Carry, slid, Up(n)) EXCEPT ![row[0]] = m.slide[last]]]

(***************************************************************************)
(* Tables of six bits: the place of the first zero, or 7; how many bits of *)
(* a step of the code lengths are there, and what they add up to, plus 3.  *)
(***************************************************************************)
Times(n, x) == [i \in 1 .. n |-> x]

table == Times(32, 1) \o Times(16, 2) \o Times(8, 3) \o Times(4, 4) \o <<5, 5, 6, 7>>

L == Times(32, 1) \o Times(8, 3) \o <<5, 5, 6, 6, 5, 5, 6, 6>>
                  \o Times(8, 3) \o <<5, 5, 6, 6, 5, 5, 6, 6>>

R == Times(32, 3) \o Times(8, 4) \o <<5, 5, 6, 4, 3, 3, 4, 2>>
                  \o Times(8, 2) \o <<3, 3, 4, 2, 1, 1, 2, 0>>

(***************************************************************************)
(* retrieve().                                                             *)
(***************************************************************************)
(* bs: the header of the block has been consumed, and w bits are live.     *)
decoder_init(w) ==
  [state |-> "S_BWT_IDX", rv |-> "MORE", pos |-> 0, w |-> w, next |-> 0, limit |-> 0, eof |-> FALSE,
   rand |-> 0, bwt_idx |-> 0, big |-> <<>>, cmap |-> <<>>, num_trees |-> 0, num_selectors |-> 0,
   selector |-> <<>>, code_len |-> <<>>, lengths |-> <<>>, mtf |-> <<>>, tree |-> <<>>,
   g |-> 0, j |-> 0, t |-> 0, imtf |-> [row |-> <<>>, slide |-> <<>>],
   runChar |-> 0, run |-> 0, shift |-> 0, tt |-> <<>>]

alpha_size(r) == Len(r.cmap) + 2

S_BWT_IDX(bits, r) ==
  Goto([Dump(r, 25) EXCEPT !.rand = Peek(bits, r, 1), !.bwt_idx = Peek(bits, Dump(r, 1), 24)],
       "S_BITMAP_BIG")

(* The bitmap of sixteen characters of which some are used.                *)
Small(bits, r) ==
  LET used == SelectSeq(Up(16), LAMBDA i : PeekBits(bits, r, 16)[i] = 1)
  IN Goto([Dump(r, 16) EXCEPT !.big = Tail(@),
                              !.cmap = @ \o [k \in DOMAIN used |-> 16 * Head(r.big) + used[k] - 1]],
          "S_BITMAP_SMALL")

S_BITMAP_BIG(bits, r) ==
  LET used == SelectSeq(Up(Cardinality(Chars) \div 16), LAMBDA i : PeekBits(bits, r, 16)[i] = 1)
      b == [Dump(r, 16) EXCEPT !.big = [k \in DOMAIN used |-> used[k] - 1]]
  IN IF used = <<>> THEN Return(b, "ERR_BITMAP") ELSE Small(bits, b)

Selector(bits, r) ==
  LET k == table[Peek(bits, r, 6) + 1]
  IN IF k > r.num_trees THEN Return(r, "ERR_SELECTOR")
     ELSE Goto([Dump(r, k) EXCEPT !.selector = Append(@, k - 1)], "S_SELECTOR_MTF")

Counts(bits, r) ==
  LET trees == Peek(bits, r, 3)
      selectors == Peek(bits, Dump(r, 3), 15)
      b == Value([Dump(r, 18) EXCEPT !.num_trees = trees, !.num_selectors = selectors])
  IN IF r.cmap = <<>> THEN Return(r, "ERR_BITMAP")
     ELSE IF trees < MIN_TREES \/ trees > MAX_TREES THEN Return(r, "ERR_TREES")
     ELSE IF selectors = 0 THEN Return(b, "ERR_GROUPS")
     ELSE Selector(bits, b)

S_BITMAP_SMALL(bits, r) == IF r.big # <<>> THEN Small(bits, r) ELSE Counts(bits, r)

(* code_len: the lengths that are known, and the one that is being found.  *)
DeltaStep(bits, r) ==
  LET x == Peek(bits, r, 6) + 1
      k == Last(r.code_len) + R[x]
      len == Append(Front(r.code_len), k - 3)
  IN IF k < 3 + MIN_CODE_LENGTH \/ k > 3 + MAX_CODE_LENGTH THEN Return(r, "ERR_DELTA")
     ELSE Goto([Dump(r, L[x]) EXCEPT !.code_len = IF L[x] = 6 THEN len ELSE Append(len, k - 3)],
               "S_DELTA_TAG")

TreeStart(bits, r) ==
  DeltaStep(bits, Value([Dump(r, 5) EXCEPT !.code_len = <<Peek(bits, r, 5)>>]))

S_SELECTOR_MTF(bits, r) ==
  IF Len(r.selector) < r.num_selectors THEN Selector(bits, r) ELSE TreeStart(bits, r)

(* A code that is not complete is an error when it is used.                *)
TreeAdded(r) ==
  LET len == Value([v \in 0 .. alpha_size(r) - 1 |-> r.code_len[v + 1]])
      sum == Kraft(len)
      t == Len(r.tree)
  IN [r EXCEPT !.tree = Append(@, IF sum = Infinity THEN make_tree(len) ELSE <<>>),
               !.mtf = Append(@, IF sum < Infinity THEN ERR_INCOMPLT
                                 ELSE IF sum > Infinity THEN ERR_PREFIX ELSE t)]

(* Mutant of NextGroup: one word less is enough for the fast path.         *)
NextGroup_OneLess(r) ==
  LET i == r.selector[r.g + 1] + 1
      t == r.mtf[i]
  IN IF r.g >= r.num_selectors \/ r.g >= MAX_SELECTORS_USED THEN Return(r, "ERR_UNTERM")
     ELSE IF t >= MAX_TREES THEN Return(r, IF t = ERR_INCOMPLT THEN "ERR_INCOMPLT" ELSE "ERR_PREFIX")
     ELSE Goto([r EXCEPT !.t = t, !.j = 0, !.mtf = <<t>> \o RemoveAt(@, i)],
               IF r.limit - r.next >= FAST_WORDS - 1 THEN "FAST" ELSE "S_PREFIX")

NextGroup(r) ==
  LET i == r.selector[r.g + 1] + 1
      t == r.mtf[i]
  IN IF r.g >= r.num_selectors \/ r.g >= MAX_SELECTORS_USED THEN Return(r, "ERR_UNTERM")
     ELSE IF t >= MAX_TREES THEN Return(r, IF t = ERR_INCOMPLT THEN "ERR_INCOMPLT" ELSE "ERR_PREFIX")
     ELSE Goto([r EXCEPT !.t = t, !.j = 0, !.mtf = <<t>> \o RemoveAt(@, i)],
               IF r.limit - r.next >= FAST_WORDS THEN "FAST" ELSE "S_PREFIX")

Codes(r) ==
  NextGroup([r EXCEPT !.runChar = r.cmap[1],
    !.imtf = [row |-> [i \in 0 .. NumRows - 1 |-> MtfBase + i * ROW_WIDTH],
              slide |-> [k \in 0 .. SLIDE_LENGTH - 1 |->
                           IF k - MtfBase + 1 \in DOMAIN r.cmap THEN r.cmap[k - MtfBase + 1] ELSE 0]]])

S_DELTA_TAG(bits, r) ==
  LET b == Value(TreeAdded(r))
  IN IF Len(r.code_len) <= alpha_size(r) THEN DeltaStep(bits, r)
     ELSE IF Len(b.tree) < r.num_trees THEN TreeStart(bits, b)
     ELSE Codes(b)

(* The run that precedes goes into the block.                              *)
TooLong(r) == r.run > MAX_BLOCK_SIZE - Len(r.tt)
Dumped(r) == [r EXCEPT !.tt = @ \o Times(r.run, r.runChar)]

End(r) ==
  LET b == Value(Dumped(r))
  IN IF TooLong(r) THEN Return(r, "ERR_OVERFLOW")
     ELSE IF b.tt = <<>> THEN Return(b, "ERR_EMPTY")
     ELSE IF r.bwt_idx >= Len(b.tt) THEN Return(b, "ERR_BWTIDX")
     ELSE Return(b, "OK")

Run(r, s) == [r EXCEPT !.run = @ + (s - 256) * 2 ^ r.shift, !.shift = @ + 1]

Character(r, s) ==
  LET m == Value(mtf_one(r.imtf, s))
  IN [Dumped(r) EXCEPT !.imtf = m, !.runChar = m.slide[m.row[0]], !.run = 1, !.shift = 0]

NextCode(r) == IF r.j + 1 < GROUP_SIZE THEN [r EXCEPT !.j = @ + 1]
               ELSE NextGroup([r EXCEPT !.g = @ + 1])

S_PREFIX(bits, r) ==
  LET x == Value(Decoded(bits, r, r.tree[r.t + 1]))
      b == Value(Dump(r, x.k))
  IN IF x.s = EOB THEN End(b)
     ELSE IF IsRun(x.s) /\ r.run <= MAX_BLOCK_SIZE THEN NextCode(Value(Run(b, x.s)))
     ELSE IF TooLong(r) THEN Return(b, "ERR_OVERFLOW")
     ELSE NextCode(Value(Character(b, x.s)))

(* From one NEED to the next.                                              *)
retrieve(bits, r) ==
  LET b == Value(Load(r))
  IN CASE r.state = "S_BWT_IDX" -> S_BWT_IDX(bits, b)
       [] r.state = "S_BITMAP_BIG" -> S_BITMAP_BIG(bits, b)
       [] r.state = "S_BITMAP_SMALL" -> S_BITMAP_SMALL(bits, b)
       [] r.state = "S_SELECTOR_MTF" -> S_SELECTOR_MTF(bits, b)
       [] r.state = "S_DELTA_TAG" -> S_DELTA_TAG(bits, b)
       [] r.state \in {"S_PREFIX", "FAST"} -> S_PREFIX(bits, b)
=============================================================================

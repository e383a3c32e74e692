---------------------------- MODULE OutputProofs ----------------------------
(***************************************************************************)
(* Every chunk that the decompressor waits for is with somebody, no queue  *)
(* of positions outgrows its array, at the end all is given back, and what *)
(* is written and said is what a decoder would that takes one block after  *)
(* the other: each step preserves the invariants ChunkInv, EndInv and      *)
(* FaithInv of module ExpansionInv.                                        *)
(***************************************************************************)
EXTENDS ExpansionProofs

(***************************************************************************)
(* The chunks.                                                             *)
(***************************************************************************)
LEMMA QueueBases ==
  ASSUME NEW q \in Seq(ChunkAt)
  PROVE  /\ Len(q) \in Nat
         /\ \A i \in 1 .. Len(q) : /\ q[i].pos \in Position /\ q[i].pos[1] \in Nat
                                   /\ q[i].pos[2] \in Nat /\ q[i].pos[1] \in Bases(q)
         /\ \A u : u \in Bases(q) <=> \E i \in 1 .. Len(q) : q[i].pos[1] = u
<1>1. /\ Len(q) \in Nat /\ \A i \in 1 .. Len(q) : q[i] \in ChunkAt
      /\ \A x : x \in ToSet(q) <=> \E j \in 1 .. Len(q) : q[j] = x
  BY ToSetOf
<1>2. \A e \in ChunkAt : e.pos \in Position /\ e.pos[1] \in Nat /\ e.pos[2] \in Nat
  BY DEF ChunkAt, Position
<1>3. \A u : u \in Bases(q) <=> \E i \in 1 .. Len(q) : q[i].pos[1] = u
  BY <1>1 DEF Bases
<1> QED
  BY <1>1, <1>2, <1>3

(* What is not carried yet, the master has in hand.                        *)
LEMMA Uncarried ==
  ASSUME MasterInv, ChunkInv
  PROVE  /\ ReadAhead \subseteq Carried
         /\ parsing_done => Bases(order_q) \subseteq Carried
         /\ \A u \in Bases(order_q) : u \in RealBases(stream) /\ u \in Nat
         /\ ~ parsing_done => \A u \in Bases(order_q) : u \notin Carried =>
              /\ parse_token = FALSE /\ At({"parse"}) = {}
              /\ u <= parser_bs.pos[1] /\ parser_bs.pos[1] <= Pattern(stream, u).stop
              /\ \A rb \in Reached(stream, Jobs, parser_bs.pos[1]) : rb.base = u
<1>1. /\ Bases(order_q) \cup ReadAhead \subseteq JobBases \cup Carried
      /\ order_q \in Seq(ChunkAt) /\ Expected(stream, order_q)
  BY DEF ChunkInv, ChunkTypes
<1>2. StreamOK(stream)
  BY MasterParts
<1>3. \A u \in Bases(order_q) : u \in RealBases(stream) /\ u \in Nat
  <2>1. \A u \in Bases(order_q) : u \in RealBases(stream)
    BY <1>1, QueueBases DEF Expected
  <2> QED
    BY <1>2, <2>1, RealOf
<1>4. CASE parsing_done
  <2>1. retr_q = <<>> /\ unord_q = <<>>
    BY <1>4 DEF MasterInv, Finished
  <2>2. ReadAhead = {}
    BY <2>1 DEF ReadAhead, Bases, ToSet
  <2>3. Jobs = InHand
    BY <2>1 DEF Jobs, ToSet
  <2>4. \A u \in Bases(order_q) : u \notin JobBases
    BY <1>4, <2>3 DEF ChunkInv, JobBases, InHand
  <2> QED
    BY <1>1, <1>3, <1>4, <2>2, <2>4
<1>5. CASE ~ parsing_done
  <2> DEFINE p == parser_bs.pos[1]
             B == Bases(unord_q)
  <2>1. /\ Work(stream, Jobs, B, ublk, p, tail_offs) /\ p \in Nat
        /\ Exclusive(stream, Jobs, parser_bs, parse_token, At({"parse"}))
    BY <1>5, MasterWorking
  <2>2. \A u \in Bases(order_q) : u <= p
    BY <1>5 DEF ChunkInv
  <2> HIDE DEF B
  <2>3. ReadAhead \subseteq Carried
    <3>1. ASSUME NEW u \in ReadAhead PROVE u \notin JobBases
      <4>1. u \in B /\ ublk[u].complete
        BY DEF ReadAhead, B
      <4>2. PatternOK(stream, u, Jobs, ublk, p, tail_offs)
        BY <2>1, <4>1 DEF Work
      <4> QED
        BY <4>1, <4>2 DEF PatternOK, JobBases
    <3> QED
      BY <1>1, <3>1
  <2>4. ASSUME NEW u \in Bases(order_q), u \notin Carried
        PROVE  /\ parse_token = FALSE /\ At({"parse"}) = {}
               /\ u <= p /\ p <= Pattern(stream, u).stop
               /\ \A rb \in Reached(stream, Jobs, p) : rb.base = u
    <3>1. PICK rb \in Jobs : rb.base = u
      BY <1>1, <2>4 DEF JobBases
    <3>2. rb \in Reached(stream, Jobs, p) /\ u <= p
      BY <1>3, <2>2, <3>1 DEF Reached
    <3>3. /\ parse_token => FALSE
          /\ \A w \in At({"parse"}) : FALSE
          /\ Reached(stream, Jobs, p) = {rb} /\ parser_bs = BitsAt(rb.pos[1], rb.offset)
      BY <2>1, <3>2 DEF Exclusive
    <3>4. rb.pos[1] \in Nat /\ rb.offset \in Nat /\ rb.pos[1] <= Pattern(stream, rb.base).stop
      BY <1>2, <2>1, WorkTypes
    <3>5. p = rb.pos[1]
      BY <3>3, <3>4, BitsAtOf
    <3>6. parse_token = FALSE
      BY <1>5, <3>3 DEF MasterInv, Mastered, Exclusive
    <3> QED
      BY <3>1, <3>2, <3>3, <3>4, <3>5, <3>6
  <2> QED
    BY <1>3, <1>5, <2>3, <2>4
<1> QED
  BY <1>4, <1>5

(* When the parser waits within a block, somebody reads that block.        *)
Within(s, bs, u) ==
  /\ StreamOK(s) /\ bs.pos[1] \in Nat /\ u \in RealBases(s)
  /\ u <= bs.pos[1] /\ bs.pos[1] <= Pattern(s, u).stop

LEMMA SomebodyReads ==
  ASSUME NEW s, NEW bs, NEW u, Within(s, bs, u),
         NEW J, NEW B, NEW ub, NEW tail, Work(s, J, B, ub, bs.pos[1], tail),
         Exclusive(s, J, bs, FALSE, {})
  PROVE  \E rb \in J : rb.base = u
<1> DEFINE p == bs.pos[1]
<1>0. /\ StreamOK(s) /\ p \in Nat /\ u \in RealBases(s)
      /\ u <= p /\ p <= Pattern(s, u).stop
  BY DEF Within
<1>1. PICK rb \in Reached(s, J, p) : TRUE
  BY DEF Exclusive
<1>2. bs = BitsAt(rb.pos[1], rb.offset) /\ rb \in J /\ rb.base \in RealBases(s) /\ rb.base <= p
  BY <1>1 DEF Exclusive, Reached
<1>3. rb.pos[1] \in Nat /\ rb.offset \in Nat /\ rb.pos[1] <= Pattern(s, rb.base).stop
  BY <1>0, <1>2, WorkTypes
<1>4. p = rb.pos[1]
  BY <1>2, <1>3, BitsAtOf
<1>5. u \in Nat /\ rb.base \in Nat /\ u \in PatternBases(s) /\ rb.base \in PatternBases(s)
  BY <1>0, <1>2, RealOf
<1>6. Pattern(s, u).stop \in Nat /\ Pattern(s, rb.base).stop \in Nat
  BY <1>0, <1>5, PatternOf
<1>7. /\ u < rb.base => Pattern(s, u).stop + HeaderUnits <= rb.base
      /\ rb.base < u => Pattern(s, rb.base).stop + HeaderUnits <= u
  BY <1>0, <1>2, RealOrder
<1>8. u = rb.base
  <2> DEFINE a == rb.base
             x == Pattern(s, u).stop
             y == Pattern(s, a).stop
  <2>1. /\ u \in Nat /\ a \in Nat /\ x \in Nat /\ y \in Nat /\ p \in Nat
        /\ u <= p /\ p <= x /\ a <= p /\ p <= y
        /\ (u < a => x + 5 <= a) /\ (a < u => y + 5 <= u)
    BY <1>0, <1>2, <1>3, <1>4, <1>5, <1>6, <1>7 DEF HeaderUnits
  <2> HIDE DEF a, x, y, p
  <2>2. u = a
    BY <2>1
  <2> QED
    BY <2>2 DEF a
<1> QED
  BY <1>2, <1>8

(* Steps on which no block is found and the parser does not move.          *)
ParserRests ==
  /\ UNCHANGED <<stream, order_q, parsing_done, parse_token, parser_bs>>
  /\ At({"parse"})' = At({"parse"})
  /\ parsing_done => /\ At({"retrieve"})' \subseteq At({"retrieve"})
                     /\ \A v \in At({"retrieve"})' : job'[v] = job[v]

LEMMA ChunksRest ==
  ASSUME MasterInv, MasterInv', ChunkInv, ParserRests, ChunkTypes',
         Carried \cap (Bases(order_q) \cup ReadAhead) \subseteq Carried',
         ReadAhead' \subseteq ReadAhead \cup Carried'
  PROVE  ChunkInv'
<1>1. /\ InOrder(order_q) /\ Expected(stream, order_q) /\ order_q \in Seq(ChunkAt)
      /\ parsing_done => \A w \in At({"retrieve"}) : job[w].base \notin Bases(order_q)
      /\ ~ parsing_done => \A u \in Bases(order_q) : u <= parser_bs.pos[1]
  BY DEF ChunkInv, ChunkTypes
<1>2. Bases(order_q)' = Bases(order_q) /\ InOrder(order_q)' /\ Expected(stream, order_q)'
  BY <1>1 DEF ParserRests, Bases, InOrder, Expected
<1>3. ReadAhead' \subseteq Carried'
  <2>1. ReadAhead \subseteq Carried
    BY Uncarried
  <2> QED
    BY <2>1
<1>4. ASSUME NEW u \in Bases(order_q) PROVE u \in JobBases' \cup Carried'
  <2>1. CASE u \in Carried
    BY <2>1
  <2>2. CASE u \notin Carried
    <3>1. /\ ~ parsing_done /\ u \in RealBases(stream) /\ parse_token = FALSE /\ At({"parse"}) = {}
          /\ u <= parser_bs.pos[1] /\ parser_bs.pos[1] <= Pattern(stream, u).stop
      BY <2>2, Uncarried
    <3>2. ~ parsing_done' /\ parser_bs' = parser_bs /\ stream' = stream
      BY <3>1 DEF ParserRests
    <3>3. /\ Work(stream, Jobs', Bases(unord_q'), ublk', parser_bs.pos[1], tail_offs')
          /\ Exclusive(stream, Jobs', parser_bs, FALSE, {})
      <4>1. Retrievers' /\ Mastered'
        BY <3>2 DEF MasterInv
      <4>2. parse_token' = FALSE /\ At({"parse"})' = {}
        BY <3>1 DEF ParserRests
      <4>3. Work(stream', Jobs', Bases(unord_q'), ublk', parser_bs'.pos[1], tail_offs')
        BY <4>1 DEF Retrievers, Bases
      <4>4. Exclusive(stream', Jobs', parser_bs', parse_token', At({"parse"})')
        BY <4>1 DEF Mastered
      <4> QED
        BY <3>2, <4>2, <4>3, <4>4
    <3>4. parser_bs.pos[1] \in Nat /\ StreamOK(stream)
      BY <3>1, MasterWorking, MasterParts
    <3>5. u \in JobBases'
      <4> DEFINE J == Jobs'
                 B == Bases(unord_q')
                 ub == ublk'
                 tail == tail_offs'
      <4>1. Work(stream, J, B, ub, parser_bs.pos[1], tail)
            /\ Exclusive(stream, J, parser_bs, FALSE, {})
        BY <3>3
      <4> HIDE DEF J, B, ub, tail
      <4>2. Within(stream, parser_bs, u)
        BY <3>1, <3>4 DEF Within
      <4>3. \E rb \in J : rb.base = u
        BY <4>1, <4>2, SomebodyReads
      <4> QED
        BY <4>3 DEF J, JobBases
    <3> QED
      BY <3>5
  <2> QED
    BY <2>1, <2>2
<1>5. /\ parsing_done' => \A w \in At({"retrieve"})' : job'[w].base \notin Bases(order_q)'
      /\ ~ parsing_done' => \A u \in Bases(order_q)' : u <= parser_bs'.pos[1]
  BY <1>1, <1>2 DEF ParserRests
<1> QED
  BY <1>2, <1>3, <1>4, <1>5 DEF ChunkInv

(* Who decodes or emits goes on with it.                                   *)
Hands == {"decode", "emit"}
HandsStay ==
  \A v \in Workers : pc[v] \in Hands \/ pc'[v] \in Hands => pc'[v] = pc[v] /\ job'[v] = job[v]

LEMMA StepHands ==
  ASSUME NEW w \in Workers, NEW t, Step(w, t), t \notin Hands, pc[w] \notin Hands
  PROVE  HandsStay
BY DEF Step, HandsStay, Hands

LEMMA CarriedStays ==
  ASSUME ChunkTypes, HandsStay, UNCHANGED <<stream, emit_q, reord_q>>, order_q' \in Seq(ChunkAt)
  PROVE  ChunkTypes' /\ Carried' = Carried
<1>1. At({"decode", "emit"})' = At({"decode", "emit"})
  BY DEF At, HandsStay, Hands
<1>2. \A v \in At({"decode", "emit"}) : job'[v] = job[v]
  BY DEF At, HandsStay, Hands
<1>3. Handed' = Handed
  BY <1>1, <1>2 DEF Handed
<1>4. Lasts' = Lasts /\ Bases(emit_q)' = Bases(emit_q)
  BY DEF Lasts, IsLast, Bases
<1> QED
  BY <1>1, <1>2, <1>3, <1>4 DEF ChunkTypes, Carried

LEMMA CarriedGrows ==
  ASSUME ChunkTypes, NEW w \in Workers, Step(w, "decode"), pc[w] \notin Hands,
         NEW u \in Nat, job'[w] = [pos |-> <<u, 0>>],
         UNCHANGED <<stream, emit_q, reord_q>>, order_q' \in Seq(ChunkAt)
  PROVE  ChunkTypes' /\ Carried' = Carried \cup {u}
<1>1. w \notin At({"decode", "emit"}) /\ At({"decode", "emit"})' = At({"decode", "emit"}) \cup {w}
  BY DEF At, Step, Hands
<1>2. \A v \in At({"decode", "emit"}) : job'[v] = job[v]
  BY DEF At, Step, Hands
<1>3. job'[w] \in ChunkAt /\ job'[w].pos[1] = u
  BY DEF ChunkAt
<1>4. Handed' = Handed \cup {u}
  BY <1>1, <1>2, <1>3 DEF Handed
<1>5. Lasts' = Lasts /\ Bases(emit_q)' = Bases(emit_q)
  BY DEF Lasts, IsLast, Bases
<1>6. Carried' = Carried \cup {u}
  BY <1>4, <1>5 DEF Carried
<1>7. ChunkTypes'
  BY <1>1, <1>2, <1>3 DEF ChunkTypes
<1> QED
  BY <1>6, <1>7

(* The parser moves on, and what it found before is with somebody.         *)
LEMMA ChunksMove ==
  ASSUME MasterInv, ChunkInv, ~ parsing_done, ~ parsing_done', UNCHANGED <<stream, order_q>>,
         ChunkTypes', Bases(order_q) \cup ReadAhead' \subseteq JobBases' \cup Carried',
         parser_bs'.pos[1] \in Nat, parser_bs.pos[1] <= parser_bs'.pos[1]
  PROVE  ChunkInv'
<1>1. /\ InOrder(order_q) /\ Expected(stream, order_q)
      /\ \A u \in Bases(order_q) : u \in Nat /\ u <= parser_bs.pos[1]
  BY Uncarried DEF ChunkInv
<1>2. Bases(order_q)' = Bases(order_q) /\ InOrder(order_q)' /\ Expected(stream, order_q)'
  BY <1>1 DEF Bases, InOrder, Expected
<1>3. parser_bs.pos[1] \in Nat
  BY MasterWorking
<1>4. \A u \in Bases(order_q)' : u <= parser_bs'.pos[1]
  BY <1>1, <1>2, <1>3
<1> QED
  BY <1>2, <1>4 DEF ChunkInv

LEMMA ParserCarries ==
  ASSUME MasterInv, ChunkInv, ~ parsing_done, parse_token \/ At({"parse"}) # {}
  PROVE  Bases(order_q) \cup ReadAhead \subseteq Carried
<1>1. \A u \in Bases(order_q) : u \notin Carried => parse_token = FALSE /\ At({"parse"}) = {}
  BY Uncarried
<1>2. ReadAhead \subseteq Carried
  BY Uncarried
<1> QED
  BY <1>1, <1>2

LEMMA DoParseChunks ==
  ASSUME CountInv, MasterInv, ChunkInv, NEW w \in Workers, DoParse(w)
  PROVE  ChunkInv'
<1>1. can_parse /\ pc[w] = "loop" /\ ChunkTypes /\ order_q \in Seq(ChunkAt)
  BY TaskReady DEF CountInv, DoParse, AtTask, ChunkInv, ChunkTypes
<1>2. ~ parsing_done /\ parse_token
  BY <1>1 DEF can_parse
<1>3. /\ job' = [job EXCEPT ![w] = parser_bs] /\ Moves(w, "parse")
      /\ UNCHANGED <<stream, emit_q, reord_q, order_q, unord_q, ublk, parsing_done, parser_bs>>
  BY DEF DoParse, queueVars, unordVars, Moves, WorkerStates
<1>4. DOMAIN job = Workers /\ parser_bs.pos[1] \in Nat
  BY <1>2, MasterParts, MasterWorking
<1>5. Step(w, "parse")
  <2>1. job' = [job EXCEPT ![w] = job'[w]]
    BY <1>3, <1>4
  <2> QED
    BY <1>3, <1>4, <2>1, MovesStep
<1>6. HandsStay
  BY <1>1, <1>5, StepHands DEF Hands
<1>7. ChunkTypes' /\ Carried' = Carried
  BY <1>1, <1>3, <1>6, CarriedStays
<1>8. Bases(order_q) \cup ReadAhead \subseteq Carried
  BY <1>2, ParserCarries
<1>9. ReadAhead' = ReadAhead
  BY <1>3 DEF ReadAhead, Bases
<1> QED
  BY <1>2, <1>3, <1>4, <1>7, <1>8, <1>9, ChunksMove

LEMMA ParseMoreChunks ==
  ASSUME CountInv, MasterInv, ChunkInv, NEW w \in Workers, ParseMore(w)
  PROVE  ChunkInv'
<1> DEFINE r == Parsed(w)
<1>1. /\ pc[w] = "parse" /\ r.rv = "MORE" /\ parser_bs' = r.bs
      /\ job' = [job EXCEPT ![w] = NULL] /\ Moves(w, "loop")
      /\ UNCHANGED <<stream, emit_q, reord_q, order_q, unord_q, ublk, parsing_done>>
  BY DEF ParseMore, ParseReturns, Advance, ReleaseRefs, unordVars, Moves, WorkerStates
<1>2. /\ ~ parsing_done /\ At({"parse"}) = {w} /\ PlaceOK(stream, r.bs, tail_offs)
      /\ parser_bs.pos[1] <= r.bs.pos[1]
  BY <1>1, ParserReturns
<1> HIDE DEF r
<1>3. DOMAIN job = Workers /\ ChunkTypes /\ order_q \in Seq(ChunkAt) /\ parser_bs'.pos[1] \in Nat
  <2>1. r.bs \in Bits
    BY <1>2 DEF PlaceOK
  <2> QED
    BY <1>1, <2>1, MasterParts, BitsIs DEF ChunkInv, ChunkTypes
<1>4. Step(w, "loop")
  <2>1. job' = [job EXCEPT ![w] = job'[w]]
    BY <1>1, <1>3
  <2> QED
    BY <1>1, <1>3, <2>1, MovesStep
<1>5. HandsStay
  BY <1>1, <1>4, StepHands DEF Hands
<1>6. ChunkTypes' /\ Carried' = Carried
  BY <1>1, <1>3, <1>5, CarriedStays
<1>7. Bases(order_q) \cup ReadAhead \subseteq Carried
  BY <1>2, ParserCarries
<1>8. ReadAhead' = ReadAhead
  BY <1>1 DEF ReadAhead, Bases
<1> QED
  BY <1>1, <1>2, <1>3, <1>6, <1>7, <1>8, ChunksMove

LEMMA ParseFinishChunks ==
  ASSUME CountInv, MasterInv, ChunkInv, NEW w \in Workers, ParseFinish(w)
  PROVE  ChunkInv'
<1>1. /\ pc[w] = "parse" /\ unord_q' = <<>> /\ parsing_done' = TRUE
      /\ job' = [job EXCEPT ![w] = NULL] /\ Moves(w, "loop")
      /\ UNCHANGED <<stream, emit_q, reord_q, order_q>>
  BY DEF ParseFinish, ParseReturns, RejectAll, ReleaseRefs, Moves, WorkerStates
<1>2. /\ ~ parsing_done /\ w \in At({"parse"})
      /\ Reached(stream, Jobs, parser_bs.pos[1]) = {}
  BY <1>1, ParserIsMaster DEF At
<1>3. DOMAIN job = Workers /\ ChunkTypes /\ order_q \in Seq(ChunkAt)
  BY MasterParts DEF ChunkInv, ChunkTypes
<1>4. Step(w, "loop")
  <2>1. job' = [job EXCEPT ![w] = job'[w]]
    BY <1>1, <1>3
  <2> QED
    BY <1>1, <1>3, <2>1, MovesStep
<1>5. HandsStay
  BY <1>1, <1>4, StepHands DEF Hands
<1>6. ChunkTypes' /\ Carried' = Carried
  BY <1>1, <1>3, <1>5, CarriedStays
<1>7. Bases(order_q) \cup ReadAhead \subseteq Carried
  BY <1>2, ParserCarries
<1>8. ReadAhead' = {}
  BY <1>1 DEF ReadAhead, Bases, ToSet
<1>9. /\ InOrder(order_q) /\ Expected(stream, order_q)
      /\ \A u \in Bases(order_q) : u \in RealBases(stream) /\ u <= parser_bs.pos[1]
  BY <1>2, Uncarried DEF ChunkInv
<1>10. Bases(order_q)' = Bases(order_q) /\ InOrder(order_q)' /\ Expected(stream, order_q)'
  BY <1>1, <1>9 DEF Bases, InOrder, Expected
<1>11. \A v \in At({"retrieve"})' : job'[v].base \notin Bases(order_q)
  <2>1. ASSUME NEW v \in At({"retrieve"})' PROVE job'[v].base \notin Bases(order_q)
    <3>1. v \in At({"retrieve"}) /\ job'[v] = job[v]
      BY <1>4 DEF At, Step
    <3>2. job[v] \in Jobs
      BY <3>1 DEF Jobs, InHand
    <3>3. ~ (job[v].base \in RealBases(stream) /\ job[v].base <= parser_bs.pos[1])
      BY <1>2, <3>2 DEF Reached
    <3> QED
      BY <1>9, <3>1, <3>3
  <2> QED
    BY <2>1
<1> QED
  BY <1>1, <1>6, <1>7, <1>8, <1>10, <1>11 DEF ChunkInv

(* A worker who does not parse, decode or emit.                            *)
LEMMA RestStep ==
  ASSUME MasterInv, MasterInv', ChunkInv, NEW w \in Workers, NEW t, Step(w, t),
         pc[w] \notin Hands \cup {"parse"}, t \notin Hands \cup {"parse"},
         t = "retrieve" => ~ parsing_done,
         UNCHANGED <<stream, emit_q, reord_q, order_q, parsing_done, parse_token, parser_bs>>,
         ReadAhead' \subseteq ReadAhead
  PROVE  ChunkInv'
<1>1. HandsStay
  BY StepHands
<1>2. ChunkTypes' /\ Carried' = Carried
  BY <1>1, CarriedStays DEF ChunkInv, ChunkTypes
<1>3. At({"parse"})' = At({"parse"})
  BY DEF At, Step
<1>4. t # "retrieve" => /\ At({"retrieve"})' \subseteq At({"retrieve"})
                        /\ \A v \in At({"retrieve"})' : job'[v] = job[v]
  BY DEF At, Step
<1>5. ParserRests
  BY <1>3, <1>4 DEF ParserRests
<1> QED
  BY <1>2, <1>5, ChunksRest

LEMMA DoRetrieveChunks ==
  ASSUME CountInv, MasterInv, MasterInv', ChunkInv, NEW w \in Workers, DoRetrieve(w)
  PROVE  ChunkInv'
<1>1. can_retrieve /\ pc[w] = "loop"
  BY TaskReady DEF CountInv, DoRetrieve, AtTask
<1>2. ~ parsing_done
  BY <1>1 DEF can_retrieve, MasterInv, Finished
<1>3. /\ job' = [job EXCEPT ![w] = peek(retr_q)] /\ Moves(w, "retrieve")
      /\ UNCHANGED <<stream, emit_q, reord_q, order_q, unord_q, ublk, parse_token, parsing_done,
                     parser_bs>>
  BY DEF DoRetrieve, unordVars, parserVars, Moves, WorkerStates
<1>4. DOMAIN job = Workers
  BY MasterParts
<1>5. Step(w, "retrieve")
  <2>1. job' = [job EXCEPT ![w] = job'[w]]
    BY <1>3, <1>4
  <2> QED
    BY <1>3, <1>4, <2>1, MovesStep
<1>6. ReadAhead' = ReadAhead
  BY <1>3 DEF ReadAhead, Bases
<1> QED
  BY <1>1, <1>2, <1>3, <1>5, <1>6, RestStep DEF Hands

LEMMA RetrieveAbortChunks ==
  ASSUME CountInv, MasterInv, MasterInv', ChunkInv, NEW w \in Workers, RetrieveAbort(w)
  PROVE  ChunkInv'
<1>1. /\ pc[w] = "retrieve" /\ job' = [job EXCEPT ![w] = NULL] /\ Moves(w, "loop")
      /\ UNCHANGED <<stream, emit_q, reord_q, order_q, unord_q, ublk, parse_token, parsing_done,
                     parser_bs>>
  BY DEF RetrieveAbort, RetrieveReturns, Detach, ReleaseRefs, queueVars, unordVars, Moves,
         WorkerStates
<1>2. DOMAIN job = Workers
  BY MasterParts
<1>3. Step(w, "loop")
  <2>1. job' = [job EXCEPT ![w] = job'[w]]
    BY <1>1, <1>2
  <2> QED
    BY <1>1, <1>2, <2>1, MovesStep
<1>4. ReadAhead' = ReadAhead
  BY <1>1 DEF ReadAhead, Bases
<1> QED
  BY <1>1, <1>3, <1>4, RestStep DEF Hands

LEMMA RetrieveMoreAheadChunks ==
  ASSUME CountInv, MasterInv, MasterInv', ChunkInv, NEW w \in Workers, RetrieveMoreAhead(w)
  PROVE  ChunkInv'
<1>1. PICK r \in Retrieved(w) :
        /\ pc[w] = "retrieve" /\ ~ InVain(job[w]) /\ ~ IsMaster(job[w])
        /\ ublk' = [ublk EXCEPT ![job[w].link].end_pos = r.bs]
        /\ job' = [job EXCEPT ![w] = NULL] /\ Moves(w, "loop")
        /\ UNCHANGED <<stream, emit_q, reord_q, order_q, unord_q, parse_token, parsing_done,
                       parser_bs>>
  BY DEF RetrieveMoreAhead, RetrieveReturns, Detach, ReleaseRefs, Moves, WorkerStates
<1>2. DOMAIN job = Workers /\ ~ parsing_done
  BY <1>1, MasterParts DEF InVain
<1>3. Step(w, "loop")
  <2>1. job' = [job EXCEPT ![w] = job'[w]]
    BY <1>1, <1>2
  <2> QED
    BY <1>1, <1>2, <2>1, MovesStep
<1>4. ReadAhead' \subseteq ReadAhead
  <2>1. Work(stream, Jobs, Bases(unord_q), ublk, parser_bs.pos[1], tail_offs) /\ StreamOK(stream)
    BY <1>2, MasterWorking, MasterParts
  <2>2. ASSUME NEW u \in Bases(unord_q) PROVE ublk'[u].complete = ublk[u].complete
    <3>1. ublk[u] \in UnordBlk /\ u \in DOMAIN ublk
      BY <2>1, WorkTypes
    <3> QED
      BY <1>1, <3>1 DEF UnordBlk
  <2> QED
    BY <1>1, <2>2 DEF ReadAhead, Bases
<1> QED
  BY <1>1, <1>3, <1>4, RestStep DEF Hands

LEMMA RetrieveOverAheadChunks ==
  ASSUME CountInv, MasterInv, MasterInv', ChunkInv, NEW w \in Workers, RetrieveOverAhead(w)
  PROVE  ChunkInv'
<1> DEFINE u == job[w].base
<1>1. PICK r \in Retrieved(w) :
        /\ pc[w] = "retrieve" /\ ~ InVain(job[w]) /\ ~ IsMaster(job[w])
        /\ ublk' = [ublk EXCEPT ![job[w].link].end_pos = r.bs, ![job[w].link].complete = TRUE]
        /\ job' = [job EXCEPT ![w] = [pos |-> <<u, 0>>]] /\ Moves(w, "decode")
        /\ UNCHANGED <<stream, emit_q, reord_q, order_q, unord_q, parse_token, parsing_done,
                       parser_bs>>
  BY DEF RetrieveOverAhead, RetrieveReturns, Detach, ReleaseRefs, queueVars, ToDecode, Moves,
         WorkerStates
<1>2. DOMAIN job = Workers /\ ~ parsing_done
  BY <1>1, MasterParts DEF InVain
<1>3. u \in Nat /\ job[w].link = u
  BY <1>1, <1>2, RetrieverReturns, AheadRetrieves DEF Ahead
<1>4. Step(w, "decode") /\ job'[w] = [pos |-> <<u, 0>>]
  <2>1. job' = [job EXCEPT ![w] = job'[w]] /\ job'[w] = [pos |-> <<u, 0>>]
    BY <1>1, <1>2
  <2> QED
    BY <1>1, <1>2, <2>1, MovesStep
<1>5. ReadAhead' \subseteq ReadAhead \cup {u}
  <2>1. Work(stream, Jobs, Bases(unord_q), ublk, parser_bs.pos[1], tail_offs) /\ StreamOK(stream)
    BY <1>2, MasterWorking, MasterParts
  <2>2. ASSUME NEW x \in Bases(unord_q), x # u PROVE ublk'[x].complete = ublk[x].complete
    <3>1. ublk[x] \in UnordBlk /\ x \in DOMAIN ublk
      BY <2>1, WorkTypes
    <3> QED
      BY <1>1, <1>3, <2>2, <3>1 DEF UnordBlk
  <2> QED
    BY <1>1, <2>2 DEF ReadAhead, Bases
<1> HIDE DEF u
<1>6. ChunkTypes' /\ Carried' = Carried \cup {u}
  BY <1>1, <1>3, <1>4, CarriedGrows DEF ChunkInv, ChunkTypes, Hands
<1>7. ParserRests
  <2>1. At({"parse"})' = At({"parse"})
    BY <1>1, <1>4 DEF At, Step
  <2> QED
    BY <1>1, <1>2, <2>1 DEF ParserRests
<1> QED
  BY <1>5, <1>6, <1>7, ChunksRest

LEMMA ReadsNext ==
  ASSUME MasterInv', ~ parsing_done', UNCHANGED stream, parse_token' = FALSE, At({"parse"})' = {},
         NEW u, NEW bs, parser_bs' = bs, Within(stream, bs, u)
  PROVE  u \in JobBases'
<1> DEFINE J == Jobs'
           B == Bases(unord_q')
           ub == ublk'
           tail == tail_offs'
<1>1. Work(stream, J, B, ub, bs.pos[1], tail) /\ Exclusive(stream, J, bs, FALSE, {})
  <2>1. Retrievers' /\ Mastered'
    BY DEF MasterInv
  <2>2. Work(stream', Jobs', Bases(unord_q'), ublk', parser_bs'.pos[1], tail_offs')
    BY <2>1 DEF Retrievers, Bases
  <2>3. Exclusive(stream', Jobs', parser_bs', parse_token', At({"parse"})')
    BY <2>1 DEF Mastered
  <2> QED
    BY <2>2, <2>3
<1> HIDE DEF J, B, ub, tail
<1>2. \E rb \in J : rb.base = u
  BY <1>1, SomebodyReads
<1> QED
  BY <1>2 DEF J, JobBases

LEMMA MasterComesTo ==
  ASSUME MasterInv, ~ parsing_done, NEW w \in Workers, pc[w] = "retrieve", NEW u, u = job[w].base,
         ~ InVain(job[w]), IsMaster(job[w]), NEW r \in Retrieved(w)
  PROVE  /\ parser_bs.pos[1] \in Nat /\ u \in RealBases(stream) /\ At({"parse"}) = {} /\ parse_token = FALSE
         /\ Reached(stream, Jobs, parser_bs.pos[1]) = {job[w]}
         /\ Judged(stream, job[w], Bases(unord_q), ublk, parser_bs.pos[1])
         /\ r.bs.pos[1] \in Nat /\ parser_bs.pos[1] <= r.bs.pos[1] /\ Within(stream, r.bs, u)
<1> DEFINE rb == job[w]
           bs == r.bs
           p == parser_bs.pos[1]
           B == Bases(unord_q)
<1>1. /\ p \in Nat /\ rb.base \in RealBases(stream)
      /\ At({"parse"}) = {} /\ parse_token = FALSE /\ Reached(stream, Jobs, p) = {rb}
      /\ Judged(stream, rb, B, ublk, p)
      /\ \E q \in Nat, l \in Nat :
           /\ bs = BitsAt(q, l) /\ bs \in Bits
           /\ bs.pos = <<q, 0>> /\ bs.pos[1] = q /\ bs.offset = l
           /\ p <= q /\ rb.base <= q /\ NoBlockUpTo(stream, p, q)
           /\ q <= Pattern(stream, rb.base).stop
           /\ Loaded(q, l, tail_offs) /\ l <= Pattern(stream, rb.base).need
           /\ PlaceOK(stream, bs, tail_offs) /\ head_offs <= bs.offset
  BY MasterRetrieves
<1>2. bs.pos[1] \in Nat /\ p <= bs.pos[1] /\ u <= bs.pos[1] /\ bs.pos[1] <= Pattern(stream, u).stop
  BY <1>1
<1>3. StreamOK(stream)
  BY MasterParts
<1> QED
  BY <1>1, <1>2, <1>3 DEF Within

LEMMA RetrieveMoreAsMasterChunks ==
  ASSUME CountInv, MasterInv, MasterInv', ChunkInv, NEW w \in Workers, RetrieveMoreAsMaster(w)
  PROVE  ChunkInv'
<1> DEFINE u == job[w].base
           p == parser_bs.pos[1]
<1>1. PICK r \in Retrieved(w) :
        /\ pc[w] = "retrieve" /\ ~ InVain(job[w]) /\ IsMaster(job[w])
        /\ parser_bs' = r.bs
        /\ job' = [job EXCEPT ![w] = NULL] /\ Moves(w, "loop")
        /\ UNCHANGED <<stream, emit_q, reord_q, order_q, unord_q, ublk, parse_token, parsing_done>>
  BY DEF RetrieveMoreAsMaster, RetrieveReturns, Advance, ReleaseRefs, unordVars, Moves, WorkerStates
<1>2. DOMAIN job = Workers /\ ~ parsing_done /\ StreamOK(stream)
  BY <1>1, MasterParts DEF InVain
<1>3. /\ p \in Nat /\ u \in RealBases(stream) /\ At({"parse"}) = {} /\ parse_token = FALSE
      /\ Reached(stream, Jobs, p) = {job[w]}
      /\ r.bs.pos[1] \in Nat /\ p <= r.bs.pos[1] /\ Within(stream, r.bs, u)
  BY <1>1, <1>2, MasterComesTo
<1>5. Step(w, "loop")
  <2>1. job' = [job EXCEPT ![w] = job'[w]]
    BY <1>1, <1>2
  <2> QED
    BY <1>1, <1>2, <2>1, MovesStep
<1>6. At({"parse"})' = {}
  BY <1>1, <1>3, <1>5 DEF At, Step
<1>7. HandsStay
  BY <1>1, <1>5, StepHands DEF Hands
<1>8. ChunkTypes' /\ Carried' = Carried
  BY <1>1, <1>7, CarriedStays DEF ChunkInv, ChunkTypes
<1>9. u \in JobBases'
  BY <1>1, <1>2, <1>3, <1>6, ReadsNext
<1>10. Bases(order_q) \cup ReadAhead' \subseteq JobBases' \cup Carried'
  <2>1. ReadAhead' = ReadAhead
    BY <1>1 DEF ReadAhead, Bases
  <2>2. \A x \in Bases(order_q) : x \notin Carried => x = u
    BY <1>2, <1>3, Uncarried
  <2>3. ReadAhead \subseteq Carried
    BY Uncarried
  <2> QED
    BY <1>8, <1>9, <2>1, <2>2, <2>3
<1> QED
  BY <1>1, <1>2, <1>3, <1>8, <1>10, ChunksMove

LEMMA RetrieveOverAsMasterChunks ==
  ASSUME CountInv, MasterInv, MasterInv', ChunkInv, NEW w \in Workers, RetrieveOverAsMaster(w)
  PROVE  ChunkInv'
<1> DEFINE u == job[w].base
           p == parser_bs.pos[1]
<1>1. PICK r \in Retrieved(w) :
        /\ pc[w] = "retrieve" /\ ~ InVain(job[w]) /\ IsMaster(job[w])
        /\ parser_bs' = r.bs
        /\ ublk' = [x \in DOMAIN ublk \ {job[w].link} |-> ublk[x]]
        /\ job' = [job EXCEPT ![w] = [pos |-> <<u, 0>>]] /\ Moves(w, "decode")
        /\ UNCHANGED <<stream, emit_q, reord_q, order_q, unord_q, parsing_done>>
  BY DEF RetrieveOverAsMaster, RetrieveReturns, Advance, ReleaseRefs, ToDecode, Moves, WorkerStates
<1>2. DOMAIN job = Workers /\ ~ parsing_done /\ StreamOK(stream)
  BY <1>1, MasterParts DEF InVain
<1>3. /\ p \in Nat /\ u \in RealBases(stream)
      /\ Reached(stream, Jobs, p) = {job[w]} /\ Judged(stream, job[w], Bases(unord_q), ublk, p)
      /\ r.bs.pos[1] \in Nat /\ p <= r.bs.pos[1]
  BY <1>1, <1>2, MasterComesTo
<1>4. u \in Nat
  BY <1>2, <1>3, RealOf
<1>5. Step(w, "decode") /\ job'[w] = [pos |-> <<u, 0>>]
  <2>1. job' = [job EXCEPT ![w] = job'[w]] /\ job'[w] = [pos |-> <<u, 0>>]
    BY <1>1, <1>2
  <2> QED
    BY <1>1, <1>2, <2>1, MovesStep
<1>6. ReadAhead' \subseteq ReadAhead
  <2>1. Work(stream, Jobs, Bases(unord_q), ublk, p, tail_offs)
    BY <1>2, MasterWorking
  <2>2. job[w].link \notin Bases(unord_q)
    <3>1. job[w] \in Jobs
      BY <1>1 DEF Jobs, InHand, At
    <3>2. job[w].link # NULL => job[w].link = u
      BY <1>2, <2>1, <3>1, WorkTypes
    <3>3. \A x \in Bases(unord_q) : x \in Nat
      BY <1>2, <2>1, WorkTypes
    <3> QED
      BY <1>3, <3>2, <3>3, NullAssumption DEF Judged
  <2>3. ASSUME NEW x \in Bases(unord_q) PROVE ublk'[x] = ublk[x]
    <3>1. x \in DOMAIN ublk
      BY <1>2, <2>1, WorkTypes
    <3> QED
      BY <1>1, <2>2, <3>1
  <2> QED
    BY <1>1, <2>3 DEF ReadAhead, Bases
<1> HIDE DEF u
<1>7. ChunkTypes' /\ Carried' = Carried \cup {u}
  BY <1>1, <1>4, <1>5, CarriedGrows DEF ChunkInv, ChunkTypes, Hands
<1>8. Bases(order_q) \cup ReadAhead' \subseteq JobBases' \cup Carried'
  <2>1. \A x \in Bases(order_q) : x \notin Carried => x = u
    BY <1>2, <1>3, Uncarried DEF u
  <2>2. ReadAhead \subseteq Carried
    BY Uncarried
  <2> QED
    BY <1>6, <1>7, <2>1, <2>2
<1> QED
  BY <1>1, <1>2, <1>3, <1>7, <1>8, ChunksMove

(* The parser appends the block it has found.                              *)
Extends(s, r, q, u) ==
  /\ StreamOK(s) /\ q \in Seq(ChunkAt) /\ InOrder(q) /\ Expected(s, q)
  /\ u \in RealBases(s) /\ r = Append(q, [pos |-> <<u, 0>>])
  /\ \A x \in Bases(q) : x < u

LEMMA BlockAppended ==
  ASSUME NEW s, NEW q, NEW u, NEW r, Extends(s, r, q, u)
  PROVE  r \in Seq(ChunkAt) /\ InOrder(r) /\ Expected(s, r) /\ Bases(r) = Bases(q) \cup {u}
<1> DEFINE e == [pos |-> <<u, 0>>]
           n == Len(q)
<1>0. /\ StreamOK(s) /\ q \in Seq(ChunkAt) /\ InOrder(q) /\ Expected(s, q)
      /\ u \in RealBases(s) /\ r = Append(q, [pos |-> <<u, 0>>])
      /\ \A x \in Bases(q) : x < u
  BY DEF Extends
<1>1. u \in Nat /\ Pattern(s, u) \in Patterns(s)
  BY <1>0, RealOf, PatternOf
<1>2. Pattern(s, u).chunks \in Nat /\ 0 < Pattern(s, u).chunks
  BY <1>0, <1>1 DEF StreamOK, BlockOK, PatternType
<1>3. e \in ChunkAt /\ e.pos[1] = u /\ e.pos[2] = 0
  BY <1>1 DEF ChunkAt
<1>4. /\ r \in Seq(ChunkAt) /\ n \in Nat /\ Len(r) = n + 1 /\ r[n + 1] = e
      /\ \A i \in 1 .. n : r[i] = q[i]
  BY <1>0, <1>3
<1>5. \A i \in 1 .. n : q[i].pos[1] \in Bases(q) /\ q[i].pos[1] < u
  BY <1>0, QueueBases
<1> HIDE DEF e, n
<1>6. \A i \in 1 .. n + 1 : i \in 1 .. n \/ i = n + 1
  BY <1>4
<1>7. InOrder(r)
  <2>1. ASSUME NEW i \in 1 .. n + 1, NEW j \in 1 .. n + 1, i < j
        PROVE  r[i].pos[1] < r[j].pos[1]
    <3>1. i \in 1 .. n
      BY <1>4, <2>1
    <3>2. CASE j \in 1 .. n
      <4>1. q[i].pos[1] < q[j].pos[1]
        BY <1>0, <2>1, <3>1, <3>2 DEF InOrder, n
      <4> QED
        BY <1>4, <3>1, <3>2, <4>1
    <3>3. CASE j = n + 1
      BY <1>3, <1>4, <1>5, <3>1, <3>3
    <3> QED
      BY <1>6, <3>2, <3>3
  <2> QED
    BY <1>4, <2>1 DEF InOrder
<1>8. Expected(s, r)
  <2>1. \A i \in 1 .. n : q[i].pos[1] \in RealBases(s) /\ q[i].pos[2] < Pattern(s, q[i].pos[1]).chunks
    BY <1>0 DEF Expected, n
  <2>2. ASSUME NEW i \in 1 .. n + 1
        PROVE  r[i].pos[1] \in RealBases(s) /\ r[i].pos[2] < Pattern(s, r[i].pos[1]).chunks
    <3>1. CASE i \in 1 .. n
      BY <1>4, <2>1, <3>1
    <3>2. CASE i = n + 1
      <4>1. r[i].pos[1] = u /\ r[i].pos[2] = 0
        BY <1>3, <1>4, <3>2
      <4> QED
        BY <1>0, <1>2, <4>1
    <3> QED
      BY <1>6, <3>1, <3>2
  <2> QED
    BY <1>4, <2>2 DEF Expected
<1>9. Bases(r) = Bases(q) \cup {u}
  <2>1. ASSUME NEW x PROVE x \in Bases(r) <=> x \in Bases(q) \cup {u}
    <3>1. x \in Bases(r) <=> \E i \in 1 .. n + 1 : r[i].pos[1] = x
      <4>1. \A v : v \in Bases(r) <=> \E i \in 1 .. Len(r) : r[i].pos[1] = v
        BY <1>4, QueueBases
      <4> QED
        BY <1>4, <4>1
    <3>2. x \in Bases(q) <=> \E i \in 1 .. n : q[i].pos[1] = x
      BY <1>0, QueueBases DEF n
    <3>3. n + 1 \in 1 .. n + 1 /\ \A i \in 1 .. n : i \in 1 .. n + 1
      BY <1>4
    <3> QED
      BY <1>3, <1>4, <1>6, <3>1, <3>2, <3>3
  <2> QED
    BY <2>1
<1> QED
  BY <1>4, <1>7, <1>8, <1>9

(* The parser has found the next block, which somebody may have read       *)
(* already, and the master is at bs now.                                   *)
BlockFound(w, u, bs) ==
  /\ ~ parsing_done /\ ~ parsing_done' /\ pc[w] = "parse" /\ Step(w, "loop")
  /\ u \in RealBases(stream) /\ parser_bs.pos[1] < u
  /\ \A v \in RealBases(stream) : parser_bs.pos[1] < v => u <= v
  /\ order_q' = Append(order_q, [pos |-> <<u, 0>>])
  /\ UNCHANGED <<stream, emit_q, reord_q>>
  /\ Bases(unord_q') = {v \in Bases(unord_q) : u < v}
  /\ \A x \in Bases(unord_q) : u < x => ublk'[x] = ublk[x]
  /\ parser_bs' = bs /\ Within(stream, bs, u)
  /\ IF u \in ReadAhead THEN parse_token' = TRUE /\ bs = ublk[u].end_pos ELSE parse_token' = FALSE

LEMMA FoundChunks ==
  ASSUME MasterInv, MasterInv', ChunkInv, NEW w \in Workers, NEW u, NEW bs, BlockFound(w, u, bs)
  PROVE  ChunkInv'
<1>0. /\ ~ parsing_done /\ ~ parsing_done' /\ pc[w] = "parse" /\ Step(w, "loop")
      /\ u \in RealBases(stream) /\ parser_bs.pos[1] < u
      /\ order_q' = Append(order_q, [pos |-> <<u, 0>>])
      /\ UNCHANGED <<stream, emit_q, reord_q>>
      /\ Bases(unord_q') = {v \in Bases(unord_q) : u < v}
      /\ \A x \in Bases(unord_q) : u < x => ublk'[x] = ublk[x]
      /\ parser_bs' = bs /\ Within(stream, bs, u)
      /\ u \in ReadAhead \/ parse_token' = FALSE
  BY DEF BlockFound
<1> USE <1>0
<1>1. /\ StreamOK(stream) /\ parser_bs.pos[1] \in Nat /\ u \in Nat /\ At({"parse"}) = {w}
      /\ order_q \in Seq(ChunkAt) /\ InOrder(order_q) /\ Expected(stream, order_q)
      /\ \A x \in Bases(order_q) : x \in Nat /\ x <= parser_bs.pos[1]
  <2>1. StreamOK(stream) /\ parser_bs.pos[1] \in Nat /\ At({"parse"}) = {w}
    BY MasterParts, MasterWorking, ParserIsMaster
  <2> QED
    BY <2>1, Uncarried, RealOf DEF ChunkInv, ChunkTypes
<1>2. \A x \in Bases(order_q) : x < u
  BY <1>1
<1>3. /\ order_q' \in Seq(ChunkAt) /\ InOrder(order_q') /\ Expected(stream, order_q')
      /\ Bases(order_q') = Bases(order_q) \cup {u}
  <2> DEFINE q == order_q'
  <2>1. Extends(stream, q, order_q, u)
    BY <1>1, <1>2 DEF Extends
  <2> HIDE DEF q
  <2>2. q \in Seq(ChunkAt) /\ InOrder(q) /\ Expected(stream, q) /\ Bases(q) = Bases(order_q) \cup {u}
    BY <2>1, BlockAppended
  <2> QED
    BY <2>2 DEF q
<1>4. HandsStay
  BY StepHands DEF Hands
<1>5. ChunkTypes' /\ Carried' = Carried
  BY <1>3, <1>4, CarriedStays DEF ChunkInv
<1>6. Bases(order_q) \cup ReadAhead \subseteq Carried
  BY <1>1, ParserCarries
<1>7. ReadAhead' \subseteq ReadAhead
  BY DEF ReadAhead, Bases
<1>8. u \in JobBases' \cup Carried'
  <2>1. CASE u \in ReadAhead
    BY <1>5, <2>1, Uncarried
  <2>2. CASE parse_token' = FALSE
    <3>1. At({"parse"})' = {}
      BY <1>1 DEF At, Step
    <3> QED
      BY <2>2, <3>1, ReadsNext
  <2> QED
    BY <2>1, <2>2
<1>9. \A x \in Bases(order_q') : x <= parser_bs'.pos[1]
  <2> DEFINE q == parser_bs'.pos[1]
  <2>1. q \in Nat /\ u <= q
    BY DEF Within
  <2> HIDE DEF q
  <2>2. \A x \in Bases(order_q) : x <= q
    BY <1>1, <1>2, <2>1
  <2> QED
    BY <1>3, <2>1, <2>2 DEF q
<1>10. InOrder(order_q)' /\ Expected(stream, order_q)' /\ Bases(order_q)' = Bases(order_q')
  BY <1>3 DEF InOrder, Expected, Bases
<1> QED
  BY <1>3, <1>5, <1>6, <1>7, <1>8, <1>9, <1>10 DEF ChunkInv

LEMMA ParseUniqueFinds ==
  ASSUME CountInv, MasterInv, NEW w \in Workers, ParseUnique(w)
  PROVE  \E u, bs : BlockFound(w, u, bs)
<1> DEFINE r == Parsed(w)
           p == parser_bs.pos[1]
           B == Bases(unord_q)
<1>0. pc[w] = "parse" /\ r.rv = "OK"
  BY DEF ParseUnique, BlockParsed, ParseReturns
<1>1. PICK u \in RealBases(stream) : 
        r.bs = BitsAt(u, Words(u)) /\ p < u /\ \A v \in RealBases(stream) : p < v => u <= v
  BY <1>0, ParserReturns
<1>2. ~ parsing_done /\ parse_token = FALSE
  BY <1>0, ParserReturns
<1>3. StreamOK(stream) /\ DOMAIN job = Workers
  BY MasterParts
<1>4. u \in Nat /\ Words(u) \in Nat
  BY <1>3, RealOf, WordsOf
<1> DEFINE pos == <<u, 0>>
           over == Bases(Overtaken(unord_q, pos))
<1>5. /\ parser_bs' = BitsAt(u, Words(u)) /\ unord_q' = Remaining(unord_q, pos)
      /\ ublk' = Rejected(over) /\ order_q' = Append(order_q, [pos |-> pos])
      /\ job' = [job EXCEPT ![w] = NULL] /\ Moves(w, "loop")
      /\ UNCHANGED <<stream, emit_q, reord_q, parse_token, parsing_done>> /\ u \notin B
  <2>1. r.bs.pos = pos /\ r.bs.pos[1] = u
    BY <1>1, <1>4, BitsAtOf
  <2> QED
    BY <1>1, <2>1 DEF ParseUnique, BlockParsed, Advance, ReleaseRefs, Moves, WorkerStates
<1>6. /\ unord_q \in Seq(UnordPos) /\ Sorted(unord_q)
      /\ Work(stream, Jobs, B, ublk, p, tail_offs)
  BY <1>2, MasterWorking
<1>7. /\ \A x \in DOMAIN ublk : ublk[x] \in UnordBlk
      /\ \A x \in B : x \in DOMAIN ublk /\ x \in Nat
  BY <1>3, <1>6, WorkTypes
<1>8. /\ Bases(unord_q') = {v \in B : u < v} /\ over = {v \in B : v < u}
  <2>1. pos = <<u, 0>>
    OBVIOUS
  <2> HIDE DEF pos
  <2>2. /\ Bases(Remaining(unord_q, pos)) = {v \in Bases(unord_q) : u < v}
        /\ Bases(Overtaken(unord_q, pos)) = {v \in Bases(unord_q) : v < u}
    BY <1>4, <1>6, <2>1, BasesSplit
  <2> QED
    BY <1>5, <2>2
<1> HIDE DEF r, over
<1>9. \A x \in B : u < x => ublk'[x] = ublk[x]
  <2>1. \A x \in DOMAIN ublk : x \notin over => ublk'[x] = ublk[x]
    BY <1>5, <1>7, RejectedOnly
  <2>2. \A x \in B : u < x => x \notin over
    BY <1>4, <1>7, <1>8
  <2> QED
    BY <1>7, <2>1, <2>2
<1>10. Within(stream, BitsAt(u, Words(u)), u)
  <2>1. u <= Pattern(stream, u).stop
    BY <1>3, RealOf, PatternOf
  <2>2. BitsAt(u, Words(u)).pos[1] = u
    BY <1>4, BitsAtOf
  <2> QED
    BY <1>3, <1>4, <2>1, <2>2 DEF Within
<1>11. Step(w, "loop")
  <2>1. job' = [job EXCEPT ![w] = job'[w]]
    BY <1>3, <1>5
  <2> QED
    BY <1>3, <1>5, <2>1, MovesStep
<1>12. u \notin ReadAhead
  BY <1>5 DEF ReadAhead
<1> QED
  BY <1>0, <1>1, <1>2, <1>5, <1>8, <1>9, <1>10, <1>11, <1>12 DEF BlockFound

LEMMA ParseTakenFinds ==
  ASSUME CountInv, MasterInv, NEW w \in Workers, ParseTaken(w)
  PROVE  \E u, bs : BlockFound(w, u, bs)
<1> DEFINE r == Parsed(w)
           p == parser_bs.pos[1]
           B == Bases(unord_q)
<1>0. pc[w] = "parse" /\ r.rv = "OK"
  BY DEF ParseTaken, BlockParsed, ParseReturns
<1>1. PICK u \in RealBases(stream) : 
        r.bs = BitsAt(u, Words(u)) /\ p < u /\ \A v \in RealBases(stream) : p < v => u <= v
  BY <1>0, ParserReturns
<1>2. ~ parsing_done /\ parse_token = FALSE
  BY <1>0, ParserReturns
<1>3. StreamOK(stream) /\ DOMAIN job = Workers
  BY MasterParts
<1>4. u \in Nat /\ Words(u) \in Nat
  BY <1>3, RealOf, WordsOf
<1> DEFINE pos == <<u, 0>>
           judged == Rejected(Bases(Overtaken(unord_q, pos)))
           bs == ublk[u].end_pos
<1>5. /\ u \in B /\ parser_bs' = bs /\ unord_q' = Remaining(unord_q, pos)
      /\ order_q' = Append(order_q, [pos |-> pos])
      /\ job' = [job EXCEPT ![w] = NULL] /\ Moves(w, "loop")
      /\ UNCHANGED <<stream, emit_q, reord_q, parsing_done>>
      /\ IF ublk[u].complete
         THEN parse_token' = TRUE /\ ublk' = [x \in DOMAIN judged \ {u} |-> judged[x]]
         ELSE /\ parse_token' = parse_token
              /\ ublk' = [judged EXCEPT ![u].complete = TRUE, ![u].legitimate = TRUE]
  <2>1. r.bs.pos = pos /\ r.bs.pos[1] = u
    BY <1>1, <1>4, BitsAtOf
  <2> QED
    BY <2>1 DEF ParseTaken, BlockParsed, Advance, ReleaseRefs, Moves, WorkerStates
<1>6. /\ unord_q \in Seq(UnordPos) /\ Sorted(unord_q)
      /\ Work(stream, Jobs, B, ublk, p, tail_offs)
  BY <1>2, MasterWorking
<1>7. /\ \A x \in DOMAIN ublk : ublk[x] \in UnordBlk
      /\ \A x \in B : x \in DOMAIN ublk /\ x \in Nat
      /\ PatternOK(stream, u, Jobs, ublk, p, tail_offs)
  BY <1>3, <1>5, <1>6, WorkTypes
<1>8. Within(stream, bs, u)
  <2>1. bs \in Bits
    BY <1>5, <1>7 DEF UnordBlk
  <2>2. EndOK(stream, u, bs, tail_offs)
    BY <1>7 DEF PatternOK
  <2>3. bs.pos[1] \in Nat
    BY <2>1, BitsIs
  <2> QED
    BY <1>3, <2>2, <2>3 DEF EndOK, Within
<1>9. /\ Bases(unord_q') = {v \in B : u < v}
      /\ judged = Rejected({v \in B : v < u})
  <2>1. pos = <<u, 0>>
    OBVIOUS
  <2> HIDE DEF pos
  <2>2. /\ Bases(Remaining(unord_q, pos)) = {v \in Bases(unord_q) : u < v}
        /\ Bases(Overtaken(unord_q, pos)) = {v \in Bases(unord_q) : v < u}
    BY <1>4, <1>6, <2>1, BasesSplit
  <2> QED
    BY <1>5, <2>2
<1> HIDE DEF r, judged
<1>10. JudgedTo(ublk', ublk, B, u)
  BY <1>4, <1>5, <1>7, <1>9, TakenJudged
<1>11. \A x \in B : u < x => ublk'[x] = ublk[x]
  BY <1>4, <1>7, <1>10 DEF JudgedTo
<1>12. IF u \in ReadAhead THEN parse_token' = TRUE ELSE parse_token' = FALSE
  BY <1>2, <1>5 DEF ReadAhead
<1>13. Step(w, "loop")
  <2>1. job' = [job EXCEPT ![w] = job'[w]]
    BY <1>3, <1>5
  <2> QED
    BY <1>3, <1>5, <2>1, MovesStep
<1>14. bs = ublk[u].end_pos
  OBVIOUS
<1> HIDE DEF bs
<1>15. BlockFound(w, u, bs)
  BY <1>0, <1>1, <1>2, <1>5, <1>8, <1>9, <1>11, <1>12, <1>13, <1>14 DEF BlockFound
<1> QED
  BY <1>15

LEMMA DoScanChunks ==
  ASSUME CountInv, MasterInv, MasterInv', ChunkInv, NEW w \in Workers, DoScan(w)
  PROVE  ChunkInv'
<1>1. /\ pc[w] = "loop" /\ job' = [job EXCEPT ![w] = job'[w]] /\ Moves(w, "scan")
      /\ UNCHANGED <<stream, emit_q, reord_q, order_q, unord_q, ublk, parse_token, parsing_done,
                     parser_bs>>
  <2>1. job' = [job EXCEPT ![w] = job'[w]]
    BY MasterParts DEF DoScan
  <2> QED
    BY <2>1 DEF DoScan, AtTask, unordVars, parserVars, Moves, WorkerStates
<1>2. Step(w, "scan")
  BY <1>1, MasterParts, MovesStep
<1>3. ReadAhead' = ReadAhead
  BY <1>1 DEF ReadAhead, Bases
<1> QED
  BY <1>1, <1>2, <1>3, RestStep DEF Hands

LEMMA ScanReturnsChunks ==
  ASSUME CountInv, MasterInv, MasterInv', ChunkInv, NEW w \in Workers,
         ScanNothing(w) \/ ScanKnown(w) \/ ScanUnique(w)
  PROVE  ChunkInv'
<1>1. ScanReturns(w) /\ Return(w)
  BY DEF ScanNothing, ScanKnown, ScanUnique
<1>2. /\ pc[w] = "scan" /\ Step(w, "loop")
      /\ UNCHANGED <<stream, parser_bs, parse_token, parsing_done>>
  BY <1>1, ScannerDetaches
<1>3. UNCHANGED <<emit_q, reord_q, order_q>>
  BY <1>1 DEF ScanReturns
<1>4. ReadAhead' \subseteq ReadAhead
  <2>1. CASE ScanNothing(w) \/ ScanKnown(w)
    <3>1. UNCHANGED <<unord_q, ublk>>
      BY <2>1 DEF ScanNothing, ScanKnown, unordVars
    <3> QED
      BY <1>2, <3>1 DEF ReadAhead, Bases
  <2>2. CASE ScanUnique(w)
    <3> DEFINE bs == Scanned(w).bs
               e == [pos |-> bs.pos]
    <3>1. /\ ~ parsing_done /\ Scanned(w).rv = "OK" /\ unord_q' = enqueue(unord_q, e)
          /\ ublk' = [x \in DOMAIN ublk \cup {bs.pos[1]} |->
                        IF x = bs.pos[1]
                        THEN [end_pos |-> bs, complete |-> FALSE, legitimate |-> FALSE]
                        ELSE ublk[x]]
      BY <2>2 DEF ScanUnique
    <3>2. PICK u \in Nat : FoundAt(w, u)
      BY <1>2, <3>1, ScannerReturns
    <3>3. bs.pos = <<u, 0>> /\ bs.pos[1] = u
      <4>1. bs = BitsAt(u, Words(u))
        BY <3>2 DEF FoundAt
      <4> HIDE DEF bs
      <4> QED
        BY ONLY <4>1 DEF BitsAt
    <3> HIDE DEF bs
    <3>4. ublk'[u].complete = FALSE /\ \A x \in DOMAIN ublk : x # u => ublk'[x] = ublk[x]
      BY <3>1, <3>3
    <3>5. /\ Work(stream, Jobs, Bases(unord_q), ublk, parser_bs.pos[1], tail_offs)
          /\ unord_q \in Seq(UnordPos) /\ StreamOK(stream)
      BY <3>1, MasterWorking, MasterParts
    <3>6. \A x \in Bases(unord_q) : x \in DOMAIN ublk
      BY <3>5, WorkTypes
    <3>7. Bases(unord_q') = Bases(unord_q) \cup {u}
      <4>1. e \in UnordPos /\ e.pos[1] = u
        BY <3>3 DEF UnordPos, UnitPos
      <4> HIDE DEF e
      <4>2. ToSet(enqueue(unord_q, e)) = ToSet(unord_q) \cup {e}
        BY <3>5, <4>1, EnqueuedSet
      <4> QED
        BY <3>1, <4>1, <4>2 DEF Bases
    <3> QED
      BY <1>2, <3>4, <3>6, <3>7 DEF ReadAhead, Bases
  <2> QED
    BY <2>1, <2>2
<1> QED
  BY <1>2, <1>3, <1>4, RestStep DEF Hands

(* Emitting.                                                               *)
LEMMA EnqueuedBases ==
  ASSUME NEW q \in Seq(ChunkAt), NEW e \in ChunkAt
  PROVE  /\ enqueue(q, e) \in Seq(ChunkAt) /\ ToSet(enqueue(q, e)) = ToSet(q) \cup {e}
         /\ Bases(enqueue(q, e)) = Bases(q) \cup {e.pos[1]}
<1>1. enqueue(q, e) \in Seq(ChunkAt) /\ ToSet(enqueue(q, e)) = ToSet(q) \cup {e}
  BY EnqueueType, EnqueuedSet
<1> QED
  BY <1>1 DEF Bases

LEMMA DequeuedBases ==
  ASSUME NEW q \in Seq(ChunkAt), q # <<>>
  PROVE  /\ peek(q) \in ChunkAt /\ dequeue(q) \in Seq(ChunkAt)
         /\ ToSet(q) = ToSet(dequeue(q)) \cup {peek(q)}
         /\ Bases(q) = Bases(dequeue(q)) \cup {peek(q).pos[1]}
<1>1. peek(q) \in ChunkAt /\ dequeue(q) \in Seq(ChunkAt) /\ Len(dequeue(q)) = Len(q) - 1
      /\ Len(q) \in Nat /\ Len(q) > 0
  BY DequeueType
<1>2. /\ peek(q) = q[1] /\ \A i \in 1 .. Len(q) - 1 : dequeue(q)[i] = q[i + 1]
  BY <1>1 DEF peek, dequeue
<1> DEFINE n == Len(q)
           r == dequeue(q)
           e == peek(q)
<1>3. /\ \A x : x \in ToSet(q) <=> \E j \in 1 .. n : q[j] = x
      /\ \A x : x \in ToSet(r) <=> \E j \in 1 .. n - 1 : r[j] = x
  <2>1. \A x : x \in ToSet(q) <=> \E j \in 1 .. n : q[j] = x
    BY ToSetOf
  <2>2. \A x : x \in ToSet(r) <=> \E j \in 1 .. Len(r) : r[j] = x
    BY <1>1, ToSetOf
  <2> QED
    BY <1>1, <2>1, <2>2
<1>4. n \in Nat /\ n > 0 /\ e = q[1] /\ \A i \in 1 .. n - 1 : r[i] = q[i + 1]
  BY <1>1, <1>2
<1> HIDE DEF n, r, e
<1>5. ASSUME NEW x PROVE x \in ToSet(q) <=> x \in ToSet(r) \cup {e}
  <2>1. ASSUME NEW j \in 1 .. n, q[j] = x PROVE x \in ToSet(r) \cup {e}
    <3>1. CASE j = 1
      BY <1>4, <2>1, <3>1
    <3>2. CASE j # 1
      <4>1. j - 1 \in 1 .. n - 1 /\ (j - 1) + 1 = j
        BY <1>4, <3>2
      <4>2. r[j - 1] = x
        BY <1>4, <2>1, <4>1
      <4> QED
        BY <1>3, <4>1, <4>2
    <3> QED
      BY <3>1, <3>2
  <2>2. ASSUME NEW j \in 1 .. n - 1, r[j] = x PROVE x \in ToSet(q)
    <3>1. j + 1 \in 1 .. n /\ q[j + 1] = x
      BY <1>4, <2>2
    <3> QED
      BY <1>3, <3>1
  <2>3. 1 \in 1 .. n
    BY <1>4
  <2>4. e \in ToSet(q)
    BY <1>3, <1>4, <2>3
  <2> QED
    BY <1>3, <2>1, <2>2, <2>4
<1>6. ToSet(q) = ToSet(r) \cup {e}
  BY <1>5
<1>7. Bases(q) = Bases(r) \cup {e.pos[1]}
  BY <1>6 DEF Bases
<1> QED
  BY <1>1, <1>6, <1>7 DEF r, e

(* A step of worker w with chunks.                                         *)
LEMMA ChunkStep ==
  ASSUME MasterInv, MasterInv', ChunkInv, NEW w \in Workers, NEW t, Step(w, t),
         pc[w] \in Hands \cup {"loop"}, t \in Hands \cup {"loop"}, ChunkTypes',
         UNCHANGED <<stream, order_q, unord_q, ublk, parse_token, parsing_done, parser_bs>>,
         Carried \subseteq Carried'
  PROVE  ChunkInv'
<1>1. At({"parse"})' = At({"parse"}) /\ At({"retrieve"})' \subseteq At({"retrieve"})
      /\ \A v \in At({"retrieve"})' : job'[v] = job[v]
  BY DEF At, Step, Hands
<1>2. ParserRests
  BY <1>1 DEF ParserRests
<1>3. ReadAhead' = ReadAhead
  BY DEF ReadAhead, Bases
<1> QED
  BY <1>2, <1>3, ChunksRest

LEMMA HandEmpties ==
  ASSUME ChunkTypes, NEW w \in Workers, pc[w] \in Hands, Step(w, "loop")
  PROVE  /\ job[w] \in ChunkAt /\ Handed \subseteq Handed' \cup {job[w].pos[1]}
         /\ \A v \in At({"decode", "emit"})' : job'[v] \in ChunkAt
<1>1. /\ w \in At({"decode", "emit"})
      /\ At({"decode", "emit"})' = At({"decode", "emit"}) \ {w}
      /\ \A v \in At({"decode", "emit"}) \ {w} : job'[v] = job[v]
  BY DEF At, Step, Hands
<1>2. \A v \in At({"decode", "emit"}) : job[v] \in ChunkAt
  BY DEF ChunkTypes
<1>3. Handed \subseteq Handed' \cup {job[w].pos[1]}
  BY <1>1 DEF Handed
<1> QED
  BY <1>1, <1>2, <1>3

LEMMA DecodedChunks ==
  ASSUME CountInv, MasterInv, MasterInv', ChunkInv, NEW w \in Workers, Decoded(w)
  PROVE  ChunkInv'
<1>1. /\ pc[w] = "decode" /\ emit_q' = enqueue(emit_q, job[w])
      /\ job' = [job EXCEPT ![w] = NULL] /\ Moves(w, "loop")
      /\ UNCHANGED <<stream, reord_q, order_q, unord_q, ublk, parse_token, parsing_done, parser_bs>>
  BY DEF Decoded, unordVars, parserVars, Moves, WorkerStates
<1>2. DOMAIN job = Workers /\ ChunkTypes
  BY MasterParts DEF ChunkInv
<1>3. Step(w, "loop")
  <2>1. job' = [job EXCEPT ![w] = job'[w]]
    BY <1>1, <1>2
  <2> QED
    BY <1>1, <1>2, <2>1, MovesStep
<1>4. /\ job[w] \in ChunkAt /\ Handed \subseteq Handed' \cup {job[w].pos[1]}
      /\ \A v \in At({"decode", "emit"})' : job'[v] \in ChunkAt
  BY <1>1, <1>2, <1>3, HandEmpties DEF Hands
<1>5. emit_q' \in Seq(ChunkAt) /\ Bases(emit_q') = Bases(emit_q) \cup {job[w].pos[1]}
  BY <1>1, <1>2, <1>4, EnqueuedBases DEF ChunkTypes
<1>6. ChunkTypes'
  BY <1>1, <1>2, <1>4, <1>5 DEF ChunkTypes
<1>7. Lasts' = Lasts /\ Bases(emit_q)' = Bases(emit_q')
  BY <1>1 DEF Lasts, IsLast, Bases
<1>8. Carried \subseteq Carried'
  BY <1>4, <1>5, <1>7 DEF Carried
<1> QED
  BY <1>1, <1>3, <1>6, <1>8, ChunkStep DEF Hands

LEMMA DoEmitChunks ==
  ASSUME CountInv, MasterInv, MasterInv', ChunkInv, NEW w \in Workers, DoEmit(w)
  PROVE  ChunkInv'
<1>1. /\ pc[w] = "loop" /\ can_emit
      /\ emit_q' = dequeue(emit_q) /\ job' = [job EXCEPT ![w] = peek(emit_q)] /\ Moves(w, "emit")
      /\ UNCHANGED <<stream, reord_q, order_q, unord_q, ublk, parse_token, parsing_done, parser_bs>>
  BY TaskReady DEF CountInv, DoEmit, AtTask, unordVars, parserVars, Moves, WorkerStates
<1>2. DOMAIN job = Workers /\ ChunkTypes /\ emit_q \in Seq(ChunkAt) /\ emit_q # <<>>
  BY <1>1, MasterParts DEF ChunkInv, ChunkTypes, can_emit
<1>3. Step(w, "emit") /\ job'[w] = peek(emit_q)
  <2>1. job' = [job EXCEPT ![w] = job'[w]] /\ job'[w] = peek(emit_q)
    BY <1>1, <1>2
  <2> QED
    BY <1>1, <1>2, <2>1, MovesStep
<1>4. /\ peek(emit_q) \in ChunkAt /\ emit_q' \in Seq(ChunkAt)
      /\ Bases(emit_q) = Bases(emit_q') \cup {peek(emit_q).pos[1]}
  BY <1>1, <1>2, DequeuedBases
<1>5. /\ w \notin At({"decode", "emit"}) /\ At({"decode", "emit"})' = At({"decode", "emit"}) \cup {w}
      /\ \A v \in At({"decode", "emit"}) : job'[v] = job[v]
  BY <1>1, <1>3 DEF At, Step
<1>6. Handed' = Handed \cup {peek(emit_q).pos[1]}
  BY <1>3, <1>5 DEF Handed
<1>7. ChunkTypes'
  BY <1>1, <1>2, <1>3, <1>4, <1>5 DEF ChunkTypes
<1>8. Lasts' = Lasts /\ Bases(emit_q)' = Bases(emit_q')
  BY <1>1 DEF Lasts, IsLast, Bases
<1>9. Carried \subseteq Carried'
  BY <1>4, <1>6, <1>8 DEF Carried
<1> QED
  BY <1>1, <1>3, <1>7, <1>9, ChunkStep DEF Hands

LEMMA EmittedChunks ==
  ASSUME CountInv, MasterInv, MasterInv', ChunkInv, NEW w \in Workers, Emitted(w)
  PROVE  ChunkInv'
<1> DEFINE e == job[w]
           f == [pos |-> After(e.pos)]
<1>1. /\ pc[w] = "emit" /\ reord_q' = enqueue(reord_q, e)
      /\ emit_q' = IF IsLast(e.pos) THEN emit_q ELSE enqueue(emit_q, f)
      /\ job' = [job EXCEPT ![w] = NULL] /\ Moves(w, "loop")
      /\ UNCHANGED <<stream, order_q, unord_q, ublk, parse_token, parsing_done, parser_bs>>
  BY DEF Emitted, unordVars, parserVars, Moves, WorkerStates
<1>2. DOMAIN job = Workers /\ ChunkTypes /\ emit_q \in Seq(ChunkAt) /\ reord_q \in Seq(ChunkAt)
      /\ order_q \in Seq(ChunkAt)
  BY MasterParts DEF ChunkInv, ChunkTypes
<1>3. Step(w, "loop")
  <2>1. job' = [job EXCEPT ![w] = job'[w]]
    BY <1>1, <1>2
  <2> QED
    BY <1>1, <1>2, <2>1, MovesStep
<1>4. /\ e \in ChunkAt /\ Handed \subseteq Handed' \cup {e.pos[1]}
      /\ \A v \in At({"decode", "emit"})' : job'[v] \in ChunkAt
  BY <1>1, <1>2, <1>3, HandEmpties DEF Hands
<1>5. f \in ChunkAt /\ f.pos[1] = e.pos[1]
  BY <1>4 DEF ChunkAt, After
<1> HIDE DEF e, f
<1>6. reord_q' \in Seq(ChunkAt) /\ ToSet(reord_q') = ToSet(reord_q) \cup {e}
  BY <1>1, <1>2, <1>4, EnqueuedBases
<1>7. /\ emit_q' \in Seq(ChunkAt)
      /\ Bases(emit_q') = IF IsLast(e.pos) THEN Bases(emit_q) ELSE Bases(emit_q) \cup {e.pos[1]}
  <2>1. enqueue(emit_q, f) \in Seq(ChunkAt)
        /\ Bases(enqueue(emit_q, f)) = Bases(emit_q) \cup {e.pos[1]}
    BY <1>2, <1>5, EnqueuedBases
  <2> QED
    BY <1>1, <1>2, <2>1
<1>8. ChunkTypes'
  BY <1>1, <1>2, <1>4, <1>6, <1>7 DEF ChunkTypes
<1>9. Lasts' = Lasts \cup (IF IsLast(e.pos) THEN {e.pos[1]} ELSE {})
  BY <1>1, <1>6 DEF Lasts, IsLast
<1>10. Bases(emit_q)' = Bases(emit_q')
  BY DEF Bases
<1>11. Carried \subseteq Carried'
  BY <1>4, <1>7, <1>9, <1>10 DEF Carried
<1> QED
  BY <1>1, <1>3, <1>8, <1>11, ChunkStep DEF Hands

(* Reordering.  The last chunk of a block that is still expected is no     *)
(* bogus one.                                                              *)
LEMMA FirstExpected ==
  ASSUME MasterInv, ChunkInv, order_q # <<>>
  PROVE  LET e == order_q[1]
         IN /\ e \in ChunkAt /\ e.pos[1] \in Nat /\ e.pos[2] \in Nat
            /\ e.pos[2] < Pattern(stream, e.pos[1]).chunks
            /\ Pattern(stream, e.pos[1]).chunks \in Nat
            /\ e.pos[1] \in Bases(order_q) /\ e.pos[1] \in RealBases(stream)
            /\ \A u \in Bases(order_q) : e.pos[1] <= u
<1>1. order_q \in Seq(ChunkAt) /\ Expected(stream, order_q) /\ InOrder(order_q) /\ StreamOK(stream)
  BY MasterParts DEF ChunkInv, ChunkTypes
<1>2. Len(order_q) \in Nat /\ 1 \in 1 .. Len(order_q)
  BY <1>1
<1>3. order_q[1] \in ChunkAt
  BY <1>1, <1>2
<1>4. /\ order_q[1].pos[1] \in Nat /\ order_q[1].pos[2] \in Nat /\ order_q[1].pos[1] \in Bases(order_q)
      /\ order_q[1].pos[2] < Pattern(stream, order_q[1].pos[1]).chunks
      /\ order_q[1].pos[1] \in RealBases(stream)
  BY <1>1, <1>2, QueueBases DEF Expected
<1>5. Pattern(stream, order_q[1].pos[1]).chunks \in Nat
  BY <1>1, <1>4, RealOf, PatternOf DEF StreamOK, BlockOK, PatternType
<1>6. ASSUME NEW u \in Bases(order_q) PROVE order_q[1].pos[1] <= u
  <2>1. PICK i \in 1 .. Len(order_q) : order_q[i].pos[1] = u
    BY <1>1, QueueBases
  <2>2. order_q[i].pos[1] \in Nat
    BY <1>1, QueueBases
  <2>3. i # 1 => order_q[1].pos[1] < order_q[i].pos[1]
    BY <1>1, <1>2 DEF InOrder
  <2> QED
    BY <1>4, <2>1, <2>2, <2>3
<1> QED
  BY <1>3, <1>4, <1>5, <1>6

LEMMA ReorderRests ==
  ASSUME ChunkInv, pc' = pc, UNCHANGED <<stream, emit_q, job, unord_q, ublk, parsing_done, parser_bs>>,
         reord_q # <<>>, reord_q' = dequeue(reord_q), order_q' \in Seq(ChunkAt)
  PROVE  /\ ChunkTypes' /\ ReadAhead' = ReadAhead /\ peek(reord_q) \in ChunkAt
         /\ Carried \subseteq Carried' \cup {peek(reord_q).pos[1]}
         /\ ~ IsLast(peek(reord_q).pos) => Carried \subseteq Carried'
<1>1. ChunkTypes /\ reord_q \in Seq(ChunkAt)
  BY DEF ChunkInv, ChunkTypes
<1>2. /\ peek(reord_q) \in ChunkAt /\ reord_q' \in Seq(ChunkAt)
      /\ ToSet(reord_q) = ToSet(reord_q') \cup {peek(reord_q)}
  BY <1>1, DequeuedBases
<1> DEFINE e == peek(reord_q)
<1> HIDE DEF e
<1>3. ToSet(reord_q) = ToSet(reord_q') \cup {e}
  BY <1>2 DEF e
<1>4. Lasts' = {x.pos[1] : x \in {y \in ToSet(reord_q') : IsLast(y.pos)}}
  BY DEF Lasts, IsLast
<1>5. Lasts \subseteq Lasts' \cup {e.pos[1]} /\ (~ IsLast(e.pos) => Lasts \subseteq Lasts')
  BY <1>3, <1>4 DEF Lasts
<1>6. Handed' = Handed /\ Bases(emit_q)' = Bases(emit_q)
  BY DEF Handed, Bases, At
<1>7. ChunkTypes'
  BY <1>1, <1>2 DEF ChunkTypes, At
<1>8. ReadAhead' = ReadAhead
  BY DEF ReadAhead, Bases
<1> QED
  BY <1>2, <1>5, <1>6, <1>7, <1>8 DEF Carried, e

LEMMA ReadAheadIsAhead ==
  ASSUME MasterInv, NEW u \in ReadAhead
  PROVE  ~ parsing_done /\ u \in Nat /\ parser_bs.pos[1] \in Nat /\ parser_bs.pos[1] < u
<1>1. u \in Bases(unord_q) /\ u \in RealBases(stream)
  BY DEF ReadAhead
<1>2. ~ parsing_done
  <2>1. unord_q # <<>>
    BY <1>1 DEF Bases, ToSet
  <2> QED
    BY <2>1 DEF MasterInv, Finished
<1>3. Work(stream, Jobs, Bases(unord_q), ublk, parser_bs.pos[1], tail_offs)
      /\ parser_bs.pos[1] \in Nat /\ StreamOK(stream)
  BY <1>2, MasterWorking, MasterParts
<1>4. PatternOK(stream, u, Jobs, ublk, parser_bs.pos[1], tail_offs)
  BY <1>1, <1>3 DEF Work
<1> QED
  BY <1>1, <1>2, <1>3, <1>4, RealOf DEF PatternOK

LEMMA RejectBogusChunks ==
  ASSUME CountInv, MasterInv, MasterInv', ChunkInv, NEW w \in Workers, RejectBogus(w)
  PROVE  ChunkInv'
<1> DEFINE e == peek(reord_q)
           u == e.pos[1]
           f == order_q[1]
<1>1. /\ can_reorder /\ Bogus(e.pos) /\ reord_q' = dequeue(reord_q)
      /\ UNCHANGED <<stream, pc, emit_q, order_q, unord_q, ublk, parse_token, parsing_done,
                     parser_bs, job>>
  BY TaskReady DEF CountInv, RejectBogus, AtTask, unordVars, parserVars, handVars
<1>2. reord_q # <<>> /\ (order_q = <<>> => parsing_done) /\ order_q \in Seq(ChunkAt)
  BY <1>1 DEF can_reorder, ChunkInv, ChunkTypes
<1>3. /\ ChunkTypes' /\ ReadAhead' = ReadAhead /\ e \in ChunkAt
      /\ Carried \subseteq Carried' \cup {u}
      /\ ~ IsLast(e.pos) => Carried \subseteq Carried'
  BY <1>1, <1>2, ReorderRests
<1>4. ParserRests
  BY <1>1 DEF ParserRests, At
<1>5. CASE ~ IsLast(e.pos)
  <2>1. Carried \subseteq Carried'
    BY <1>3, <1>5
  <2> QED
    BY <1>3, <1>4, <2>1, ChunksRest
<1>6. CASE IsLast(e.pos)
  <2>1. u \in Nat /\ e.pos[2] \in Nat /\ e.pos[2] + 1 = Pattern(stream, u).chunks
    BY <1>3, <1>6 DEF ChunkAt, IsLast
  <2>2. u \notin Bases(order_q)
    <3>1. CASE order_q = <<>>
      BY <3>1 DEF Bases, ToSet
    <3>2. CASE order_q # <<>>
      <4>1. /\ f.pos[1] \in Nat /\ f.pos[2] \in Nat
            /\ f.pos[2] < Pattern(stream, f.pos[1]).chunks
            /\ \A x \in Bases(order_q) : f.pos[1] <= x
        BY <3>2, FirstExpected
      <4>2. pos_lt(e.pos, f.pos)
        BY <1>1, <3>2 DEF Bogus
      <4> HIDE DEF e, f
      <4>3. ASSUME u \in Bases(order_q) PROVE FALSE
        <5>1. f.pos[1] <= u
          BY <4>1, <4>3
        <5>2. u < f.pos[1] \/ (u = f.pos[1] /\ e.pos[2] < f.pos[2])
          BY <4>2 DEF pos_lt
        <5>3. u = f.pos[1] /\ e.pos[2] < f.pos[2]
          BY <2>1, <4>1, <5>1, <5>2
        <5> DEFINE a == e.pos[2]
                   b == f.pos[2]
                   c == Pattern(stream, u).chunks
        <5>4. a \in Nat /\ b \in Nat /\ a + 1 = c /\ b < c /\ a < b
          BY <2>1, <4>1, <5>3
        <5> HIDE DEF a, b, c
        <5> QED
          BY <5>4
      <4> QED
        BY <4>3
    <3> QED
      BY <3>1, <3>2
  <2>3. u \notin ReadAhead
    <3>1. ASSUME u \in ReadAhead PROVE FALSE
      <4>1. ~ parsing_done /\ parser_bs.pos[1] \in Nat /\ parser_bs.pos[1] < u
        BY <3>1, ReadAheadIsAhead
      <4>2. order_q # <<>>
        BY <1>2, <4>1
      <4>3. f.pos[1] \in Bases(order_q) /\ f.pos[1] \in Nat
        BY <4>2, FirstExpected
      <4>4. f.pos[1] <= parser_bs.pos[1]
        BY <4>1, <4>3 DEF ChunkInv
      <4>5. pos_lt(e.pos, f.pos)
        BY <1>1, <4>2 DEF Bogus
      <4> HIDE DEF e, f
      <4>6. u <= f.pos[1]
        BY <2>1, <4>3, <4>5 DEF pos_lt
      <4> DEFINE a == parser_bs.pos[1]
                 b == f.pos[1]
      <4>7. a \in Nat /\ b \in Nat /\ u \in Nat /\ a < u /\ b <= a /\ u <= b
        BY <2>1, <4>1, <4>3, <4>4, <4>6
      <4> HIDE DEF a, b, u
      <4> QED
        BY <4>7
    <3> QED
      BY <3>1
  <2> HIDE DEF u, e
  <2>4. Carried \cap (Bases(order_q) \cup ReadAhead) \subseteq Carried'
    BY <1>3, <2>2, <2>3
  <2> QED
    BY <1>3, <1>4, <2>4, ChunksRest
<1> QED
  BY <1>5, <1>6

(* The first of the expected chunks is replaced by the one behind it, or   *)
(* removed.                                                                *)
LEMMA ExpectedTail ==
  ASSUME NEW s, NEW q \in Seq(ChunkAt), q # <<>>, InOrder(q), Expected(s, q)
  PROVE  /\ Tail(q) \in Seq(ChunkAt) /\ InOrder(Tail(q)) /\ Expected(s, Tail(q))
         /\ Bases(Tail(q)) = Bases(q) \ {q[1].pos[1]}
<1> DEFINE r == Tail(q)
           n == Len(q)
<1>1. /\ r \in Seq(ChunkAt) /\ n \in Nat /\ n > 0 /\ Len(r) = n - 1
      /\ \A i \in 1 .. n - 1 : r[i] = q[i + 1]
  OBVIOUS
<1>2. /\ \A i \in 1 .. n : q[i].pos[1] \in Nat
      /\ \A u : u \in Bases(q) <=> \E i \in 1 .. n : q[i].pos[1] = u
  BY QueueBases
<1>3. \A u : u \in Bases(r) <=> \E i \in 1 .. n - 1 : r[i].pos[1] = u
  <2>1. \A u : u \in Bases(r) <=> \E i \in 1 .. Len(r) : r[i].pos[1] = u
    BY <1>1, QueueBases
  <2> QED
    BY <1>1, <2>1
<1>4. \A i, j \in 1 .. n : i < j => q[i].pos[1] < q[j].pos[1]
  BY DEF InOrder
<1>5. \A i \in 1 .. n : q[i].pos[1] \in RealBases(s) /\ q[i].pos[2] < Pattern(s, q[i].pos[1]).chunks
  BY DEF Expected
<1> HIDE DEF r, n
<1>6. \A i \in 1 .. n - 1 : i + 1 \in 1 .. n /\ i + 1 # 1
  BY <1>1
<1>7. InOrder(r)
  <2>1. ASSUME NEW i \in 1 .. n - 1, NEW j \in 1 .. n - 1, i < j
        PROVE  r[i].pos[1] < r[j].pos[1]
    <3>1. i + 1 \in 1 .. n /\ j + 1 \in 1 .. n /\ i + 1 < j + 1
      BY <1>1, <2>1
    <3>2. q[i + 1].pos[1] < q[j + 1].pos[1]
      BY <1>4, <3>1
    <3> QED
      BY <1>1, <3>2
  <2> QED
    BY <1>1, <2>1 DEF InOrder
<1>8. Expected(s, r)
  <2>1. ASSUME NEW i \in 1 .. n - 1
        PROVE  r[i].pos[1] \in RealBases(s) /\ r[i].pos[2] < Pattern(s, r[i].pos[1]).chunks
    <3>1. i + 1 \in 1 .. n /\ r[i] = q[i + 1]
      BY <1>1, <1>6
    <3> QED
      BY <1>5, <3>1
  <2> QED
    BY <1>1, <2>1 DEF Expected
<1>9. ASSUME NEW u PROVE u \in Bases(r) <=> u \in Bases(q) \ {q[1].pos[1]}
  <2>1. ASSUME NEW i \in 1 .. n - 1, r[i].pos[1] = u PROVE u \in Bases(q) /\ u # q[1].pos[1]
    <3>1. i + 1 \in 1 .. n /\ 1 \in 1 .. n /\ 1 < i + 1 /\ q[i + 1].pos[1] = u
      BY <1>1, <2>1
    <3>2. q[1].pos[1] < q[i + 1].pos[1] /\ q[1].pos[1] \in Nat /\ q[i + 1].pos[1] \in Nat
      BY <1>2, <1>4, <3>1
    <3> QED
      BY <1>2, <3>1, <3>2
  <2>2. ASSUME NEW i \in 1 .. n, q[i].pos[1] = u, u # q[1].pos[1] PROVE u \in Bases(r)
    <3>1. i # 1
      BY <2>2
    <3>2. i - 1 \in 1 .. n - 1 /\ (i - 1) + 1 = i
      BY <1>1, <3>1
    <3>3. r[i - 1].pos[1] = u
      BY <1>1, <2>2, <3>2
    <3> QED
      BY <1>3, <3>2, <3>3
  <2> QED
    BY <1>2, <1>3, <2>1, <2>2
<1>10. Bases(r) = Bases(q) \ {q[1].pos[1]}
  BY <1>9
<1> QED
  BY <1>1, <1>7, <1>8, <1>10 DEF r

LEMMA ExpectedNext ==
  ASSUME NEW s, NEW q \in Seq(ChunkAt), q # <<>>, InOrder(q), Expected(s, q),
         NEW f \in ChunkAt, f.pos[1] = q[1].pos[1], f.pos[2] < Pattern(s, f.pos[1]).chunks
  PROVE  LET r == <<f>> \o Tail(q)
         IN r \in Seq(ChunkAt) /\ InOrder(r) /\ Expected(s, r) /\ Bases(r) = Bases(q)
<1> DEFINE r == <<f>> \o Tail(q)
           n == Len(q)
<1>1. /\ r \in Seq(ChunkAt) /\ n \in Nat /\ n > 0 /\ Len(r) = n
      /\ r[1] = f /\ \A i \in 1 .. n : i # 1 => r[i] = q[i]
  OBVIOUS
<1>2. /\ \A u : u \in Bases(q) <=> \E i \in 1 .. n : q[i].pos[1] = u
  BY QueueBases
<1>3. \A u : u \in Bases(r) <=> \E i \in 1 .. n : r[i].pos[1] = u
  <2>1. \A u : u \in Bases(r) <=> \E i \in 1 .. Len(r) : r[i].pos[1] = u
    BY <1>1, QueueBases
  <2> QED
    BY <1>1, <2>1
<1>4. \A i, j \in 1 .. n : i < j => q[i].pos[1] < q[j].pos[1]
  BY DEF InOrder
<1>5. \A i \in 1 .. n : q[i].pos[1] \in RealBases(s) /\ q[i].pos[2] < Pattern(s, q[i].pos[1]).chunks
  BY DEF Expected
<1> HIDE DEF r, n
<1>6. \A i \in 1 .. n : r[i].pos[1] = q[i].pos[1]
  BY <1>1
<1>7. InOrder(r)
  BY <1>1, <1>4, <1>6 DEF InOrder
<1>8. Expected(s, r)
  <2>1. ASSUME NEW i \in 1 .. n
        PROVE  r[i].pos[1] \in RealBases(s) /\ r[i].pos[2] < Pattern(s, r[i].pos[1]).chunks
    <3>1. CASE i = 1
      <4>1. r[i] = f /\ q[i].pos[1] \in RealBases(s)
        BY <1>1, <1>5, <3>1
      <4> QED
        BY <1>6, <3>1, <4>1
    <3>2. CASE i # 1
      <4>1. r[i] = q[i]
        BY <1>1, <3>2
      <4> QED
        BY <1>5, <4>1
    <3> QED
      BY <3>1, <3>2
  <2> QED
    BY <1>1, <2>1 DEF Expected
<1>9. Bases(r) = Bases(q)
  <2>1. ASSUME NEW u PROVE u \in Bases(r) <=> u \in Bases(q)
    BY <1>2, <1>3, <1>6
  <2> QED
    BY <2>1
<1> QED
  BY <1>1, <1>7, <1>8, <1>9 DEF r

(* What is reordered is what is expected.                                  *)
LEMMA ReorderedIs ==
  ASSUME MasterInv, ChunkInv, can_reorder, NEW e, e = peek(reord_q), ~ Bogus(e.pos), NEW u, u = e.pos[1]
  PROVE  /\ reord_q # <<>> /\ order_q # <<>> /\ order_q \in Seq(ChunkAt)
         /\ InOrder(order_q) /\ Expected(stream, order_q)
         /\ e \in ChunkAt /\ e.pos = order_q[1].pos
         /\ u \in Bases(order_q) /\ u \in RealBases(stream) /\ u \in Nat /\ order_q[1].pos[1] = u
         /\ e.pos[2] \in Nat /\ e.pos[2] < Pattern(stream, u).chunks
         /\ Pattern(stream, u).chunks \in Nat
<1>1. /\ reord_q # <<>> /\ order_q # <<>> /\ order_q \in Seq(ChunkAt)
      /\ InOrder(order_q) /\ Expected(stream, order_q)
      /\ pos_le(e.pos, order_q[1].pos) /\ ~ pos_lt(e.pos, order_q[1].pos)
  BY DEF can_reorder, Bogus, ChunkInv, ChunkTypes
<1>2. /\ order_q[1] \in ChunkAt /\ order_q[1].pos[1] \in Nat /\ order_q[1].pos[2] \in Nat
      /\ order_q[1].pos[2] < Pattern(stream, order_q[1].pos[1]).chunks
      /\ Pattern(stream, order_q[1].pos[1]).chunks \in Nat
      /\ order_q[1].pos[1] \in Bases(order_q) /\ order_q[1].pos[1] \in RealBases(stream)
  BY <1>1, FirstExpected
<1>3. e \in ChunkAt
  <2>1. reord_q \in Seq(ChunkAt)
    BY DEF ChunkInv, ChunkTypes
  <2> QED
    BY <1>1, <2>1, DequeuedBases
<1>4. e.pos = order_q[1].pos
  <2>1. e.pos \in Position /\ order_q[1].pos \in Position
    BY <1>2, <1>3 DEF ChunkAt, Position
  <2> QED
    BY <1>1, <2>1, PosOrder
<1> QED
  BY <1>1, <1>2, <1>3, <1>4

LEMMA DoReorderChunks ==
  ASSUME CountInv, MasterInv, ChunkInv, NEW w \in Workers, DoReorder(w)
  PROVE  ChunkInv'
<1> DEFINE e == peek(reord_q)
           u == e.pos[1]
<1>1. /\ can_reorder /\ ~ Bogus(e.pos) /\ reord_q' = dequeue(reord_q)
      /\ order_q' = IF IsLast(e.pos) THEN Tail(order_q)
                    ELSE <<[pos |-> After(e.pos)]>> \o Tail(order_q)
      /\ UNCHANGED <<stream, pc, retr_q, emit_q, unord_q, ublk, parsing_done, parser_bs, job>>
  BY TaskReady DEF CountInv, DoReorder, AtTask, unordVars, parserVars, handVars
<1>2. /\ reord_q # <<>> /\ order_q # <<>> /\ order_q \in Seq(ChunkAt)
      /\ InOrder(order_q) /\ Expected(stream, order_q)
      /\ e \in ChunkAt /\ e.pos = order_q[1].pos
  BY <1>1, ReorderedIs
<1> DEFINE f == [pos |-> After(e.pos)]
<1>6. /\ e.pos[1] = u /\ u \in Bases(order_q) /\ u \in Nat /\ e.pos[2] \in Nat
      /\ e.pos[2] < Pattern(stream, u).chunks /\ Pattern(stream, u).chunks \in Nat
      /\ order_q[1].pos[1] = u
  BY <1>1, ReorderedIs
<1>7. /\ f \in ChunkAt /\ f.pos[1] = u /\ f.pos[2] = e.pos[2] + 1
  BY <1>6 DEF ChunkAt, After
<1> HIDE DEF e, u, f
<1>8. /\ order_q' \in Seq(ChunkAt) /\ InOrder(order_q') /\ Expected(stream, order_q')
      /\ Bases(order_q') \subseteq Bases(order_q)
      /\ IsLast(e.pos) => u \notin Bases(order_q')
  <2>1. CASE IsLast(e.pos)
    <3>1. order_q' = Tail(order_q)
      BY <1>1, <2>1 DEF e
    <3>2. /\ Tail(order_q) \in Seq(ChunkAt) /\ InOrder(Tail(order_q)) /\ Expected(stream, Tail(order_q))
          /\ Bases(Tail(order_q)) = Bases(order_q) \ {order_q[1].pos[1]}
      BY <1>2, ExpectedTail
    <3> QED
      BY <1>6, <3>1, <3>2
  <2>2. CASE ~ IsLast(e.pos)
    <3>1. order_q' = <<f>> \o Tail(order_q)
      BY <1>1, <2>2 DEF e, f
    <3>2. f.pos[1] = order_q[1].pos[1] /\ f.pos[2] < Pattern(stream, f.pos[1]).chunks
      <4>1. e.pos[2] + 1 # Pattern(stream, u).chunks
        BY <1>6, <2>2 DEF IsLast
      <4> DEFINE k == e.pos[2]
                 c == Pattern(stream, u).chunks
      <4>2. k \in Nat /\ c \in Nat /\ k < c /\ k + 1 # c
        BY <1>6, <4>1
      <4> HIDE DEF k, c
      <4>3. k + 1 < c
        BY <4>2
      <4> QED
        BY <1>6, <1>7, <4>3 DEF k, c
    <3>3. LET r == <<f>> \o Tail(order_q)
          IN r \in Seq(ChunkAt) /\ InOrder(r) /\ Expected(stream, r) /\ Bases(r) = Bases(order_q)
      BY <1>2, <1>7, <3>2, ExpectedNext
    <3> QED
      BY <2>2, <3>1, <3>3
  <2> QED
    BY <2>1, <2>2
<1>9. /\ ChunkTypes' /\ ReadAhead' = ReadAhead
      /\ Carried \subseteq Carried' \cup {u}
      /\ ~ IsLast(e.pos) => Carried \subseteq Carried'
  BY <1>1, <1>2, <1>8, ReorderRests DEF e, u
<1>10. ReadAhead \subseteq Carried'
  <2>1. ReadAhead \subseteq Carried
    BY Uncarried
  <2>2. ASSUME u \in ReadAhead PROVE FALSE
    <3>1. ~ parsing_done /\ parser_bs.pos[1] \in Nat /\ parser_bs.pos[1] < u
      BY <2>2, ReadAheadIsAhead
    <3>2. u <= parser_bs.pos[1]
      BY <1>6, <3>1 DEF ChunkInv
    <3> QED
      BY <1>6, <3>1, <3>2
  <2> QED
    BY <1>9, <2>1, <2>2
<1>11. JobBases' = JobBases
  BY <1>1 DEF JobBases, Jobs, InHand, At
<1>12. Bases(order_q') \subseteq JobBases' \cup Carried'
  <2>1. Bases(order_q) \subseteq JobBases \cup Carried
    BY DEF ChunkInv
  <2> QED
    BY <1>8, <1>9, <1>11, <2>1
<1>13. InOrder(order_q)' /\ Expected(stream, order_q)' /\ Bases(order_q)' = Bases(order_q')
  BY <1>1, <1>8 DEF InOrder, Expected, Bases
<1>14. IF parsing_done' THEN \A v \in At({"retrieve"})' : job'[v].base \notin Bases(order_q')
       ELSE \A x \in Bases(order_q') : x <= parser_bs'.pos[1]
  <2>1. IF parsing_done THEN \A v \in At({"retrieve"}) : job[v].base \notin Bases(order_q)
        ELSE \A x \in Bases(order_q) : x <= parser_bs.pos[1]
    BY DEF ChunkInv
  <2> QED
    BY <1>1, <1>8, <2>1 DEF At
<1> QED
  BY <1>9, <1>10, <1>12, <1>13, <1>14 DEF ChunkInv

(* Steps in which no chunk is touched.                                     *)
LEMMA ChunksUntouched ==
  ASSUME MasterInv, MasterInv', ChunkInv, HandsStay,
         UNCHANGED <<stream, emit_q, reord_q, order_q, unord_q, ublk, parse_token, parsing_done,
                     parser_bs>>,
         At({"parse"})' = At({"parse"}), At({"retrieve"})' = At({"retrieve"}),
         \A v \in At({"retrieve"}) : job'[v] = job[v]
  PROVE  ChunkInv'
<1>1. ChunkTypes' /\ Carried' = Carried
  BY CarriedStays DEF ChunkInv, ChunkTypes
<1>2. ParserRests
  BY DEF ParserRests
<1>3. ReadAhead' = ReadAhead
  BY DEF ReadAhead, Bases
<1> QED
  BY <1>1, <1>2, <1>3, ChunksRest

(* No worker takes a pattern in its hands or lays one down.                *)
UnitsStay ==
  \A v \in Workers : pc'[v] = pc[v] \/ (pc[v] \notin UnitStates /\ pc'[v] \notin UnitStates)

LEMMA QuietChunks ==
  ASSUME MasterInv, MasterInv', ChunkInv, UnitsStay, job' = job,
         UNCHANGED <<stream, emit_q, reord_q, order_q, unord_q, ublk, parse_token, parsing_done,
                     parser_bs>>
  PROVE  ChunkInv'
<1>1. HandsStay
  BY DEF UnitsStay, HandsStay, Hands, UnitStates
<1>2. At({"parse"})' = At({"parse"}) /\ At({"retrieve"})' = At({"retrieve"})
  BY DEF UnitsStay, At, UnitStates
<1> QED
  BY <1>1, <1>2, ChunksUntouched

LEMMA LoopChunks ==
  ASSUME CountInv, MasterInv, MasterInv', ChunkInv, NEW w \in Workers, UNCHANGED jobVars,
         WorkerEnter(w) \/ WorkerWait(w, can_terminate) \/ WorkerExit(w, can_terminate)
  PROVE  ChunkInv'
<1>1. UnitsStay
  BY DEF WorkerEnter, WorkerWait, WorkerExit, AtTask, CountInv, CountsOK, WorkerStates, UnitStates,
         UnitsStay
<1> QED
  BY <1>1, QuietChunks DEF jobVars, queueVars, unordVars, parserVars, handVars

LEMMA FailChunks ==
  ASSUME CountInv, MasterInv, MasterInv', ChunkInv, NEW w \in Workers, ParseFail(w) \/ ReorderFail(w)
  PROVE  ChunkInv'
<1>1. Fail(w)
  BY DEF ParseFail, ReorderFail
<1>2. pc' = pc \/ (pc[w] = "loop" /\ pc' = [pc EXCEPT ![w] = "dead"])
  BY DEF ParseFail, ReorderFail, AtTask
<1>3. UnitsStay
  BY <1>2 DEF CountInv, CountsOK, WorkerStates, UnitStates, UnitsStay
<1> QED
  BY <1>1, <1>3, QuietChunks DEF Fail, queueVars, unordVars, parserVars, handVars

LEMMA OtherChunks ==
  ASSUME CountInv, MasterInv, MasterInv', ChunkInv,
         Source \/ Sink \/ Primary \/ Spurious \/ UNCHANGED vars
  PROVE  ChunkInv'
<1>1. /\ job' = job
      /\ UNCHANGED <<stream, emit_q, reord_q, order_q, unord_q, ublk, parse_token, parsing_done,
                     parser_bs>>
  <2>1. CASE OnInputAvail
    BY <2>1 DEF OnInputAvail, unordVars, parserVars, handVars
  <2>2. CASE UNCHANGED jobVars
    BY <2>2 DEF jobVars, queueVars, unordVars, parserVars, handVars
  <2> QED
    BY <2>1, <2>2 DEF Source, InputRefused, InputEnds, Sink, OnWriteComplete, Primary, Killed,
       Spurious, vars
<1>2. UnitsStay
  <2>1. CASE Unlock(pc)
    BY <2>1, UnlockInPlace DEF CountInv, UnitsStay
  <2>2. CASE pc' = pc
    BY <2>2 DEF UnitsStay
  <2>3. CASE \E v \in Waiting(pc) : pc' = [pc EXCEPT ![v] = "enter"]
    BY <2>3 DEF Waiting, CountInv, CountsOK, UnitStates, UnitsStay
  <2> QED
    BY <2>1, <2>2, <2>3 DEF Source, OnInputAvail, InputRefused, InputEnds, SourceOnly, SourceStall,
       SourceTakeSlot, SourceClosed, SourceRead, Sink, OnWriteComplete, SinkOnly, SinkStall, SinkTake,
       SinkWrite, SinkExit, Primary, Killed, PrimaryOnly, JoinWorkersAndSource, JoinSink, Spurious,
       SpuriousWakeup, vars, procVars, schedVars
<1> QED
  BY <1>1, <1>2, QuietChunks

LEMMA WorkerChunks ==
  ASSUME CountInv, MasterInv, MasterInv', ChunkInv, NEW w \in Workers, Worker(w)
  PROVE  ChunkInv'
<1>1. CASE /\ WorkerEnter(w) \/ WorkerWait(w, can_terminate) \/ WorkerExit(w, can_terminate)
           /\ UNCHANGED jobVars
  BY <1>1, LoopChunks
<1>2. CASE Parsing(w)
  BY <1>2, DoParseChunks, ParseMoreChunks, FailChunks, ParseFinishChunks, ParseUniqueFinds,
     ParseTakenFinds, FoundChunks DEF Parsing
<1>3. CASE Retrieving(w)
  BY <1>3, DoRetrieveChunks, RetrieveAbortChunks, RetrieveMoreAsMasterChunks, RetrieveMoreAheadChunks,
     RetrieveOverAsMasterChunks, RetrieveOverAheadChunks, DecodedChunks DEF Retrieving
<1>4. CASE DoEmit(w) \/ Emitted(w)
  BY <1>4, DoEmitChunks, EmittedChunks
<1>5. CASE RejectBogus(w) \/ ReorderFail(w) \/ DoReorder(w)
  BY <1>5, RejectBogusChunks, FailChunks, DoReorderChunks
<1>6. CASE DoScan(w) \/ ScanNothing(w) \/ ScanKnown(w) \/ ScanUnique(w)
  BY <1>6, DoScanChunks, ScanReturnsChunks
<1> QED
  BY <1>1, <1>2, <1>3, <1>4, <1>5, <1>6 DEF Worker

LEMMA NextChunks == CountInv /\ MasterInv /\ ChunkInv /\ [Next]_vars => ChunkInv'
<1> SUFFICES ASSUME CountInv, MasterInv, ChunkInv, [Next]_vars PROVE ChunkInv'
  OBVIOUS
<1>1. MasterInv'
  BY NextMaster
<1>2. ASSUME NEW w \in Workers, Worker(w) PROVE ChunkInv'
  BY <1>1, <1>2, WorkerChunks
<1>3. CASE Source \/ Sink \/ Primary \/ Spurious \/ Over \/ UNCHANGED vars
  BY <1>1, <1>3, OtherChunks DEF Over
<1> QED
  BY <1>2, <1>3 DEF Next

LEMMA InitChunks == Init => ChunkInv
<1> SUFFICES ASSUME Init PROVE ChunkInv
  OBVIOUS
<1>1. /\ emit_q = <<>> /\ reord_q = <<>> /\ order_q = <<>> /\ unord_q = <<>>
      /\ pc = [w \in Workers |-> "enter"] /\ ~ parsing_done
  BY DEF Init, ProcessInit
<1>2. At({"decode", "emit"}) = {}
  BY <1>1 DEF At
<1>3. Bases(order_q) = {} /\ ReadAhead = {}
  BY <1>1 DEF Bases, ReadAhead, ToSet
<1>4. InOrder(order_q) /\ Expected(stream, order_q)
  BY <1>1 DEF InOrder, Expected
<1>5. ChunkTypes
  <2>1. <<>> \in Seq(ChunkAt)
    OBVIOUS
  <2> QED
    BY <1>1, <1>2, <2>1 DEF ChunkTypes
<1> QED
  BY <1>1, <1>3, <1>4, <1>5 DEF ChunkInv

(***************************************************************************)
(* The room in the queues.                                                 *)
(***************************************************************************)
LEMMA FromOne ==
  ASSUME NEW n \in Nat
  PROVE  IsFiniteSet(1 .. n) /\ Cardinality(1 .. n) = n
BY FS_Interval

(* What the values of f are taken from is at least as large.               *)
LEMMA CoveredBy ==
  ASSUME NEW S, IsFiniteSet(S), NEW f, NEW T, \A t \in T : \E x \in S : f[x] = t
  PROVE  IsFiniteSet(T) /\ Cardinality(T) \in Nat /\ Cardinality(T) <= Cardinality(S)
<1> DEFINE R == {x \in S : f[x] \in T}
           g == [x \in R |-> f[x]]
<1>1. R \in SUBSET S
  OBVIOUS
<1>2. IsFiniteSet(R) /\ Cardinality(R) <= Cardinality(S)
  BY <1>1, FS_Subset
<1>3. g \in Surjection(R, T)
  BY DEF Surjection
<1>4. IsFiniteSet(T) /\ Cardinality(T) <= Cardinality(R)
  BY <1>2, <1>3, FS_Surjection
<1>5. Cardinality(S) \in Nat /\ Cardinality(R) \in Nat /\ Cardinality(T) \in Nat
  BY <1>2, <1>4, FS_CardinalityType
<1> QED
  BY <1>2, <1>4, <1>5

(* A queue whose entries are told apart by the members of T.               *)
LEMMA ToldApart ==
  ASSUME NEW n \in Nat, NEW T, IsFiniteSet(T), NEW f \in [1 .. n -> T],
         \A i, j \in 1 .. n : f[i] = f[j] => i = j
  PROVE  n <= Cardinality(T)
<1>1. f \in Injection(1 .. n, T)
  BY DEF Injection, IsInjective
<1>2. Cardinality(1 .. n) <= Cardinality(T)
  BY <1>1, FS_Injection
<1>3. Cardinality(1 .. n) = n
  BY FS_Interval
<1> QED
  BY <1>2, <1>3

LEMMA BothFit ==
  ASSUME NEW S, NEW T, IsFiniteSet(S), IsFiniteSet(T)
  PROVE  /\ IsFiniteSet(S \cup T) /\ Cardinality(S \cup T) \in Nat
         /\ Cardinality(S \cup T) <= Cardinality(S) + Cardinality(T)
<1>1. /\ IsFiniteSet(S \cup T)
      /\ Cardinality(S \cup T) = Cardinality(S) + Cardinality(T) - Cardinality(S \cap T)
  BY FS_Union
<1>2. IsFiniteSet(S \cap T)
  BY FS_Intersection
<1> QED
  BY <1>1, <1>2, FS_CardinalityType

LEMMA InputFits ==
  ASSUME MasterInv, InputInv
  PROVE  /\ Len(input_q) <= TotalInSlots
         /\ Len(input_q) \in Nat /\ IsFiniteSet(ToSet(input_q))
         /\ Cardinality(ToSet(input_q)) <= Len(input_q)
<1>1. Chain(input_q, head_offs, tail_offs) /\ Nums /\ Referred
  BY MasterParts DEF Buffers
<1>2. /\ Len(input_q) \in Nat /\ \A i \in 1 .. Len(input_q) : input_q[i] \in ToSet(input_q)
      /\ \A b \in ToSet(input_q) : b \in InBlk /\ \E i \in 1 .. Len(input_q) : input_q[i] = b
  BY <1>1, ChainMembers DEF Nums
<1>3. \A i \in 1 .. Len(input_q) : /\ input_q[i].offset \in Nat /\ End(input_q[i]) \in Nat
                                   /\ input_q[i].offset < End(input_q[i])
  BY <1>2, InBlkOf
<1> DEFINE n == Len(input_q)
           f == [i \in 1 .. n |-> input_q[i].offset]
           T == DOMAIN ref_count
<1>4. \A i, j \in 1 .. n : i < j => input_q[i].offset < input_q[j].offset
  <2>1. \A i, j \in 1 .. n : i < j => End(input_q[i]) <= input_q[j].offset
    BY <1>1 DEF Chain
  <2> QED
    BY <1>3, <2>1
<1>5. \A i, j \in 1 .. n : f[i] = f[j] => i = j
  <2> SUFFICES ASSUME NEW i \in 1 .. n, NEW j \in 1 .. n, f[i] = f[j] PROVE i = j
    OBVIOUS
  <2>1. ~ i < j /\ ~ j < i
    BY <1>3, <1>4
  <2> QED
    BY <1>2, <2>1
<1>6. f \in [1 .. n -> T]
  BY <1>1, <1>2 DEF Referred
<1>7. IsFiniteSet(T) /\ InSlotsConserved /\ in_slots \in Nat
  BY DEF InputInv
<1>8. n <= Cardinality(T)
  <2> HIDE DEF f, n, T
  <2> QED
    BY <1>2, <1>5, <1>6, <1>7, ToldApart DEF n
<1>9. Cardinality(T) <= TotalInSlots
  <2>1. Cardinality(T) \in Nat
    BY <1>7, FS_CardinalityType
  <2>2. Slots(source \in {"read", "deliver"}) \in Nat
    BY DEF Slots
  <2> DEFINE c == Cardinality(T)
             r == Slots(source \in {"read", "deliver"})
  <2>3. in_slots + r + c = TotalInSlots
    BY <1>7 DEF InSlotsConserved
  <2> HIDE DEF c, r
  <2>4. c \in Nat /\ r \in Nat
    BY <2>1, <2>2 DEF c, r
  <2>5. c <= TotalInSlots
    BY <1>7, <2>3, <2>4, ProcessAssumption
  <2> QED
    BY <2>5 DEF c
<1>10. IsFiniteSet(ToSet(input_q)) /\ Cardinality(ToSet(input_q)) <= n
  <2>1. IsFiniteSet(1 .. n) /\ Cardinality(1 .. n) = n
    BY <1>2, FromOne
  <2> QED
    BY <1>2, <2>1, CoveredBy
<1>11. Cardinality(T) \in Nat /\ TotalInSlots \in Nat
  BY <1>7, FS_CardinalityType, ProcessAssumption
<1> HIDE DEF T, n
<1> QED
  BY <1>2, <1>8, <1>9, <1>10, <1>11 DEF n

(* Each place in scan_q is in a block of input_q of its own.               *)
LEMMA ScanFits ==
  ASSUME MasterInv, InputInv
  PROVE  Len(scan_q) <= Len(input_q)
<1>1. CASE parsing_done
  <2>1. Len(scan_q) = 0
    BY <1>1 DEF MasterInv, Finished
  <2> QED
    BY <2>1, InputFits
<1>2. CASE ~ parsing_done
  <2> DEFINE n == Len(scan_q)
             T == ToSet(input_q)
             f == [i \in 1 .. n |-> CHOOSE b \in T : ScansIn(scan_q[i], b)]
  <2>1. Scanners
    BY <1>2, MasterWorking
  <2>2. /\ n \in Nat /\ Sorted(scan_q)
        /\ \A i \in 1 .. n : scan_q[i] \in ToSet(scan_q) /\ scan_q[i] \in Bits
    <3>1. scan_q \in Seq(Bits)
      BY <2>1 DEF Scanners
    <3> QED
      BY <2>1, <3>1, ToSetOf DEF Scanners
  <2>3. \A i \in 1 .. n : f[i] \in T /\ ScansIn(scan_q[i], f[i])
    <3> SUFFICES ASSUME NEW i \in 1 .. n PROVE f[i] \in T /\ ScansIn(scan_q[i], f[i])
      OBVIOUS
    <3>1. \E b \in T : ScansIn(scan_q[i], b)
      BY <2>1, <2>2 DEF Scanners
    <3> QED
      BY <3>1
  <2>4. f \in [1 .. n -> T]
    BY <2>3
  <2>5. \A i, j \in 1 .. n : f[i] = f[j] => i = j
    <3> SUFFICES ASSUME NEW i \in 1 .. n, NEW j \in 1 .. n, f[i] = f[j] PROVE i = j
      OBVIOUS
    <3>1. scan_q[i] = scan_q[j]
      <4>1. \A b \in T : \A x, y \in ToSet(scan_q) : ScansIn(x, b) /\ ScansIn(y, b) => x = y
        BY <2>1 DEF Scanners
      <4> HIDE DEF f
      <4> QED
        BY <2>2, <2>3, <4>1
    <3>2. ~ pos_lt(scan_q[i].pos, scan_q[i].pos)
      BY <2>2 DEF pos_lt, Bits, UnitPos
    <3>3. ~ i < j /\ ~ j < i
      BY <2>2, <3>1, <3>2 DEF Sorted
    <3> QED
      BY <2>2, <3>3
  <2>6. IsFiniteSet(T) /\ Cardinality(T) <= Len(input_q) /\ Len(input_q) \in Nat
    BY InputFits
  <2>7. n <= Cardinality(T)
    <3> HIDE DEF f, n, T
    <3> QED
      BY <2>2, <2>4, <2>5, <2>6, ToldApart DEF n
  <2>8. Cardinality(T) \in Nat
    BY <2>6, FS_CardinalityType
  <2> HIDE DEF n, T
  <2> QED
    BY <2>2, <2>6, <2>7, <2>8 DEF n
<1> QED
  BY <1>1, <1>2

(* A pattern that is retrieved, decoded or emitted holds a work unit.      *)
LEMMA UnitsHeld ==
  ASSUME CountInv, MasterInv, ChunkInv
  PROVE  LET U == JobBases \cup Bases(emit_q) \cup Handed
         IN IsFiniteSet(U) /\ Cardinality(U) \in Nat /\ Cardinality(U) <= num_worker
<1> DEFINE A == {retr_q[i].base : i \in 1 .. Len(retr_q)}
           B == {emit_q[i].pos[1] : i \in 1 .. Len(emit_q)}
           W == At({"retrieve", "decode", "emit"})
           f == [w \in W |-> IF pc[w] = "retrieve" THEN job[w].base ELSE job[w].pos[1]]
           H == {f[w] : w \in W}
           U == JobBases \cup Bases(emit_q) \cup Handed
<1>1. Len(retr_q) \in Nat /\ Len(emit_q) \in Nat /\ work_units \in Nat
  BY CountTypes
<1>2. IsFiniteSet(A) /\ Cardinality(A) \in Nat /\ Cardinality(A) <= Len(retr_q)
  <2> DEFINE g == [i \in 1 .. Len(retr_q) |-> retr_q[i].base]
  <2>1. IsFiniteSet(1 .. Len(retr_q)) /\ Cardinality(1 .. Len(retr_q)) = Len(retr_q)
    BY <1>1, FromOne
  <2>2. \A a \in A : \E i \in 1 .. Len(retr_q) : g[i] = a
    OBVIOUS
  <2> HIDE DEF A, g
  <2> QED
    BY <2>1, <2>2, CoveredBy
<1>3. IsFiniteSet(B) /\ Cardinality(B) \in Nat /\ Cardinality(B) <= Len(emit_q)
  <2> DEFINE g == [i \in 1 .. Len(emit_q) |-> emit_q[i].pos[1]]
  <2>1. IsFiniteSet(1 .. Len(emit_q)) /\ Cardinality(1 .. Len(emit_q)) = Len(emit_q)
    BY <1>1, FromOne
  <2>2. \A a \in B : \E i \in 1 .. Len(emit_q) : g[i] = a
    OBVIOUS
  <2> HIDE DEF B, g
  <2> QED
    BY <2>1, <2>2, CoveredBy
<1>4. /\ IsFiniteSet(W) /\ Cardinality(W) \in Nat
      /\ Cardinality(W) <= Cardinality(At({"parse", "retrieve", "decode", "emit", "scan"}))
      /\ Cardinality(At({"parse", "retrieve", "decode", "emit", "scan"})) \in Nat
  <2>1. W \in SUBSET At({"parse", "retrieve", "decode", "emit", "scan"})
    BY DEF At
  <2>2. IsFiniteSet(At({"parse", "retrieve", "decode", "emit", "scan"}))
    BY ProcessAssumption, FS_Subset DEF At
  <2> QED
    BY <2>1, <2>2, FS_Subset, FS_CardinalityType
<1>5. IsFiniteSet(H) /\ Cardinality(H) \in Nat /\ Cardinality(H) <= Cardinality(W)
  <2>1. \A a \in H : \E w \in W : f[w] = a
    OBVIOUS
  <2> HIDE DEF H, f, W
  <2> QED
    BY <1>4, <2>1, CoveredBy
<1>6. U \subseteq (A \cup B) \cup H
  <2>1. JobBases \subseteq A \cup H
    <3>1. \A rb \in ToSet(retr_q) : rb.base \in A
      <4>1. CASE parsing_done
        BY <4>1 DEF MasterInv, Finished, ToSet
      <4>2. CASE ~ parsing_done
        <5>1. retr_q \in Seq(RetrBlk)
          BY <4>2, MasterWorking
        <5>2. \A x : x \in ToSet(retr_q) <=> \E j \in 1 .. Len(retr_q) : retr_q[j] = x
          BY <5>1, ToSetOf
        <5> QED
          BY <5>2
      <4> QED
        BY <4>1, <4>2
    <3>2. \A w \in At({"retrieve"}) : job[w].base \in H
      <4>1. \A w \in At({"retrieve"}) : w \in W /\ f[w] = job[w].base
        BY DEF At
      <4> QED
        BY <4>1
    <3> QED
      BY <3>1, <3>2 DEF JobBases, Jobs, InHand
  <2>2. Bases(emit_q) \subseteq B
    <3>1. emit_q \in Seq(ChunkAt)
      BY DEF ChunkInv, ChunkTypes
    <3> QED
      BY <3>1, QueueBases
  <2>3. Handed \subseteq H
    <3>1. \A w \in At({"decode", "emit"}) : w \in W /\ f[w] = job[w].pos[1]
      BY DEF At
    <3> QED
      BY <3>1 DEF Handed
  <2> QED
    BY <2>1, <2>2, <2>3
<1>7. /\ IsFiniteSet((A \cup B) \cup H) /\ Cardinality((A \cup B) \cup H) \in Nat
      /\ Cardinality((A \cup B) \cup H) <= Len(retr_q) + Len(emit_q) + Cardinality(W)
  <2> HIDE DEF A, B, H, W
  <2>1. /\ IsFiniteSet(A \cup B) /\ Cardinality(A \cup B) \in Nat
        /\ Cardinality(A \cup B) <= Cardinality(A) + Cardinality(B)
    BY <1>2, <1>3, BothFit
  <2>2. /\ IsFiniteSet((A \cup B) \cup H) /\ Cardinality((A \cup B) \cup H) \in Nat
        /\ Cardinality((A \cup B) \cup H) <= Cardinality(A \cup B) + Cardinality(H)
    BY <1>5, <2>1, BothFit
  <2> QED
    BY <1>1, <1>2, <1>3, <1>4, <1>5, <2>1, <2>2
<1>8. Len(retr_q) + Len(emit_q) + Cardinality(W) <= num_worker
  <2> DEFINE r == Len(retr_q)
             e == Len(emit_q)
             c == Cardinality(W)
             a == Cardinality(At({"parse", "retrieve", "decode", "emit", "scan"}))
  <2>1. work_units + r + e + a = num_worker
    BY DEF CountInv, UnitsBalance, WorkUnitsConserved
  <2>2. r \in Nat /\ e \in Nat /\ c \in Nat /\ a \in Nat /\ c <= a
    BY <1>1, <1>4
  <2> HIDE DEF r, e, c, a
  <2>3. r + e + c <= num_worker
    BY <1>1, <2>1, <2>2
  <2> QED
    BY <2>3 DEF r, e, c
<1>9. num_worker \in Nat
  BY ProcessAssumption, FS_CardinalityType DEF num_worker
<1>10. IsFiniteSet(U) /\ Cardinality(U) <= Cardinality((A \cup B) \cup H) /\ Cardinality(U) \in Nat
  <2> HIDE DEF U, A, B, H
  <2> QED
    BY <1>6, <1>7, FS_Subset, FS_CardinalityType
<1> HIDE DEF U, A, B, H, W
<1>11. Cardinality(U) <= num_worker
  BY <1>1, <1>4, <1>7, <1>8, <1>9, <1>10
<1> QED
  BY <1>10, <1>11 DEF U

(* A block whose last chunk waits holds an output slot.                    *)
LEMMA SlotsHeld ==
  ASSUME CountInv, ChunkInv
  PROVE  IsFiniteSet(Lasts) /\ Cardinality(Lasts) \in Nat /\ Cardinality(Lasts) <= TotalOutSlots
<1> DEFINE n == Len(reord_q)
           f == [i \in 1 .. n |-> reord_q[i].pos[1]]
<1>1. reord_q \in Seq(ChunkAt) /\ n \in Nat
  BY DEF ChunkInv, ChunkTypes
<1>2. \A u \in Lasts : \E i \in 1 .. n : f[i] = u
  <2>1. \A x : x \in ToSet(reord_q) <=> \E j \in 1 .. Len(reord_q) : reord_q[j] = x
    BY <1>1, ToSetOf
  <2> QED
    BY <2>1 DEF Lasts
<1>3. IsFiniteSet(1 .. n) /\ Cardinality(1 .. n) = n
  BY <1>1, FromOne
<1>4. IsFiniteSet(Lasts) /\ Cardinality(Lasts) \in Nat /\ Cardinality(Lasts) <= n
  <2> HIDE DEF f, n
  <2> QED
    BY <1>2, <1>3, CoveredBy
<1>5. n <= TotalOutSlots
  <2> DEFINE m == Cardinality(At({"emit"}))
             o == Len(output_q)
             s == Slots(sink \in {"write", "release"})
  <2>1. out_slots + m + n + o + s = TotalOutSlots
    BY DEF CountInv, UnitsBalance, OutSlotsConserved
  <2>2. m \in Nat
    BY ProcessAssumption, FS_Subset, FS_CardinalityType DEF At
  <2>3. out_slots \in Nat /\ o \in Nat /\ s \in Nat
    BY CountTypes
  <2> HIDE DEF m, n, o, s
  <2> QED
    BY <1>1, <2>1, <2>2, <2>3
<1> HIDE DEF n
<1> QED
  BY <1>1, <1>4, <1>5, ProcessAssumption

LEMMA OrderFits ==
  ASSUME CountInv, MasterInv, ChunkInv
  PROVE  Len(order_q) <= num_worker + TotalOutSlots
<1> DEFINE U == JobBases \cup Bases(emit_q) \cup Handed
           n == Len(order_q)
           f == [i \in 1 .. n |-> order_q[i].pos[1]]
<1>1. /\ n \in Nat /\ \A i \in 1 .. n : order_q[i].pos[1] \in Bases(order_q) /\ order_q[i].pos[1] \in Nat
  <2>1. order_q \in Seq(ChunkAt)
    BY DEF ChunkInv, ChunkTypes
  <2> QED
    BY <2>1, QueueBases
<1>2. f \in [1 .. n -> U \cup Lasts]
  <2>1. Bases(order_q) \subseteq U \cup Lasts
    BY DEF ChunkInv, Carried
  <2> QED
    BY <1>1, <2>1
<1>3. \A i, j \in 1 .. n : f[i] = f[j] => i = j
  <2> SUFFICES ASSUME NEW i \in 1 .. n, NEW j \in 1 .. n, f[i] = f[j] PROVE i = j
    OBVIOUS
  <2>1. InOrder(order_q)
    BY DEF ChunkInv
  <2>2. ~ i < j /\ ~ j < i
    BY <1>1, <2>1 DEF InOrder
  <2> QED
    BY <1>1, <2>2
<1>4. IsFiniteSet(U) /\ Cardinality(U) \in Nat /\ Cardinality(U) <= num_worker
  BY UnitsHeld
<1>5. IsFiniteSet(Lasts) /\ Cardinality(Lasts) \in Nat /\ Cardinality(Lasts) <= TotalOutSlots
  BY SlotsHeld
<1>6. num_worker \in Nat /\ TotalOutSlots \in Nat
  BY ProcessAssumption, FS_CardinalityType DEF num_worker
<1> HIDE DEF U, n, f
<1>7. /\ IsFiniteSet(U \cup Lasts) /\ Cardinality(U \cup Lasts) \in Nat
      /\ Cardinality(U \cup Lasts) <= Cardinality(U) + Cardinality(Lasts)
  BY <1>4, <1>5, BothFit
<1>8. n <= Cardinality(U \cup Lasts)
  BY <1>1, <1>2, <1>3, <1>7, ToldApart
<1>9. n <= num_worker + TotalOutSlots
  BY <1>1, <1>4, <1>5, <1>6, <1>7, <1>8
<1> QED
  BY <1>9 DEF n

(* input_q, scan_q and order_q never outgrow their arrays, although the    *)
(* macros that push to them do not look: each input block holds a buffer,  *)
(* no block is scanned twice at a time, and each block that the parser has *)
(* found holds a work unit or an output slot until its last chunk is       *)
(* written - also those that were retrieved on a guess before.             *)
THEOREM ExpansionQueuesFit == Spec => []QueuesFit
<1>1. Init => CountInv /\ MasterInv /\ ChunkInv /\ InputInv
  BY InitCounts, InitMaster, InitChunks, InitInput
<1>2. CountInv /\ MasterInv /\ ChunkInv /\ InputInv /\ [Next]_vars
        => (CountInv /\ MasterInv /\ ChunkInv /\ InputInv)'
  BY NextCounts, NextMaster, NextChunks, NextInput
<1>3. ASSUME CountInv, MasterInv, ChunkInv, InputInv PROVE QueuesFit
  <2>1. /\ Len(input_q) <= TotalInSlots /\ Len(input_q) \in Nat /\ Len(scan_q) <= Len(input_q)
        /\ Len(order_q) <= num_worker + TotalOutSlots
    BY <1>3, InputFits, ScanFits, OrderFits
  <2>2. Len(scan_q) \in Nat
    <3>1. CASE parsing_done
      BY <1>3, <3>1 DEF MasterInv, Finished
    <3>2. CASE ~ parsing_done
      <4>1. scan_q \in Seq(Bits)
        BY <1>3, <3>2, MasterWorking DEF Scanners
      <4> QED
        BY <4>1
    <3> QED
      BY <3>1, <3>2
  <2>3. Len(scan_q) <= TotalInSlots
    BY <2>1, <2>2, ProcessAssumption
  <2> QED
    BY <2>1, <2>3 DEF QueuesFit
<1>4. CountInv /\ MasterInv /\ ChunkInv /\ InputInv => QueuesFit
  BY <1>3
<1> QED
  BY <1>1, <1>2, <1>4, PTL DEF Spec

(***************************************************************************)
(* The end of the job.                                                     *)
(***************************************************************************)
(* When the job is finished, there is nothing left to do.                  *)
LEMMA Ended ==
  ASSUME CountInv, MasterInv, can_terminate
  PROVE  /\ \A w \in Workers : pc[w] \notin UnitStates
         /\ retr_q = <<>> /\ emit_q = <<>> /\ reord_q = <<>> /\ output_q = <<>>
         /\ input_q = <<>> /\ scan_q = <<>> /\ unord_q = <<>>
         /\ sink \notin {"write", "release"} /\ source = "done" /\ next_task = NoTask
<1> DEFINE a == Cardinality(At({"parse", "retrieve", "decode", "emit", "scan"}))
           m == Cardinality(At({"emit"}))
           r == Len(retr_q)
           e == Len(emit_q)
           d == Len(reord_q)
           o == Len(output_q)
           s == Slots(sink \in {"write", "release"})
<1>1. eof /\ parsing_done /\ work_units = num_worker /\ out_slots = TotalOutSlots
  BY DEF can_terminate
<1>2. /\ IsFiniteSet(At({"parse", "retrieve", "decode", "emit", "scan"})) /\ a \in Nat /\ m \in Nat
  BY ProcessAssumption, FS_Subset, FS_CardinalityType DEF At
<1>3. r \in Nat /\ e \in Nat /\ d \in Nat /\ o \in Nat /\ s \in Nat
  BY CountTypes
<1>4. /\ work_units + r + e + a = num_worker
      /\ out_slots + m + d + o + s = TotalOutSlots
  BY DEF CountInv, UnitsBalance, WorkUnitsConserved, OutSlotsConserved
<1>5. num_worker \in Nat /\ TotalOutSlots \in Nat
  BY ProcessAssumption, FS_CardinalityType DEF num_worker
<1>6. a = 0 /\ r = 0 /\ e = 0 /\ d = 0 /\ o = 0 /\ s = 0
  <2> HIDE DEF a, m, r, e, d, o, s
  <2> QED
    BY <1>1, <1>2, <1>3, <1>4, <1>5
<1>7. \A w \in Workers : pc[w] \notin UnitStates
  <2>1. At({"parse", "retrieve", "decode", "emit", "scan"}) = {}
    BY <1>2, <1>6, FS_EmptySet
  <2> QED
    BY <2>1 DEF At, UnitStates
<1>8. \A q : IsQueue(q) /\ Len(q) = 0 => q = <<>>
  BY DEF IsQueue
<1>9. retr_q = <<>> /\ emit_q = <<>> /\ reord_q = <<>> /\ output_q = <<>>
  <2>1. IsQueue(retr_q) /\ IsQueue(emit_q) /\ IsQueue(reord_q) /\ IsQueue(output_q)
    BY DEF CountInv, CountsOK
  <2> QED
    BY <1>6, <1>8, <2>1
<1>10. sink \notin {"write", "release"}
  BY <1>6 DEF Slots
<1>11. input_q = <<>> /\ scan_q = <<>> /\ unord_q = <<>>
  BY <1>1 DEF MasterInv, Finished
<1>12. source = "done"
  BY <1>1 DEF MasterInv, SourceSteady
<1>13. next_task = NoTask
  <2>1. /\ ~ can_reorder /\ ~ can_parse /\ ~ can_emit /\ ~ can_retrieve /\ ~ can_scan
    BY <1>1, <1>9, <1>11 DEF can_reorder, can_parse, can_emit, can_retrieve, can_scan
  <2> QED
    BY <1>9, <2>1 DEF CountInv, NextTaskFresh, SelectTask
<1> QED
  BY <1>7, <1>9, <1>10, <1>11, <1>12, <1>13

(* And nothing is done: the threads leave their loops.                     *)
LEMMA EndStays ==
  ASSUME CountInv, MasterInv, can_terminate, [Next]_vars
  PROVE  /\ can_terminate'
         /\ (\A w \in Workers : pc[w] = "done") => pc' = pc
<1>1. /\ \A w \in Workers : pc[w] \notin UnitStates
      /\ sink # "release" /\ source = "done" /\ next_task = NoTask
  BY Ended
<1>2. /\ UNCHANGED <<eof, parsing_done, parse_token, work_units, out_slots>>
      /\ (\A w \in Workers : pc[w] = "done") => pc' = pc
  <2>1. ASSUME NEW w \in Workers, Worker(w)
        PROVE  /\ pc[w] \in {"enter", "loop"}
               /\ UNCHANGED <<eof, parsing_done, parse_token, work_units, out_slots>>
    <3>1. /\ next_task # "reorder" /\ next_task # "parse" /\ next_task # "emit"
          /\ next_task # "retrieve" /\ next_task # "scan"
      BY <1>1 DEF NoTask
    <3>2. pc[w] \notin {"parse", "retrieve", "decode", "emit", "scan"}
      BY <1>1 DEF UnitStates
    <3>3. ~ Parsing(w)
      BY <3>1, <3>2 DEF Parsing, DoParse, AtTask, ParseMore, ParseFail, ParseFinish, ParseUnique,
         ParseTaken, BlockParsed, ParseReturns
    <3>4. ~ Retrieving(w)
      BY <3>1, <3>2 DEF Retrieving, DoRetrieve, AtTask, RetrieveAbort, RetrieveMoreAsMaster,
         RetrieveMoreAhead, RetrieveOverAsMaster, RetrieveOverAhead, RetrieveReturns, Decoded
    <3>5. ~ (DoEmit(w) \/ Emitted(w) \/ RejectBogus(w) \/ ReorderFail(w) \/ DoReorder(w))
      BY <3>1, <3>2 DEF DoEmit, Emitted, RejectBogus, ReorderFail, DoReorder, AtTask
    <3>6. ~ (DoScan(w) \/ ScanNothing(w) \/ ScanKnown(w) \/ ScanUnique(w))
      BY <3>1, <3>2 DEF DoScan, ScanNothing, ScanKnown, ScanUnique, ScanReturns, AtTask
    <3>7. /\ WorkerEnter(w) \/ WorkerWait(w, can_terminate) \/ WorkerExit(w, can_terminate)
          /\ UNCHANGED jobVars
      BY <2>1, <3>3, <3>4, <3>5, <3>6 DEF Worker
    <3> QED
      BY <3>7 DEF WorkerEnter, WorkerWait, WorkerExit, AtTask, jobVars, parserVars, slotVars
  <2>2. CASE Source
    BY <1>1, <2>2 DEF Source, OnInputAvail, InputRefused, InputEnds, SourceOnly, SourceStall,
       SourceTakeSlot, SourceClosed, SourceRead
  <2>3. CASE Sink
    BY <1>1, <2>3 DEF Sink, OnWriteComplete, SinkOnly, SinkStall, SinkTake, SinkWrite, SinkExit,
       slotVars, schedVars, jobVars, parserVars
  <2>4. CASE Primary \/ Over \/ UNCHANGED vars
    BY <2>4 DEF Primary, Killed, PrimaryOnly, JoinWorkersAndSource, JoinSink, Over, vars, procVars,
       slotVars, schedVars, jobVars, parserVars
  <2>5. CASE Spurious
    BY <2>5 DEF Spurious, SpuriousWakeup, Waiting, slotVars, jobVars, parserVars
  <2> QED
    BY <2>1, <2>2, <2>3, <2>4, <2>5 DEF Next
<1>3. can_terminate'
  BY <1>2 DEF can_terminate
<1> QED
  BY <1>2, <1>3

(* A worker leaves its loop only in WorkerExit().                          *)
LEMMA MovesOn ==
  ASSUME CountInv, NEW w \in Workers, NEW t \in WorkerStates \ {"waiting", "done"}, Moves(w, t),
         NEW v \in Workers, pc'[v] = "done"
  PROVE  pc[v] = "done"
<1>1. /\ pc'[w] = t
      /\ \A x \in Workers \ {w} : pc'[x] = pc[x] \/ (pc[x] = "waiting" /\ pc'[x] = "enter")
  BY MovesEffect DEF CountInv
<1> QED
  BY <1>1

LEMMA TaskMoves ==
  ASSUME NEW w \in Workers, Parsing(w) \/ Retrieving(w) \/ DoEmit(w) \/ Emitted(w)
                               \/ DoScan(w) \/ ScanNothing(w) \/ ScanKnown(w) \/ ScanUnique(w)
  PROVE  pc' = pc \/ \E t \in WorkerStates \ {"waiting", "done"} : Moves(w, t)
<1> DEFINE G == \E t \in WorkerStates \ {"waiting", "done"} : Moves(w, t)
<1>1. Return(w) => G
  <2>1. Return(w) => Moves(w, "loop")
    BY DEF Moves, WorkerStates
  <2>2. "loop" \in WorkerStates \ {"waiting", "done"}
    BY DEF WorkerStates
  <2> QED
    BY <2>1, <2>2
<1>2. \A t \in {"parse", "retrieve", "decode", "emit", "scan"} : Unlock([pc EXCEPT ![w] = t]) => G
  <2> SUFFICES ASSUME NEW t \in {"parse", "retrieve", "decode", "emit", "scan"},
                      Unlock([pc EXCEPT ![w] = t])
               PROVE  G
    OBVIOUS
  <2>1. t \in WorkerStates \ {"waiting", "done"}
    BY DEF WorkerStates
  <2>2. Moves(w, t)
    BY <2>1 DEF Moves
  <2> QED
    BY <2>1, <2>2
<1>3. /\ Unlock([pc EXCEPT ![w] = "parse"]) => G
      /\ Unlock([pc EXCEPT ![w] = "retrieve"]) => G
      /\ Unlock([pc EXCEPT ![w] = "decode"]) => G
      /\ Unlock([pc EXCEPT ![w] = "emit"]) => G
      /\ Unlock([pc EXCEPT ![w] = "scan"]) => G
  <2> HIDE DEF G
  <2> QED
    BY <1>2
<1> HIDE DEF G
<1>4. ASSUME Parsing(w) PROVE pc' = pc \/ G
  BY <1>1, <1>3, <1>4 DEF Parsing, DoParse, ParseMore, ParseFail, ParseFinish, ParseUnique, ParseTaken
<1>5. ASSUME Retrieving(w) PROVE G
  BY <1>1, <1>3, <1>5 DEF Retrieving, DoRetrieve, RetrieveAbort, RetrieveMoreAsMaster,
     RetrieveMoreAhead, RetrieveOverAsMaster, RetrieveOverAhead, ToDecode, Decoded
<1>6. ASSUME DoEmit(w) \/ Emitted(w) PROVE G
  BY <1>1, <1>3, <1>6 DEF DoEmit, Emitted
<1>7. ASSUME DoScan(w) \/ ScanNothing(w) \/ ScanKnown(w) \/ ScanUnique(w) PROVE G
  BY <1>1, <1>3, <1>7 DEF DoScan, ScanNothing, ScanKnown, ScanUnique
<1> QED
  BY <1>4, <1>5, <1>6, <1>7 DEF G

LEMMA OnlyExit ==
  ASSUME CountInv, [Next]_vars, NEW v \in Workers, pc'[v] = "done"
  PROVE  pc[v] = "done" \/ can_terminate
<1>1. pc \in [Workers -> WorkerStates]
  BY DEF CountInv, CountsOK
<1>2. ASSUME NEW w \in Workers, Worker(w) PROVE pc[v] = "done" \/ can_terminate
  <2>1. CASE WorkerEnter(w) \/ WorkerWait(w, can_terminate) \/ WorkerExit(w, can_terminate)
    BY <1>1, <2>1 DEF WorkerEnter, WorkerWait, WorkerExit
  <2>2. CASE RejectBogus(w) \/ ReorderFail(w) \/ DoReorder(w)
    BY <1>1, <2>2 DEF RejectBogus, ReorderFail, DoReorder
  <2>3. CASE Parsing(w) \/ Retrieving(w) \/ DoEmit(w) \/ Emitted(w)
               \/ DoScan(w) \/ ScanNothing(w) \/ ScanKnown(w) \/ ScanUnique(w)
    BY <2>3, TaskMoves, MovesOn
  <2> QED
    BY <1>2, <2>1, <2>2, <2>3 DEF Worker
<1>3. CASE Source \/ Sink \/ Primary \/ Spurious \/ Over \/ UNCHANGED vars
  <2>1. CASE Unlock(pc)
    <3>1. pc'[v] = pc[v] \/ (pc[v] = "waiting" /\ pc'[v] = "enter")
      BY <1>1, <2>1, UnlockEffect
    <3> QED
      BY <3>1
  <2>2. CASE pc' = pc
    BY <2>2
  <2>3. CASE \E w \in Waiting(pc) : pc' = [pc EXCEPT ![w] = "enter"]
    BY <1>1, <2>3 DEF Waiting
  <2> QED
    BY <1>3, <2>1, <2>2, <2>3 DEF Source, OnInputAvail, InputRefused, InputEnds, SourceOnly,
       SourceStall, SourceTakeSlot, SourceClosed, SourceRead, Sink, OnWriteComplete, SinkOnly,
       SinkStall, SinkTake, SinkWrite, SinkExit, Primary, Killed, PrimaryOnly, JoinWorkersAndSource,
       JoinSink, Spurious, SpuriousWakeup, Over, vars, procVars, schedVars
<1> QED
  BY <1>2, <1>3 DEF Next

(* Workers are joined in one step, and no other thread joins them.         *)
LEMMA JoinsOnce ==
  ASSUME [Next]_vars, shutdown' \in {"draining", "done"}
  PROVE  \/ shutdown \in {"draining", "done"}
         \/ (\A w \in Workers : pc[w] = "done") /\ pc' = pc
<1>1. CASE shutdown' = shutdown
  BY <1>1
<1>2. CASE Primary
  BY <1>2 DEF Primary, Killed, PrimaryOnly, JoinWorkersAndSource, JoinSink, schedVars
<1>3. CASE ~ Primary
  <2>1. ASSUME NEW w \in Workers, Worker(w) PROVE shutdown' = shutdown
    <3>1. CASE Parsing(w)
      BY <3>1 DEF Parsing, DoParse, ParseMore, ParseFail, Fail, ParseFinish, ParseUnique, ParseTaken,
         BlockParsed
    <3>2. CASE Retrieving(w)
      BY <3>2 DEF Retrieving, DoRetrieve, RetrieveAbort, RetrieveMoreAsMaster, RetrieveMoreAhead,
         RetrieveOverAsMaster, RetrieveOverAhead, Decoded
    <3>3. CASE ~ Parsing(w) /\ ~ Retrieving(w)
      BY <2>1, <3>3 DEF Worker, WorkerEnter, WorkerWait, WorkerExit, DoEmit, Emitted, RejectBogus,
         ReorderFail, Fail, DoReorder, DoScan, ScanNothing, ScanKnown, ScanUnique, ScanReturns
    <3> QED
      BY <3>1, <3>2, <3>3
  <2>2. CASE Source \/ Sink \/ Spurious \/ Over \/ UNCHANGED vars
    BY <2>2 DEF Source, OnInputAvail, InputRefused, InputEnds, SourceOnly, SourceStall,
       SourceTakeSlot, SourceClosed, SourceRead, Sink, OnWriteComplete, SinkOnly, SinkStall, SinkTake,
       SinkWrite, SinkExit, Spurious, SpuriousWakeup, Over, vars, procVars
  <2> QED
    BY <1>1, <1>3, <2>1, <2>2 DEF Next
<1> QED
  BY <1>2, <1>3

LEMMA NextEnd == CountInv /\ MasterInv /\ EndInv /\ [Next]_vars => EndInv'
<1> SUFFICES ASSUME CountInv, MasterInv, EndInv, [Next]_vars PROVE EndInv'
  OBVIOUS
<1>1. ASSUME NEW v \in Workers, pc'[v] = "done" PROVE can_terminate'
  <2>1. can_terminate
    BY <1>1, OnlyExit DEF EndInv
  <2> QED
    BY <2>1, EndStays
<1>2. ASSUME shutdown' \in {"draining", "done"}, NEW v \in Workers PROVE pc'[v] = "done"
  <2>1. CASE shutdown \in {"draining", "done"}
    <3>1. \A w \in Workers : pc[w] = "done"
      BY <2>1 DEF EndInv
    <3>2. can_terminate
      BY <3>1 DEF EndInv
    <3>3. pc' = pc
      BY <3>1, <3>2, EndStays
    <3> QED
      BY <3>1, <3>3
  <2>2. CASE shutdown \notin {"draining", "done"}
    BY <1>2, <2>2, JoinsOnce
  <2> QED
    BY <2>1, <2>2
<1> QED
  BY <1>1, <1>2 DEF EndInv

LEMMA InitEnd == Init => EndInv
BY DEF Init, ProcessInit, EndInv

(* And what was expected has been written.                                 *)
LEMMA AllExpectedWritten ==
  ASSUME ChunkInv, \A w \in Workers : pc[w] = "done",
         retr_q = <<>>, emit_q = <<>>, reord_q = <<>>
  PROVE  order_q = <<>>
<1>1. order_q \in Seq(ChunkAt) /\ Bases(order_q) \subseteq JobBases \cup Carried
  BY DEF ChunkInv, ChunkTypes
<1>2. At({"retrieve"}) = {} /\ At({"decode", "emit"}) = {}
  BY DEF At
<1>3. JobBases = {} /\ Carried = {}
  BY <1>2 DEF JobBases, Jobs, InHand, Carried, Handed, Lasts, Bases, ToSet
<1>4. \A i \in 1 .. Len(order_q) : order_q[i].pos[1] \in Bases(order_q)
  BY <1>1, QueueBases
<1>5. ~ 1 \in 1 .. Len(order_q)
  BY <1>1, <1>3, <1>4
<1> QED
  BY <1>1, <1>5

LEMMA EndClean ==
  ASSUME CountInv, MasterInv, ChunkInv, InputInv, EndInv, shutdown = "done"
  PROVE  AtExitClean
<1>1. \A w \in Workers : pc[w] = "done"
  BY DEF EndInv
<1>2. can_terminate
  BY <1>1, ExpansionAssumption DEF EndInv
<1>3. /\ eof /\ parsing_done /\ parse_token /\ work_units = num_worker
      /\ out_slots = TotalOutSlots
  BY <1>2 DEF can_terminate
<1>4. /\ retr_q = <<>> /\ emit_q = <<>> /\ reord_q = <<>> /\ output_q = <<>>
      /\ input_q = <<>> /\ scan_q = <<>> /\ unord_q = <<>> /\ source = "done"
  BY <1>2, Ended
<1>5. Chain(input_q, head_offs, tail_offs) /\ Held /\ Referred
  BY DEF MasterInv
<1>6. head_offs = tail_offs
  BY <1>4, <1>5 DEF Chain
<1>7. DOMAIN ref_count = {}
  <2> SUFFICES ASSUME NEW o \in DOMAIN ref_count PROVE FALSE
    OBVIOUS
  <2>1. ref_count[o] = Slots(InQueue(o)) + Cardinality(Readers(o)) /\ ref_count[o] > 0
    BY <1>5 DEF Referred
  <2>2. Slots(InQueue(o)) = 0
    BY <1>4 DEF InQueue, Slots, ToSet
  <2>3. Readers(o) = {}
    <3>1. \A w \in Workers : blk[w] = NULL
      BY <1>1, <1>5 DEF Held, Readers3
    <3> QED
      BY <3>1 DEF Readers
  <2>4. Cardinality(Readers(o)) = 0
    BY <2>3, FS_EmptySet
  <2> QED
    BY <2>1, <2>2, <2>4
<1>8. in_slots = TotalInSlots
  <2>1. Cardinality(DOMAIN ref_count) = 0
    BY <1>7, FS_EmptySet
  <2>2. Slots(source \in {"read", "deliver"}) = 0
    BY <1>4 DEF Slots
  <2>3. in_slots \in Nat /\ InSlotsConserved
    BY DEF InputInv
  <2> QED
    BY <2>1, <2>2, <2>3 DEF InSlotsConserved
<1>9. order_q = <<>>
  BY <1>1, <1>4, AllExpectedWritten
<1> QED
  BY <1>3, <1>4, <1>6, <1>8, <1>9 DEF AtExitClean

(* The assertions at the end of primary_thread(), in uninit() and in the   *)
(* macros that free the queues hold: when the process is over all buffers, *)
(* units and slots are back and no queue has anything left, false patterns *)
(* that were being worked on included.                                     *)
THEOREM ExpansionExitClean == Spec => []AtExitClean
<1>1. Init => CountInv /\ MasterInv /\ ChunkInv /\ InputInv /\ EndInv
  BY InitCounts, InitMaster, InitChunks, InitInput, InitEnd
<1>2. CountInv /\ MasterInv /\ ChunkInv /\ InputInv /\ EndInv /\ [Next]_vars
        => (CountInv /\ MasterInv /\ ChunkInv /\ InputInv /\ EndInv)'
  BY NextCounts, NextMaster, NextChunks, NextInput, NextEnd
<1>3. CountInv /\ MasterInv /\ ChunkInv /\ InputInv /\ EndInv => AtExitClean
  <2>1. shutdown # "done" => AtExitClean
    BY DEF AtExitClean
  <2> QED
    BY <2>1, EndClean
<1> QED
  BY <1>1, <1>2, <1>3, PTL DEF Spec

(***************************************************************************)
(* Where blocks and the trailer are.                                       *)
(***************************************************************************)
LEMMA BlocksAre ==
  ASSUME NEW s, StreamOK(s), NEW n, n = Len(s.blocks)
  PROVE  /\ n \in Nat /\ s.stop \in Nat /\ s.len \in Nat /\ s.garbage \in 1 .. 2
         /\ \A i \in 1 .. n :
              /\ s.blocks[i].base \in Nat /\ s.blocks[i].stop \in Nat /\ From(s, i) \in Nat
              /\ s.blocks[i].base \in RealBases(s) /\ s.blocks[i] \in ToSet(s.blocks)
              /\ From(s, i) + 5 <= s.blocks[i].base /\ s.blocks[i].base < s.blocks[i].stop
              /\ s.blocks[i].chunks \in Nat \ {0}
         /\ \A i, j \in 1 .. n : i < j => s.blocks[i].stop <= From(s, j)
         /\ TrailerFrom(s) = IF n = 0 THEN 0 ELSE s.blocks[n].stop
         /\ TrailerFrom(s) \in Nat /\ TrailerFrom(s) + 5 <= s.stop
<1>1. n \in Nat /\ s.blocks \in Seq(PatternType) /\ s.stop \in Nat /\ s.len \in Nat /\ s.garbage \in 1 .. 2
  BY DEF StreamOK
<1>2. \A i \in 1 .. n : s.blocks[i] \in ToSet(s.blocks) /\ s.blocks[i].base \in RealBases(s)
  BY <1>1, ToSetOf DEF RealBases
<1>3. ASSUME NEW i \in 1 .. n
      PROVE  /\ s.blocks[i].base \in Nat /\ s.blocks[i].stop \in Nat /\ s.blocks[i].chunks \in Nat \ {0}
             /\ s.blocks[i].base < s.blocks[i].stop
  <2>1. BlockOK(s.blocks[i])
    BY <1>2 DEF StreamOK, Patterns
  <2> QED
    BY <2>1 DEF BlockOK, PatternType
<1>4. \A i \in 1 .. n : From(s, i) \in Nat
  BY <1>1, <1>3 DEF From
<1>5. \A i \in 1 .. n : From(s, i) + 5 <= s.blocks[i].base
  <2>1. \A i \in 1 .. n : s.blocks[i].base >= From(s, i) + 5
    BY DEF StreamOK, HeaderUnits
  <2> QED
    BY <1>3, <1>4, <2>1
<1>6. \A i, j \in 1 .. n : i < j => s.blocks[i].stop <= From(s, j)
  BY DEF StreamOK
<1>7. TrailerFrom(s) = IF n = 0 THEN 0 ELSE s.blocks[n].stop
  BY <1>1 DEF TrailerFrom, From
<1>8. TrailerFrom(s) \in Nat
  BY <1>1, <1>3, <1>7
<1>9. TrailerFrom(s) + 5 <= s.stop
  <2>1. s.stop >= TrailerFrom(s) + 5
    BY DEF StreamOK, HeaderUnits
  <2> QED
    BY <1>1, <1>8, <2>1
<1> QED
  BY <1>1, <1>2, <1>3, <1>4, <1>5, <1>6, <1>7, <1>8, <1>9

(* Every block ends where a header or the trailer begins.                  *)
LEMMA RealEnds ==
  ASSUME NEW s, StreamOK(s), NEW u \in RealBases(s)
  PROVE  /\ u \in Nat /\ Pattern(s, u).stop \in Nat /\ u < Pattern(s, u).stop
         /\ Pattern(s, u).stop <= TrailerFrom(s) /\ Pattern(s, u).stop + 5 <= s.stop
         /\ Stands(s, Pattern(s, u).stop)
<1> DEFINE n == Len(s.blocks)
           z == Pattern(s, u).stop
           T == TrailerFrom(s)
<1>1. PICK i \in 1 .. n : s.blocks[i] = Pattern(s, u)
  BY RealOf
<1>2. u \in Nat /\ z \in Nat /\ u < z
  BY RealOf, PatternOf
<1>3. /\ n \in Nat /\ s.stop \in Nat /\ s.garbage \in 1 .. 2 /\ T \in Nat /\ T + 5 <= s.stop
      /\ T = IF n = 0 THEN 0 ELSE s.blocks[n].stop
      /\ \A k \in 1 .. n :
              /\ s.blocks[k].base \in Nat /\ s.blocks[k].stop \in Nat /\ From(s, k) \in Nat
              /\ From(s, k) + 5 <= s.blocks[k].base /\ s.blocks[k].base < s.blocks[k].stop
      /\ \A k, j \in 1 .. n : k < j => s.blocks[k].stop <= From(s, j)
  BY BlocksAre
<1>4. T = s.blocks[n].stop /\ n \in 1 .. n
  BY <1>1, <1>3
<1> HIDE DEF n, T, z
<1>5. CASE i = n
  <2>1. T = z
    BY <1>1, <1>4, <1>5 DEF z
  <2>2. T <= z /\ z < s.stop + s.garbage
    BY <1>2, <1>3, <2>1
  <2>3. Stands(s, z)
    BY <2>2 DEF Stands, T
  <2> QED
    BY <1>2, <1>3, <2>1, <2>3 DEF z, T
<1>6. CASE i < n
  <2> DEFINE j == i + 1
  <2>1. j \in 1 .. n /\ From(s, j) = z
    BY <1>1, <1>3, <1>6 DEF From, z
  <2> HIDE DEF j
  <2>2. z + 5 <= s.blocks[j].base /\ s.blocks[j].base \in Nat
    BY <1>3, <2>1
  <2>3. From(s, j) <= z /\ z < s.blocks[j].base
    BY <1>2, <2>1, <2>2
  <2>4. Stands(s, z)
    BY <2>1, <2>3 DEF Stands, n
  <2>5. z <= From(s, n)
    BY <1>1, <1>3, <1>4, <1>6 DEF z
  <2> DEFINE f == From(s, n)
             b == s.blocks[n].base
             e == s.blocks[n].stop
  <2>6. f \in Nat /\ b \in Nat /\ e \in Nat /\ f + 5 <= b /\ b < e /\ e = T /\ z <= f
    BY <1>3, <1>4, <2>5
  <2> HIDE DEF f, b, e
  <2>7. z <= T /\ z + 5 <= s.stop
    BY <1>2, <1>3, <2>6
  <2> QED
    BY <1>2, <2>4, <2>7 DEF z, T
<1> QED
  BY <1>1, <1>3, <1>5, <1>6

(* What parse() meets first from unit u.                                   *)
LEMMA LandmarkAt ==
  ASSUME NEW s, StreamOK(s), NEW u \in Nat, NEW mark, mark = Landmark(s, u)
  PROVE  /\ mark.at \in Nat /\ mark.rv \in {"OK", "ERR", "FINISH"}
         /\ mark.rv = "FINISH" =>
              /\ mark.at = s.stop + s.garbage /\ (s.intact \/ s.stop <= u)
              /\ \A v \in RealBases(s) : v <= u
         /\ mark.rv = "OK" => mark.at < s.stop
         /\ s.intact /\ Stands(s, u) =>
              mark.rv # "ERR" /\ \A v \in Nat : u <= v /\ v < mark.at => Stands(s, v)
         /\ ~ s.intact /\ u < s.stop => mark.at <= s.stop
<1> DEFINE n == Len(s.blocks)
           P(i) == From(s, i) <= u /\ u < s.blocks[i].base
           T == TrailerFrom(s)
           g == s.garbage
<1>1. /\ mark.at \in Nat /\ u < mark.at
      /\ mark.rv = "OK" => mark.at \in RealBases(s)
      /\ \A v \in RealBases(s) : u < v => mark.at <= v
  BY LandmarkNext
<1>2. n \in Nat /\ s.stop \in Nat /\ g \in 1 .. 2 /\ T \in Nat /\ T + 5 <= s.stop
  BY BlocksAre
<1>3. \A v \in RealBases(s) : v \in Nat /\ v < s.stop
  <2> SUFFICES ASSUME NEW v \in RealBases(s) PROVE v \in Nat /\ v < s.stop
    OBVIOUS
  <2> DEFINE z == Pattern(s, v).stop
  <2>1. v \in Nat /\ z \in Nat /\ v < z /\ z + 5 <= s.stop
    BY RealEnds
  <2> HIDE DEF z
  <2> QED
    BY <1>2, <2>1
<1>4. mark.rv = "OK" => mark.at < s.stop
  BY <1>1, <1>3
<1>5. CASE \E i \in 1 .. n : P(i)
  <2> DEFINE i == CHOOSE i \in 1 .. n : P(i)
  <2>1. mark = [rv |-> "OK", at |-> s.blocks[i].base]
    BY <1>5 DEF Landmark
  <2>2. i \in 1 .. n /\ P(i)
    BY <1>5
  <2> HIDE DEF i
  <2>3. mark.rv = "OK" /\ mark.at = s.blocks[i].base
    BY <2>1
  <2>4. From(s, i) \in Nat
    BY <2>2, BlocksAre
  <2>5. ASSUME NEW v \in Nat, u <= v, v < mark.at PROVE Stands(s, v)
    <3>1. From(s, i) <= v /\ v < s.blocks[i].base
      BY <2>2, <2>3, <2>4, <2>5
    <3> QED
      BY <2>2, <3>1 DEF Stands
  <2> QED
    BY <1>1, <1>2, <1>4, <2>3, <2>5
<1>6. CASE ~ \E i \in 1 .. n : P(i)
  <2> DEFINE here == T <= u /\ u < s.stop + g
  <2>1. Stands(s, u) => here
    BY <1>6 DEF Stands
  <2>2. CASE T <= u /\ u < s.stop /\ ~ s.intact
    <3>1. mark = [rv |-> "ERR", at |-> s.stop]
      BY <1>6, <2>2 DEF Landmark
    <3> QED
      BY <1>1, <1>2, <2>2, <3>1
  <2>3. CASE ~ (T <= u /\ u < s.stop /\ ~ s.intact) /\ here
    <3>1. mark = [rv |-> "FINISH", at |-> s.stop + g]
      BY <1>6, <2>3 DEF Landmark
    <3>2. mark.rv = "FINISH" /\ mark.at = s.stop + g
      BY <3>1
    <3>3. s.intact \/ s.stop <= u
      BY <1>2, <2>3
    <3>4. ASSUME NEW v \in Nat, u <= v, v < mark.at PROVE Stands(s, v)
      BY <1>2, <2>3, <3>2, <3>4 DEF Stands
    <3>5. ASSUME NEW v \in RealBases(s) PROVE v <= u
      <4>1. u < v => s.stop + g <= v
        BY <1>1, <3>2
      <4> QED
        BY <1>2, <1>3, <4>1
    <3> QED
      BY <1>1, <1>2, <3>2, <3>3, <3>4, <3>5
  <2>4. CASE ~ (T <= u /\ u < s.stop /\ ~ s.intact) /\ ~ here
    <3>1. mark = [rv |-> "ERR", at |-> u + 1]
      BY <1>6, <2>4 DEF Landmark
    <3>2. mark.rv = "ERR" /\ mark.at = u + 1
      BY <3>1
    <3>3. u < s.stop => mark.at <= s.stop
      BY <1>2, <3>2
    <3> QED
      BY <1>1, <2>1, <2>4, <3>2, <3>3
  <2> QED
    BY <2>2, <2>3, <2>4
<1> QED
  BY <1>5, <1>6

(***************************************************************************)
(* What has been read.                                                     *)
(***************************************************************************)
ReadTypes ==
  /\ tail_offs \in Nat /\ file_len \in Nat /\ ispec_total \in 0 .. file_len
  /\ (source = "deliver" => avail \in 1 .. InGranul) /\ (eof => source = "done")
  /\ InGranul \in Nat /\ InGranul % 2 = 0

LEMMA ReadTyped ==
  ASSUME MasterInv
  PROVE  ReadTypes /\ StreamOK(stream) /\ stream.stop \in Nat /\ stream.len \in Nat
<1>1. SourceSteady /\ StreamOK(stream)
  BY MasterParts
<1>2. InGranul \in Nat /\ InGranul % 2 = 0
  BY ProcessAssumption, ExpansionAssumption
<1> QED
  BY <1>1, <1>2, BlocksAre DEF SourceSteady, ReadTypes

(* At the end of the input all words of the file are there.                *)
LEMMA AllRead ==
  ASSUME ReadTypes, ReadInv, ~ parsing_done, eof
  PROVE  stream.len <= 2 * tail_offs /\ 2 * tail_offs <= stream.len + 1
<1>1. /\ source = "done" /\ ispec_total = stream.len /\ eof_missing \in 0 .. 1
      /\ 2 * tail_offs = Delivered + eof_missing
  BY DEF ReadTypes, ReadInv
<1>2. Delivered = ispec_total
  BY <1>1 DEF Delivered, ReadTypes
<1> QED
  BY <1>1, <1>2 DEF ReadTypes

(* CutOff tells whether the trailer ends behind the end of the file, when  *)
(* the parser has come to its end.                                         *)
LEMMA CutOffTells ==
  ASSUME ReadTypes, ReadInv, ~ parsing_done, stream.stop \in Nat, stream.len \in Nat
  PROVE  /\ stream.stop <= stream.len => ~ CutOff
         /\ ~ CutOff /\ stream.stop <= 2 * tail_offs => stream.stop <= stream.len
<1> DEFINE z == stream.stop
           d == Delivered
           m == eof_missing
<1>1. /\ m \in 0 .. 1 /\ 2 * tail_offs = d + m /\ file_len = stream.len
      /\ m = 1 => source \in {"eof", "done"}
      /\ source \in {"eof", "done"} => ispec_total = file_len
  BY DEF ReadInv
<1>2. d \in Int /\ d <= stream.len /\ (m = 1 => d = stream.len)
  BY <1>1 DEF Delivered, ReadTypes
<1>3. Words(z) \in Nat /\ z <= 2 * Words(z) /\ 2 * Words(z) <= z + 1
  BY WordsOf
<1>4. CutOff <=> (Words(z) = tail_offs /\ 2 * tail_offs - z < m)
  BY DEF CutOff
<1>5. tail_offs \in Nat /\ z \in Nat /\ stream.len \in Nat
  BY DEF ReadTypes
<1> HIDE DEF z, d, m
<1>6. z <= stream.len => ~ CutOff
  BY <1>1, <1>2, <1>3, <1>4, <1>5
<1>7. ~ CutOff /\ z <= 2 * tail_offs => z <= stream.len
  BY <1>1, <1>2, <1>3, <1>4, <1>5
<1> QED
  BY <1>6, <1>7 DEF z

LEMMA ReadRests ==
  ASSUME ReadInv, UNCHANGED <<file_len, stream, ispec_total, avail, tail_offs, eof_missing>>,
         request_close' => request_close \/ parsing_done', parsing_done => parsing_done',
         source' = source \/ (source = "stalled" /\ source' = "top")
  PROVE  ReadInv'
<1>1. Delivered' = Delivered
  BY DEF Delivered
<1>2. file_len' = stream'.len /\ (request_close' => parsing_done')
  BY DEF ReadInv
<1>3. ASSUME ~ parsing_done'
      PROVE  /\ eof_missing' \in 0 .. 1 /\ 2 * tail_offs' = Delivered' + eof_missing'
             /\ eof_missing' = 1 => source' \in {"eof", "done"}
             /\ (source' = "deliver" /\ avail' < InGranul) \/ source' \in {"eof", "done"} =>
                  ispec_total' = file_len'
  <2>1. ~ parsing_done
    BY <1>3
  <2> QED
    BY <1>1, <2>1 DEF ReadInv
<1> QED
  BY <1>2, <1>3 DEF ReadInv

LEMMA WorkerReads ==
  ASSUME ReadInv, NEW w \in Workers, Worker(w)
  PROVE  ReadInv'
<1>1. CASE \/ ParseMore(w) \/ ParseUnique(w) \/ ParseTaken(w)
           \/ RetrieveAbort(w) \/ RetrieveMoreAsMaster(w) \/ RetrieveMoreAhead(w)
           \/ RetrieveOverAsMaster(w) \/ RetrieveOverAhead(w)
           \/ ScanNothing(w) \/ ScanKnown(w) \/ ScanUnique(w)
  <2>1. /\ \E gone : ReleaseRefs(gone, w, FALSE)
        /\ UNCHANGED parsing_done
    BY <1>1 DEF ParseMore, ParseUnique, ParseTaken, BlockParsed, RetrieveAbort, RetrieveMoreAsMaster,
     RetrieveMoreAhead, RetrieveOverAsMaster, RetrieveOverAhead, ScanNothing, ScanKnown, ScanUnique,
     ScanReturns, Detach, Advance
  <2> QED
    BY <2>1, ReadRests DEF ReleaseRefs
<1>2. CASE ParseFinish(w)
  BY <1>2, ReadRests DEF ParseFinish, ReleaseRefs
<1>3. CASE \/ DoParse(w) \/ DoRetrieve(w) \/ DoScan(w)
           \/ ParseFail(w) \/ ReorderFail(w) \/ Decoded(w) \/ DoEmit(w) \/ Emitted(w)
           \/ RejectBogus(w) \/ DoReorder(w)
           \/ /\ WorkerEnter(w) \/ WorkerWait(w, can_terminate) \/ WorkerExit(w, can_terminate)
              /\ UNCHANGED jobVars
  <2>1. UNCHANGED sourceVars
    BY <1>3 DEF DoParse, DoRetrieve, DoScan, ParseFail, ReorderFail, Fail, Decoded, DoEmit, Emitted,
       RejectBogus, DoReorder, WorkerEnter, WorkerWait, WorkerExit
  <2>2. UNCHANGED <<stream, tail_offs, eof_missing, parsing_done>>
    BY <1>3 DEF DoParse, DoRetrieve, DoScan, ParseFail, ReorderFail, Fail, Decoded, DoEmit, Emitted,
       RejectBogus, DoReorder, inputVars, parserVars, jobVars
  <2> QED
    BY <2>1, <2>2, ReadRests DEF sourceVars
<1> QED
  BY <1>1, <1>2, <1>3 DEF Worker, Parsing, Retrieving

(* A buffer that is not full is the last one, and its padding is noted.    *)
LEMMA BufferRead ==
  ASSUME ReadTypes, ReadInv, OnInputAvail
  PROVE  ReadInv'
<1> DEFINE a == avail
           wd == Words(avail)
<1>1. /\ source = "deliver" /\ ~ parsing_done
      /\ eof_missing' = a % 2 /\ tail_offs' = tail_offs + wd /\ source' = AfterDelivery
      /\ UNCHANGED <<file_len, ispec_total, avail, request_close, stream, parsing_done>>
  BY DEF OnInputAvail, parserVars
<1>2. /\ a \in 1 .. InGranul /\ tail_offs \in Nat /\ InGranul \in Nat /\ InGranul % 2 = 0
      /\ ispec_total \in Nat
  BY <1>1 DEF ReadTypes
<1>3. /\ file_len = stream.len /\ (request_close => parsing_done) /\ eof_missing = 0
      /\ 2 * tail_offs = ispec_total - a + eof_missing
      /\ a < InGranul => ispec_total = file_len
  BY <1>1 DEF ReadInv, Delivered
<1> DEFINE m == a % 2
<1>4. wd \in Nat /\ 2 * wd = a + m /\ m \in 0 .. 1
  <2>1. a \in Nat /\ m \in 0 .. 1
    BY <1>2
  <2>2. wd \in Nat /\ a <= 2 * wd /\ 2 * wd <= a + 1
    BY <2>1, WordsOf
  <2>3. \E k \in Nat : a = 2 * k + m
    <3>1. a = 2 * (a \div 2) + m /\ a \div 2 \in Nat
      BY <2>1
    <3> QED
      BY <3>1
  <2> HIDE DEF wd, a, m
  <2> QED
    BY <2>1, <2>2, <2>3
<1>5. source' = IF a < InGranul THEN "eof" ELSE "top"
  BY <1>1 DEF AfterDelivery
<1>6. Delivered' = ispec_total
  BY <1>1, <1>2, <1>5 DEF Delivered
<1> HIDE DEF wd, m
<1>7. 2 * tail_offs' = Delivered' + eof_missing' /\ eof_missing' \in 0 .. 1
  <2>1. 2 * (tail_offs + wd) = ispec_total + m
    BY <1>2, <1>3, <1>4
  <2>2. eof_missing' = m
    BY <1>1 DEF m
  <2> QED
    BY <1>1, <1>4, <1>6, <2>1, <2>2
<1>8. eof_missing' = 1 => source' \in {"eof", "done"}
  BY <1>1, <1>2, <1>5
<1>9. source' # "deliver" /\ (source' \in {"eof", "done"} => ispec_total' = file_len')
  BY <1>1, <1>3, <1>5
<1> QED
  BY <1>1, <1>3, <1>7, <1>8, <1>9 DEF ReadInv

LEMMA SourceReads ==
  ASSUME ReadTypes, ReadInv, Source
  PROVE  ReadInv'
<1>1. CASE OnInputAvail
  BY <1>1, BufferRead
<1>2. CASE InputRefused
  <2>1. parsing_done' /\ UNCHANGED <<file_len, request_close, stream>>
    BY <1>2 DEF InputRefused, jobVars, parserVars
  <2> QED
    BY <2>1 DEF ReadInv
<1>3. CASE InputEnds \/ (SourceOnly /\ UNCHANGED jobVars)
  <2>1. UNCHANGED <<stream, tail_offs, eof_missing, parsing_done>> /\ UNCHANGED <<file_len, request_close>>
    BY <1>3 DEF InputEnds, SourceOnly, SourceStall, SourceTakeSlot, SourceClosed, SourceRead,
       jobVars, parserVars, inputVars
  <2>2. file_len' = stream'.len /\ (request_close' => parsing_done')
    BY <2>1 DEF ReadInv
  <2>3. ASSUME ~ parsing_done
        PROVE  /\ Delivered' = Delivered
               /\ source' \in {"eof", "done"} \/ eof_missing # 1
               /\ (source' = "deliver" /\ avail' < InGranul) \/ source' \in {"eof", "done"} =>
                    ispec_total' = file_len'
    <3>1. /\ eof_missing = 1 => source \in {"eof", "done"}
          /\ (source = "deliver" /\ avail < InGranul) \/ source \in {"eof", "done"} =>
               ispec_total = file_len
          /\ ~ request_close
      BY <2>3 DEF ReadInv
    <3>2. CASE InputEnds
      BY <3>1, <3>2 DEF InputEnds, Delivered, ReadTypes
    <3>3. CASE SourceStall \/ SourceTakeSlot \/ SourceClosed
      BY <3>1, <3>3 DEF SourceStall, SourceTakeSlot, SourceClosed, Delivered
    <3>4. CASE SourceRead
      <4>1. /\ source = "read" /\ avail' = min(InGranul, file_len - ispec_total)
            /\ ispec_total' = ispec_total + avail' /\ file_len' = file_len
            /\ source' = IF avail' = 0 THEN "eof" ELSE "deliver"
        BY <3>4 DEF SourceRead
      <4>2. file_len \in Nat /\ ispec_total \in 0 .. file_len /\ InGranul \in Nat \ {0}
        BY ProcessAssumption DEF ReadTypes
      <4>3. avail' \in Nat /\ (avail' < InGranul => ispec_total' = file_len)
        BY <4>1, <4>2 DEF min
      <4>4. Delivered' = Delivered
        BY <4>1, <4>2, <4>3 DEF Delivered
      <4> QED
        BY <3>1, <4>1, <4>2, <4>3, <4>4
    <3> QED
      BY <1>3, <3>2, <3>3, <3>4 DEF SourceOnly
  <2> QED
    BY <2>1, <2>2, <2>3 DEF ReadInv
<1> QED
  BY <1>1, <1>2, <1>3 DEF Source

LEMMA NextRead ==
  ASSUME ReadTypes, ReadInv, [Next]_vars
  PROVE  ReadInv'
<1>1. CASE Sink \/ Primary \/ Spurious \/ UNCHANGED vars
  <2>1. UNCHANGED <<file_len, ispec_total, avail, request_close>>
    BY <1>1 DEF Sink, OnWriteComplete, SinkOnly, SinkStall, SinkTake, SinkWrite, SinkExit, Primary,
       Killed, PrimaryOnly, JoinWorkersAndSource, JoinSink, Spurious, SpuriousWakeup,
       sourceVars, vars, procVars
  <2>2. UNCHANGED <<stream, tail_offs, eof_missing, parsing_done>>
    BY <1>1 DEF Sink, OnWriteComplete, Primary, Killed, Spurious, vars, jobVars, inputVars, parserVars
  <2>3. source' = source \/ (source = "stalled" /\ source' = "top")
    BY <1>1 DEF Sink, OnWriteComplete, SinkOnly, SinkStall, SinkTake, SinkWrite, SinkExit, Primary,
       Killed, PrimaryOnly, JoinWorkersAndSource, JoinSink, Spurious, SpuriousWakeup,
       sourceVars, vars, procVars
  <2> QED
    BY <2>1, <2>2, <2>3, ReadRests
<1> QED
  BY <1>1, WorkerReads, SourceReads DEF Next, Over

LEMMA InitRead == Init => ReadInv
<1> SUFFICES ASSUME Init PROVE ReadInv
  OBVIOUS
<1>1. /\ file_len = stream.len /\ request_close = FALSE /\ eof_missing = 0 /\ tail_offs = 0
      /\ ispec_total = 0 /\ source = "top"
  BY DEF Init, ProcessInit
<1> QED
  BY <1>1 DEF ReadInv, Delivered

(***************************************************************************)
(* Where the parser stands.                                                *)
(***************************************************************************)
LEMMA ParseStands ==
  ASSUME NEW s, StreamOK(s), NEW bs, NEW u \in Nat, u = bs.pos[1], NEW limit \in Nat, NEW done \in BOOLEAN,
         s.intact \/ u < s.stop, NEW r, r = Parse(s, bs, limit, done)
  PROVE  /\ r.rv = "FINISH" =>
              s.intact /\ s.stop <= 2 * limit /\ \A v \in RealBases(s) : v <= u
         /\ r.rv = "MORE" /\ u <= r.bs.pos[1] =>
              /\ s.intact \/ r.bs.pos[1] < s.stop
              /\ s.intact /\ Stands(s, u) => Stands(s, r.bs.pos[1])
         /\ s.intact /\ Stands(s, u) /\ (done => s.stop <= 2 * limit) => r.rv # "ERR"
<1> DEFINE mark == Landmark(s, u)
           a == mark.at
           end == 2 * limit
           z == s.stop
           q == r.bs.pos[1]
<1>1. /\ a \in Nat /\ mark.rv \in {"OK", "ERR", "FINISH"}
      /\ mark.rv = "FINISH" =>
           a = z + s.garbage /\ (s.intact \/ z <= u) /\ \A v \in RealBases(s) : v <= u
      /\ mark.rv = "OK" => a < z
      /\ s.intact /\ Stands(s, u) => mark.rv # "ERR" /\ \A v \in Nat : u <= v /\ v < a => Stands(s, v)
      /\ ~ s.intact /\ u < z => a <= z
  BY LandmarkAt
<1>2. z \in Nat /\ s.garbage \in 1 .. 2 /\ end \in Nat
  <2>1. z \in Nat /\ s.garbage \in 1 .. 2
    BY DEF StreamOK
  <2> QED
    BY <2>1
<1>3. r.rv = IF a <= end THEN mark.rv
             ELSE IF ~ done THEN "MORE"
             ELSE IF mark.rv = "FINISH" /\ end >= z THEN "FINISH" ELSE "ERR"
  BY DEF Parse
<1>4. ~ (a <= end) => q = end
  BY DEF Parse, BitsAt
<1> HIDE DEF mark, a, end, z, q
<1>5. ASSUME r.rv = "FINISH"
      PROVE  s.intact /\ z <= end /\ \A v \in RealBases(s) : v <= u
  <2>1. mark.rv = "FINISH" /\ (a <= end \/ z <= end)
    BY <1>2, <1>3, <1>5
  <2>2. z <= end
    BY <1>1, <1>2, <2>1
  <2>3. s.intact
    BY <1>1, <1>2, <2>1 DEF z
  <2> QED
    BY <1>1, <2>1, <2>2, <2>3
<1>6. ASSUME r.rv = "MORE", u <= q
      PROVE  (s.intact \/ q < z) /\ (s.intact /\ Stands(s, u) => Stands(s, q))
  <2>1. end < a /\ q = end
    BY <1>1, <1>2, <1>3, <1>4, <1>6
  <2>2. s.intact \/ q < z
    BY <1>1, <1>2, <2>1 DEF z
  <2>3. s.intact /\ Stands(s, u) => Stands(s, q)
    BY <1>1, <1>2, <1>6, <2>1
  <2> QED
    BY <2>2, <2>3
<1>7. ASSUME s.intact, Stands(s, u), done => z <= end
      PROVE  r.rv # "ERR"
  <2>1. mark.rv # "ERR"
    BY <1>1, <1>7
  <2>2. ~ (a <= end) /\ done => mark.rv = "FINISH" /\ z <= end
    BY <1>1, <1>2, <1>7, <2>1
  <2> QED
    BY <1>1, <1>2, <1>3, <2>1, <2>2
<1> QED
  BY <1>5, <1>6, <1>7 DEF z, end, q

LEMMA ParserEnds ==
  ASSUME CountInv, MasterInv, ReadTypes, ReadInv, ParseInv,
         NEW w \in Workers, pc[w] = "parse", NEW r, r = Parsed(w), NEW p, p = parser_bs.pos[1]
  PROVE  /\ p \in Nat
         /\ r.rv = "FINISH" =>
              /\ stream.intact /\ \A v \in RealBases(stream) : v <= p
              /\ ~ CutOff => stream.stop <= stream.len
         /\ r.rv = "MORE" =>
              /\ stream.intact \/ r.bs.pos[1] < stream.stop
              /\ Sound(stream) => Stands(stream, r.bs.pos[1])
         /\ Sound(stream) => r.rv # "ERR" /\ ~ CutOff
<1> DEFINE limit == Limit(w, parser_bs)
           done == Eof(w, parser_bs)
           s == stream
           bs == parser_bs
<1>1. ~ parsing_done /\ At({"parse"}) = {w} /\ job[w] = parser_bs
  BY ParserIsMaster
<1>2. Nums /\ Buffers /\ StreamOK(stream) /\ stream.stop \in Nat /\ stream.len \in Nat
  BY MasterParts, ReadTyped
<1>3. PlaceOK(stream, parser_bs, tail_offs) /\ parser_bs.offset \in Nat /\ p \in Nat
  BY <1>1, MasterWorking
<1>4. /\ limit \in Nat /\ limit <= tail_offs /\ done \in BOOLEAN
  BY <1>1, <1>2, <1>3, ReaderLimit
<1>5. r = Parse(s, bs, limit, done)
  BY <1>1 DEF Parsed
<1>6. done => eof /\ limit = tail_offs
  <2>1. ReadsFrom(job[w], blk[w], tail_offs)
    BY <1>2 DEF Buffers, InputInHand
  <2> QED
    BY <1>1, <2>1 DEF Eof, Limit, ReadsFrom
<1>7. tail_offs \in Nat
  BY DEF ReadTypes
<1>8. stream.intact \/ p < stream.stop
  BY <1>1 DEF ParseInv
<1>9. stream.stop <= stream.len => ~ CutOff
  BY <1>1, <1>2, CutOffTells
<1>10. ~ CutOff /\ stream.stop <= 2 * tail_offs => stream.stop <= stream.len
  BY <1>1, <1>2, CutOffTells
<1>11. done => stream.len <= 2 * tail_offs
  BY <1>1, <1>6, AllRead
<1>12. Sound(stream) => stream.intact /\ stream.stop <= stream.len /\ Stands(stream, p)
  <2>1. At({"parse"}) # {}
    BY <1>1
  <2> QED
    BY <1>1, <2>1 DEF Sound, ParseInv
<1>13. r.rv = "MORE" => p <= r.bs.pos[1]
  BY ParserReturns
<1> HIDE DEF limit, done, s, bs
<1>14. StreamOK(s) /\ (s.intact \/ p < s.stop) /\ p = bs.pos[1]
  BY <1>2, <1>8 DEF s, bs
<1>15. /\ r.rv = "FINISH" =>
            s.intact /\ s.stop <= 2 * limit /\ \A v \in RealBases(s) : v <= p
       /\ r.rv = "MORE" /\ p <= r.bs.pos[1] =>
            /\ s.intact \/ r.bs.pos[1] < s.stop
            /\ s.intact /\ Stands(s, p) => Stands(s, r.bs.pos[1])
       /\ s.intact /\ Stands(s, p) /\ (done => s.stop <= 2 * limit) => r.rv # "ERR"
  BY <1>3, <1>4, <1>5, <1>14, ParseStands
<1>16. Sound(stream) => (done => stream.stop <= 2 * limit)
  BY <1>2, <1>6, <1>7, <1>11, <1>12
<1>17. r.rv = "FINISH" => stream.stop <= 2 * tail_offs
  BY <1>2, <1>4, <1>7, <1>15 DEF s
<1> QED
  BY <1>3, <1>9, <1>10, <1>12, <1>13, <1>15, <1>16, <1>17 DEF s

(* The retriever of a sound block stops where the block ends.              *)
LEMMA RetrieveStops ==
  ASSUME NEW b, NEW bs, NEW limit, b.defect = "none",
         NEW r \in Retrieve(b, bs, limit, FALSE), r.rv = "OVER"
  PROVE  r.bs.pos[1] = b.stop
BY DEF Retrieve, BitsAt

LEMMA RetrieverEnds ==
  ASSUME MasterInv, ReadTypes, ReadInv, ~ parsing_done, Sound(stream),
         NEW w \in Workers, pc[w] = "retrieve", NEW u, u = job[w].base, u \in RealBases(stream),
         NEW r \in Retrieved(w), r.rv = "OVER"
  PROVE  r.bs.pos[1] = Pattern(stream, u).stop
<1> DEFINE rb == job[w]
           b == Pattern(stream, u)
           done == Eof(w, rb)
<1>1. StreamOK(stream) /\ Nums /\ Buffers /\ stream.stop \in Nat /\ stream.len \in Nat
  BY MasterParts, ReadTyped
<1>2. JobOK(stream, rb, tail_offs) /\ rb.offset \in Nat
  BY RetrieverReturns
<1>3. rb.offset <= b.need
  BY <1>2 DEF JobOK
<1>4. b.stop \in Nat /\ b.stop + 5 <= stream.stop
  BY <1>1, RealEnds
<1>5. b \in ToSet(stream.blocks) /\ b.defect = "none"
  <2>1. b \in ToSet(stream.blocks)
    <3>1. PICK i \in 1 .. Len(stream.blocks) : stream.blocks[i] = b
      BY <1>1, RealOf
    <3>2. stream.blocks \in Seq(PatternType)
      BY <1>1 DEF StreamOK
    <3> QED
      BY <3>1, <3>2, ToSetOf
  <2> QED
    BY <2>1 DEF Sound
<1>6. b.need \in Words(b.stop) .. Words(b.stop) + 1
  <2>1. b \in Patterns(stream)
    BY <1>5 DEF Patterns
  <2> QED
    BY <1>1, <2>1 DEF StreamOK, BlockOK
<1>7. stream.stop <= stream.len
  BY DEF Sound
<1>8. ASSUME done PROVE FALSE
  <2>1. ReadsFrom(rb, blk[w], tail_offs)
    BY <1>1 DEF Buffers, InputInHand
  <2>2. eof /\ rb.offset = tail_offs
    BY <1>8, <2>1 DEF Eof, ReadsFrom
  <2>3. stream.len <= 2 * tail_offs
    BY <2>2, AllRead
  <2> DEFINE z == b.stop
             wd == Words(b.stop)
             need == b.need
             o == tail_offs
             len == stream.len
             last == stream.stop
  <2>4. wd \in Nat /\ 2 * wd <= z + 1
    BY <1>4, WordsOf
  <2>5. /\ o <= need /\ need \in wd .. wd + 1 /\ len <= 2 * o /\ last <= len /\ z + 5 <= last
        /\ o \in Nat /\ len \in Nat /\ last \in Nat /\ z \in Nat
    BY <1>1, <1>2, <1>3, <1>4, <1>6, <1>7, <2>2, <2>3
  <2> HIDE DEF z, wd, need, o, len, last
  <2> QED
    BY <2>4, <2>5
<1>9. done = FALSE
  BY <1>8 DEF Eof
<1> HIDE DEF b, done
<1>10. r \in Retrieve(b, BitsAt(job[w].pos[1], job[w].offset), Limit(w, job[w]), FALSE)
  BY <1>9 DEF Retrieved, b, done
<1> QED
  BY <1>5, <1>10, RetrieveStops DEF b

(* While the parser stays where it is.                                     *)
LEMMA PlaceRests ==
  ASSUME ParseInv, UNCHANGED <<stream, parsing_done, parser_bs>>,
         parse_token' \/ At({"parse"})' # {} => parse_token \/ At({"parse"}) # {},
         ~ parsing_done /\ Sound(stream) => AheadEnds'
  PROVE  ParseInv'
<1>1. CASE parsing_done
  BY <1>1 DEF ParseInv
<1>2. CASE ~ parsing_done
  <2>1. /\ stream.intact \/ parser_bs.pos[1] < stream.stop
        /\ Sound(stream) => (parse_token \/ At({"parse"}) # {} => Stands(stream, parser_bs.pos[1]))
    BY <1>2 DEF ParseInv
  <2> QED
    BY <1>2, <2>1 DEF ParseInv
<1> QED
  BY <1>1, <1>2

LEMMA PlaceMoves ==
  ASSUME ~ parsing_done', UNCHANGED stream, NEW bs, parser_bs' = bs,
         stream.intact \/ bs.pos[1] < stream.stop,
         Sound(stream) => AheadEnds' /\ (parse_token' \/ At({"parse"})' # {} => Stands(stream, bs.pos[1]))
  PROVE  ParseInv'
BY DEF ParseInv

LEMMA AheadKeeps ==
  ASSUME ParseInv, ~ parsing_done, Sound(stream), UNCHANGED stream,
         \A u \in ReadAhead' : u \in ReadAhead /\ ublk'[u].end_pos = ublk[u].end_pos
  PROVE  AheadEnds'
<1>1. AheadEnds
  BY DEF ParseInv
<1> QED
  BY <1>1 DEF AheadEnds

LEMMA AheadSame ==
  ASSUME ParseInv, ~ parsing_done, Sound(stream), UNCHANGED <<stream, unord_q, ublk>>
  PROVE  AheadEnds'
<1>1. ReadAhead' = ReadAhead
  BY DEF ReadAhead, Bases
<1> QED
  BY <1>1, AheadKeeps

(* Steps in which neither the parser nor what was read ahead plays a part. *)
LEMMA PlaceSame ==
  ASSUME ParseInv, At({"parse"})' \subseteq At({"parse"}),
         UNCHANGED <<stream, unord_q, ublk, parse_token, parsing_done, parser_bs>>
  PROVE  ParseInv'
BY PlaceRests, AheadSame

LEMMA DoParsePlace ==
  ASSUME ParseInv, NEW w \in Workers, DoParse(w), CountInv
  PROVE  ParseInv'
<1>1. can_parse
  BY TaskReady DEF CountInv, DoParse, AtTask
<1>2. /\ ~ parsing_done /\ parse_token
      /\ UNCHANGED <<stream, unord_q, ublk, parsing_done, parser_bs>>
  BY <1>1 DEF can_parse, DoParse, unordVars
<1> QED
  BY <1>2, PlaceRests, AheadSame

LEMMA ParseMorePlace ==
  ASSUME CountInv, MasterInv, ReadTypes, ReadInv, ParseInv, NEW w \in Workers, ParseMore(w)
  PROVE  ParseInv'
<1> DEFINE r == Parsed(w)
<1>1. /\ pc[w] = "parse" /\ r.rv = "MORE" /\ parser_bs' = r.bs
      /\ UNCHANGED <<stream, unord_q, ublk, parsing_done>>
  BY DEF ParseMore, ParseReturns, Advance, ReleaseRefs, unordVars
<1>2. ~ parsing_done
  BY <1>1, ParserIsMaster
<1>3. /\ stream.intact \/ r.bs.pos[1] < stream.stop
      /\ Sound(stream) => Stands(stream, r.bs.pos[1])
  BY <1>1, ParserEnds
<1> QED
  BY <1>1, <1>2, <1>3, AheadSame, PlaceMoves

LEMMA ParseFinishPlace ==
  ASSUME CountInv, MasterInv, ReadTypes, ReadInv, ParseInv, NEW w \in Workers, ParseFinish(w)
  PROVE  ParseInv'
<1> DEFINE r == Parsed(w)
           z == stream.stop
<1>1. /\ pc[w] = "parse" /\ r.rv = "FINISH" /\ ~ CutOff /\ parser_bs' = BitsAt(z, Words(z))
      /\ parsing_done' = TRUE /\ UNCHANGED stream
  BY DEF ParseFinish, ParseReturns, ReleaseRefs
<1>2. stream.intact /\ z <= stream.len
  BY <1>1, ParserEnds
<1>3. StreamOK(stream) /\ z \in Nat /\ Words(z) \in Nat
  BY ReadTyped, WordsOf
<1>4. \A u \in RealBases(stream) : u <= z
  <2>1. ASSUME NEW u \in RealBases(stream) PROVE u <= z
    <3>1. u \in Nat /\ Pattern(stream, u).stop \in Nat /\ u < Pattern(stream, u).stop
          /\ Pattern(stream, u).stop + 5 <= z
      BY <1>3, RealEnds
    <3> QED
      BY <1>3, <3>1
  <2> QED
    BY <2>1
<1>5. parser_bs'.pos[1] = z
  BY <1>1, <1>3, BitsAtOf
<1> QED
  BY <1>1, <1>2, <1>4, <1>5 DEF ParseInv

LEMMA FoundPlace ==
  ASSUME CountInv, MasterInv, ReadTypes, ParseInv, NEW w \in Workers, NEW u, NEW bs, BlockFound(w, u, bs)
  PROVE  ParseInv'
<1>1. /\ ~ parsing_done /\ ~ parsing_done' /\ pc[w] = "parse" /\ Step(w, "loop") /\ UNCHANGED stream
      /\ u \in RealBases(stream) /\ parser_bs' = bs /\ Within(stream, bs, u)
      /\ Bases(unord_q') = {v \in Bases(unord_q) : u < v}
      /\ \A x \in Bases(unord_q) : u < x => ublk'[x] = ublk[x]
      /\ IF u \in ReadAhead THEN bs = ublk[u].end_pos ELSE parse_token' = FALSE
  BY DEF BlockFound
<1>2. At({"parse"})' = {}
  <2>1. At({"parse"}) = {w}
    BY <1>1, ParserIsMaster
  <2> QED
    BY <1>1, <2>1 DEF At, Step
<1>3. StreamOK(stream) /\ stream.stop \in Nat
  BY ReadTyped
<1>4. /\ Pattern(stream, u).stop \in Nat /\ Pattern(stream, u).stop + 5 <= stream.stop
      /\ Stands(stream, Pattern(stream, u).stop)
  BY <1>1, <1>3, RealEnds
<1>5. bs.pos[1] < stream.stop
  BY <1>1, <1>3, <1>4 DEF Within
<1>6. Sound(stream) => AheadEnds'
  <2>1. \A x \in ReadAhead' : x \in ReadAhead /\ ublk'[x].end_pos = ublk[x].end_pos
    BY <1>1 DEF ReadAhead, Bases
  <2> QED
    BY <1>1, <2>1, AheadKeeps
<1>7. Sound(stream) /\ parse_token' => Stands(stream, bs.pos[1])
  <2>1. Sound(stream) /\ u \in ReadAhead => bs.pos[1] = Pattern(stream, u).stop
    BY <1>1 DEF ParseInv, AheadEnds
  <2> QED
    BY <1>1, <1>4, <2>1
<1> QED
  BY <1>1, <1>2, <1>5, <1>6, <1>7, PlaceMoves

LEMMA RetrieveMoreAsMasterPlace ==
  ASSUME CountInv, MasterInv, ReadTypes, ParseInv, NEW w \in Workers, RetrieveMoreAsMaster(w)
  PROVE  ParseInv'
<1> DEFINE u == job[w].base
<1>1. PICK r \in Retrieved(w) :
        /\ pc[w] = "retrieve" /\ ~ InVain(job[w]) /\ IsMaster(job[w])
        /\ parser_bs' = r.bs /\ job' = [job EXCEPT ![w] = NULL] /\ Moves(w, "loop")
        /\ UNCHANGED <<stream, unord_q, ublk, parse_token, parsing_done>>
  BY DEF RetrieveMoreAsMaster, RetrieveReturns, Advance, ReleaseRefs, unordVars, Moves, WorkerStates
<1>2. DOMAIN job = Workers /\ ~ parsing_done
  BY <1>1, MasterParts DEF InVain
<1>3. /\ u \in RealBases(stream) /\ At({"parse"}) = {} /\ parse_token = FALSE
      /\ Within(stream, r.bs, u)
  BY <1>1, <1>2, MasterComesTo
<1>4. Step(w, "loop")
  <2>1. job' = [job EXCEPT ![w] = job'[w]]
    BY <1>1, <1>2
  <2> QED
    BY <1>1, <1>2, <2>1, MovesStep
<1>5. At({"parse"})' = {}
  BY <1>3, <1>4 DEF At, Step
<1>6. r.bs.pos[1] < stream.stop
  <2>1. StreamOK(stream) /\ stream.stop \in Nat
    BY ReadTyped
  <2>2. Pattern(stream, u).stop \in Nat /\ Pattern(stream, u).stop + 5 <= stream.stop
    BY <1>3, <2>1, RealEnds
  <2> QED
    BY <1>3, <2>1, <2>2 DEF Within
<1> QED
  BY <1>1, <1>2, <1>3, <1>5, <1>6, AheadSame, PlaceMoves

LEMMA RetrieveOverAsMasterPlace ==
  ASSUME CountInv, MasterInv, ReadTypes, ReadInv, ParseInv, NEW w \in Workers, RetrieveOverAsMaster(w)
  PROVE  ParseInv'
<1> DEFINE u == job[w].base
<1>1. PICK r \in Retrieved(w) :
        /\ pc[w] = "retrieve" /\ ~ InVain(job[w]) /\ IsMaster(job[w]) /\ r.rv = "OVER"
        /\ parser_bs' = r.bs
        /\ ublk' = [x \in DOMAIN ublk \ {job[w].link} |-> ublk[x]]
        /\ UNCHANGED <<stream, unord_q, parsing_done>>
  BY DEF RetrieveOverAsMaster, RetrieveReturns, Advance, ReleaseRefs
<1>2. ~ parsing_done /\ StreamOK(stream) /\ stream.stop \in Nat
  BY <1>1, ReadTyped DEF InVain
<1>3. /\ u \in RealBases(stream) /\ Within(stream, r.bs, u)
      /\ Judged(stream, job[w], Bases(unord_q), ublk, parser_bs.pos[1])
  BY <1>1, <1>2, MasterComesTo
<1>4. Sound(stream) => AheadEnds'
  <2>1. Work(stream, Jobs, Bases(unord_q), ublk, parser_bs.pos[1], tail_offs)
    BY <1>2, MasterWorking
  <2>2. job[w].link \notin Bases(unord_q)
    <3>1. job[w] \in Jobs
      BY <1>1 DEF Jobs, InHand, At
    <3>2. job[w].link # NULL => job[w].link = u
      BY <1>2, <2>1, <3>1, WorkTypes
    <3>3. \A x \in Bases(unord_q) : x \in Nat
      BY <1>2, <2>1, WorkTypes
    <3> QED
      BY <1>3, <3>2, <3>3, NullAssumption DEF Judged
  <2>3. ASSUME NEW x \in Bases(unord_q) PROVE ublk'[x] = ublk[x]
    <3>1. x \in DOMAIN ublk
      BY <1>2, <2>1, WorkTypes
    <3> QED
      BY <1>1, <2>2, <3>1
  <2>4. \A x \in ReadAhead' : x \in ReadAhead /\ ublk'[x].end_pos = ublk[x].end_pos
    BY <1>1, <2>3 DEF ReadAhead, Bases
  <2> QED
    BY <1>1, <1>2, <2>4, AheadKeeps
<1>5. /\ Pattern(stream, u).stop \in Nat /\ Pattern(stream, u).stop + 5 <= stream.stop
      /\ Stands(stream, Pattern(stream, u).stop)
  BY <1>2, <1>3, RealEnds
<1>6. r.bs.pos[1] < stream.stop
  BY <1>2, <1>3, <1>5 DEF Within
<1>7. Sound(stream) => Stands(stream, r.bs.pos[1])
  <2>1. Sound(stream) => r.bs.pos[1] = Pattern(stream, u).stop
    BY <1>1, <1>2, <1>3, RetrieverEnds
  <2> QED
    BY <1>5, <2>1
<1> QED
  BY <1>1, <1>2, <1>4, <1>6, <1>7, PlaceMoves

LEMMA StepsAside ==
  ASSUME CountInv, NEW w \in Workers, NEW t, t # "parse", DOMAIN job = Workers,
         job' = [job EXCEPT ![w] = job'[w]],
         Moves(w, t)
  PROVE  At({"parse"})' \subseteq At({"parse"})
<1>1. Step(w, t)
  BY MovesStep
<1> QED
  BY <1>1 DEF At, Step

(* A retriever ahead of the parser comes to bs: to the end, if over.       *)
LEMMA AheadNotes ==
  ASSUME CountInv, MasterInv, ReadTypes, ReadInv, ParseInv, ~ parsing_done, NEW w \in Workers,
         pc[w] = "retrieve", ~ InVain(job[w]), ~ IsMaster(job[w]),
         NEW r \in Retrieved(w), NEW u, u = job[w].base,
         UNCHANGED <<stream, unord_q, parse_token, parsing_done, parser_bs>>,
         \A x \in Bases(unord_q) : x # u => ublk'[x] = ublk[x],
         (~ ublk'[u].complete) \/ (r.rv = "OVER" /\ ublk'[u].end_pos = r.bs),
         At({"parse"})' \subseteq At({"parse"})
  PROVE  ParseInv'
<1>1. Sound(stream) => AheadEnds'
  <2>1. ASSUME Sound(stream), NEW x \in ReadAhead'
        PROVE  ublk'[x].end_pos.pos[1] = Pattern(stream, x).stop
    <3>1. x \in Bases(unord_q) /\ x \in RealBases(stream) /\ ublk'[x].complete
      BY DEF ReadAhead, Bases
    <3>2. CASE x = u
      BY <2>1, <3>1, <3>2, RetrieverEnds
    <3>3. CASE x # u
      <4>1. ublk'[x] = ublk[x] /\ x \in ReadAhead
        BY <3>1, <3>3 DEF ReadAhead
      <4> QED
        BY <2>1, <4>1 DEF ParseInv, AheadEnds
    <3> QED
      BY <3>2, <3>3
  <2> QED
    BY <2>1 DEF AheadEnds
<1> QED
  BY <1>1, PlaceRests

LEMMA RetrieveAheadPlace ==
  ASSUME CountInv, MasterInv, ReadTypes, ReadInv, ParseInv, NEW w \in Workers,
         RetrieveMoreAhead(w) \/ RetrieveOverAhead(w)
  PROVE  ParseInv'
<1> DEFINE u == job[w].base
<1>1. PICK r \in Retrieved(w), t \in {"loop", "decode"} :
        /\ pc[w] = "retrieve" /\ ~ InVain(job[w]) /\ ~ IsMaster(job[w])
        /\ \/ ublk' = [ublk EXCEPT ![job[w].link].end_pos = r.bs]
           \/ /\ r.rv = "OVER"
              /\ ublk' = [ublk EXCEPT ![job[w].link].end_pos = r.bs, ![job[w].link].complete = TRUE]
        /\ job' = [job EXCEPT ![w] = IF t = "loop" THEN NULL ELSE [pos |-> <<u, 0>>]] /\ Moves(w, t)
        /\ UNCHANGED <<stream, unord_q, parse_token, parsing_done, parser_bs>>
  <2>1. CASE RetrieveMoreAhead(w)
    BY <2>1 DEF RetrieveMoreAhead, RetrieveReturns, Detach, ReleaseRefs, Moves, WorkerStates
  <2>2. CASE RetrieveOverAhead(w)
    BY <2>2 DEF RetrieveOverAhead, RetrieveReturns, Detach, ReleaseRefs, ToDecode, Moves, WorkerStates
  <2> QED
    BY <2>1, <2>2
<1>2. DOMAIN job = Workers /\ ~ parsing_done
  BY <1>1, MasterParts DEF InVain
<1>3. Ahead(w, job[w], MovedTo(job[w], r.bs), r.bs)
  BY <1>1, <1>2, AheadRetrieves
<1>4. job[w].link = u /\ u \in DOMAIN ublk /\ ublk[u] \in UnordBlk /\ ublk[u].complete = FALSE
  BY <1>3 DEF Ahead
<1>5. \A x \in Bases(unord_q) : x # u => ublk'[x] = ublk[x]
  <2>1. Work(stream, Jobs, Bases(unord_q), ublk, parser_bs.pos[1], tail_offs) /\ StreamOK(stream)
    BY <1>2, MasterWorking, MasterParts
  <2>2. \A x \in Bases(unord_q) : x \in DOMAIN ublk
    BY <2>1, WorkTypes
  <2> QED
    BY <1>1, <1>4, <2>2
<1>6. (~ ublk'[u].complete) \/ (r.rv = "OVER" /\ ublk'[u].end_pos = r.bs)
  BY <1>1, <1>4 DEF UnordBlk
<1>7. At({"parse"})' \subseteq At({"parse"})
  <2>1. job' = [job EXCEPT ![w] = job'[w]]
    BY <1>1, <1>2
  <2> QED
    BY <1>1, <1>2, <2>1, StepsAside
<1> HIDE DEF u
<1> QED
  BY <1>1, <1>2, <1>5, <1>6, <1>7, AheadNotes DEF u

LEMMA ScanReturnsPlace ==
  ASSUME CountInv, MasterInv, ParseInv, NEW w \in Workers,
         ScanNothing(w) \/ ScanKnown(w) \/ ScanUnique(w)
  PROVE  ParseInv'
<1>1. ScanReturns(w) /\ Return(w)
  BY DEF ScanNothing, ScanKnown, ScanUnique
<1>2. /\ pc[w] = "scan" /\ Step(w, "loop")
      /\ UNCHANGED <<stream, parser_bs, parse_token, parsing_done>>
  BY <1>1, ScannerDetaches
<1>3. At({"parse"})' \subseteq At({"parse"})
  BY <1>2 DEF At, Step
<1>4. CASE ScanNothing(w) \/ ScanKnown(w)
  <2>1. UNCHANGED <<unord_q, ublk>>
    BY <1>4 DEF ScanNothing, ScanKnown, unordVars
  <2> QED
    BY <1>2, <1>3, <2>1, PlaceSame
<1>5. CASE ScanUnique(w)
  <2> DEFINE bs == Scanned(w).bs
             e == [pos |-> bs.pos]
  <2>1. /\ ~ parsing_done /\ Scanned(w).rv = "OK" /\ unord_q' = enqueue(unord_q, e)
        /\ ublk' = [x \in DOMAIN ublk \cup {bs.pos[1]} |->
                      IF x = bs.pos[1]
                      THEN [end_pos |-> bs, complete |-> FALSE, legitimate |-> FALSE]
                      ELSE ublk[x]]
    BY <1>5 DEF ScanUnique
  <2>2. PICK u \in Nat : FoundAt(w, u)
    BY <1>2, <2>1, ScannerReturns
  <2>3. bs.pos = <<u, 0>> /\ bs.pos[1] = u
    <3>1. u \in Nat /\ Words(u) \in Nat
      BY <2>2, WordsOf
    <3> QED
      BY <2>2, <3>1, BitsAtOf DEF FoundAt
  <2> HIDE DEF bs
  <2>4. ublk'[u].complete = FALSE /\ \A x \in DOMAIN ublk : x # u => ublk'[x] = ublk[x]
    BY <2>1, <2>3
  <2>5. /\ Work(stream, Jobs, Bases(unord_q), ublk, parser_bs.pos[1], tail_offs)
        /\ unord_q \in Seq(UnordPos) /\ StreamOK(stream)
    BY <2>1, MasterWorking, MasterParts
  <2>6. \A x \in Bases(unord_q) : x \in DOMAIN ublk
    BY <2>5, WorkTypes
  <2>7. Bases(unord_q') = Bases(unord_q) \cup {u}
    <3>1. e \in UnordPos /\ e.pos[1] = u
      BY <2>3 DEF UnordPos, UnitPos
    <3> HIDE DEF e
    <3>2. ToSet(enqueue(unord_q, e)) = ToSet(unord_q) \cup {e}
      BY <2>5, <3>1, EnqueuedSet
    <3> QED
      BY <2>1, <3>1, <3>2 DEF Bases
  <2>8. \A x \in ReadAhead' : x \in ReadAhead /\ ublk'[x].end_pos = ublk[x].end_pos
    BY <1>2, <2>4, <2>6, <2>7 DEF ReadAhead, Bases
  <2> QED
    BY <1>2, <1>3, <2>1, <2>8, PlaceRests, AheadKeeps
<1> QED
  BY <1>4, <1>5

(* Who neither parses nor begins to, and leaves the parser and unord_q.    *)
LEMMA AsidePlace ==
  ASSUME CountInv, MasterInv, ParseInv, NEW w \in Workers, NEW t, t # "parse",
         job' = [job EXCEPT ![w] = job'[w]], Moves(w, t),
         UNCHANGED <<stream, unord_q, ublk, parse_token, parsing_done, parser_bs>>
  PROVE  ParseInv'
<1>1. DOMAIN job = Workers
  BY MasterParts
<1> QED
  BY <1>1, StepsAside, PlaceSame

LEMMA WorkerPlace ==
  ASSUME CountInv, MasterInv, ReadTypes, ReadInv, ParseInv, NEW w \in Workers, Worker(w)
  PROVE  ParseInv'
<1>1. CASE \/ /\ WorkerEnter(w) \/ WorkerWait(w, can_terminate) \/ WorkerExit(w, can_terminate)
              /\ UNCHANGED jobVars
           \/ ParseFail(w) \/ ReorderFail(w) \/ RejectBogus(w) \/ DoReorder(w)
  <2>1. UNCHANGED <<stream, unord_q, ublk, parse_token, parsing_done, parser_bs>>
    BY <1>1 DEF ParseFail, ReorderFail, Fail, RejectBogus, DoReorder, jobVars, unordVars, parserVars
  <2>2. At({"parse"})' \subseteq At({"parse"})
    BY <1>1 DEF WorkerEnter, WorkerWait, WorkerExit, ParseFail, ReorderFail, Fail, RejectBogus,
       DoReorder, AtTask, CountInv, CountsOK, At
  <2> QED
    BY <2>1, <2>2, PlaceSame
<1>2. CASE Parsing(w) /\ ~ ParseFail(w)
  BY <1>2, DoParsePlace, ParseMorePlace, ParseFinishPlace, ParseUniqueFinds, ParseTakenFinds,
     FoundPlace DEF Parsing
<1>3. CASE \/ RetrieveMoreAsMaster(w) \/ RetrieveMoreAhead(w)
           \/ RetrieveOverAsMaster(w) \/ RetrieveOverAhead(w)
  BY <1>3, RetrieveMoreAsMasterPlace, RetrieveAheadPlace, RetrieveOverAsMasterPlace
<1>4. CASE DoRetrieve(w) \/ RetrieveAbort(w) \/ Decoded(w) \/ DoEmit(w) \/ Emitted(w) \/ DoScan(w)
  <2>1. UNCHANGED <<stream, unord_q, ublk, parse_token, parsing_done, parser_bs>>
    BY <1>4 DEF DoRetrieve, RetrieveAbort, Detach, ReleaseRefs, Decoded, DoEmit, Emitted, DoScan,
       unordVars, parserVars
  <2>2. \E t \in {"retrieve", "loop", "emit", "scan"} : Moves(w, t)
    BY <1>4 DEF DoRetrieve, RetrieveAbort, Decoded, DoEmit, Emitted, DoScan, Moves, WorkerStates
  <2>3. job' = [job EXCEPT ![w] = job'[w]]
    BY <1>4, MasterParts DEF DoRetrieve, RetrieveAbort, Decoded, DoEmit, Emitted, DoScan
  <2> QED
    BY <2>1, <2>2, <2>3, AsidePlace
<1>5. CASE ScanNothing(w) \/ ScanKnown(w) \/ ScanUnique(w)
  BY <1>5, ScanReturnsPlace
<1> QED
  BY <1>1, <1>2, <1>3, <1>4, <1>5 DEF Worker, Parsing, Retrieving

LEMMA NextPlace ==
  ASSUME CountInv, MasterInv, ReadTypes, ReadInv, ParseInv, [Next]_vars
  PROVE  ParseInv'
<1>1. CASE Source \/ Sink \/ Primary \/ Spurious \/ UNCHANGED vars
  <2>1. UNCHANGED <<stream, unord_q, ublk, parse_token, parsing_done, parser_bs>>
    <3>1. CASE OnInputAvail
      BY <3>1 DEF OnInputAvail, unordVars, parserVars
    <3>2. CASE UNCHANGED jobVars
      BY <3>2 DEF jobVars, unordVars, parserVars
    <3> QED
      BY <1>1, <3>1, <3>2 DEF Source, InputRefused, InputEnds, Sink, OnWriteComplete, Primary, Killed,
         Spurious, vars
  <2>2. UnitsStay
    <3>1. CASE Unlock(pc)
      BY <3>1, UnlockInPlace DEF CountInv, UnitsStay
    <3>2. CASE pc' = pc
      BY <3>2 DEF UnitsStay
    <3>3. CASE \E v \in Waiting(pc) : pc' = [pc EXCEPT ![v] = "enter"]
      BY <3>3 DEF Waiting, CountInv, CountsOK, UnitStates, UnitsStay
    <3> QED
      BY <1>1, <3>1, <3>2, <3>3 DEF Source, OnInputAvail, InputRefused, InputEnds, SourceOnly,
         SourceStall, SourceTakeSlot, SourceClosed, SourceRead, Sink, OnWriteComplete, SinkOnly,
         SinkStall, SinkTake, SinkWrite, SinkExit, Primary, Killed, PrimaryOnly, JoinWorkersAndSource,
         JoinSink, Spurious, SpuriousWakeup, vars, procVars, schedVars
  <2>3. At({"parse"})' \subseteq At({"parse"})
    BY <2>2 DEF UnitsStay, At, UnitStates
  <2> QED
    BY <2>1, <2>3, PlaceSame
<1>2. ASSUME NEW w \in Workers, Worker(w) PROVE ParseInv'
  BY <1>2, WorkerPlace
<1> QED
  BY <1>1, <1>2 DEF Next, Over

LEMMA InitPlace == Init => ParseInv
<1> SUFFICES ASSUME Init PROVE ParseInv
  OBVIOUS
<1>1. /\ StreamOK(stream) /\ ~ parsing_done /\ unord_q = <<>> /\ parser_bs = bits_init(0)
  BY ExpansionAssumption DEF Init
<1>2. parser_bs.pos[1] = 0
  BY <1>1, BitsAtOf DEF bits_init
<1>3. stream.stop \in Nat /\ TrailerFrom(stream) \in Nat /\ TrailerFrom(stream) + 5 <= stream.stop
  BY <1>1, BlocksAre
<1>4. Stands(stream, 0)
  <2>1. /\ stream.blocks \in Seq(PatternType) /\ stream.garbage \in 1 .. 2
    BY <1>1 DEF StreamOK
  <2>2. CASE Len(stream.blocks) = 0
    <3>1. TrailerFrom(stream) = 0
      BY <2>2 DEF TrailerFrom, From
    <3> QED
      BY <1>3, <2>1, <3>1 DEF Stands
  <2>3. CASE Len(stream.blocks) # 0
    <3>1. 1 \in 1 .. Len(stream.blocks) /\ From(stream, 1) = 0
      BY <2>1, <2>3 DEF From
    <3>2. stream.blocks[1].base \in Nat /\ From(stream, 1) + 5 <= stream.blocks[1].base
      BY <1>1, <3>1, BlocksAre
    <3> QED
      BY <3>1, <3>2 DEF Stands
  <2> QED
    BY <2>2, <2>3
<1>5. ReadAhead = {}
  BY <1>1 DEF ReadAhead, Bases, ToSet
<1> QED
  BY <1>1, <1>2, <1>3, <1>4, <1>5 DEF ParseInv, AheadEnds

(***************************************************************************)
(* Who fails, fails for a reason.                                          *)
(***************************************************************************)
LEMMA DamagedIs ==
  ASSUME NEW u \in RealBases(stream), StreamOK(stream), NEW pos, pos[1] = u, Damaged(pos)
  PROVE  ~ Sound(stream)
<1>1. Pattern(stream, u).defect # "none"
  BY DEF Damaged
<1>2. PICK i \in 1 .. Len(stream.blocks) : stream.blocks[i] = Pattern(stream, u)
  BY RealOf
<1>3. stream.blocks[i] \in ToSet(stream.blocks)
  BY <1>2, BlocksAre
<1> QED
  BY <1>1, <1>2, <1>3 DEF Sound

LEMMA NextFail ==
  ASSUME CountInv, MasterInv, ChunkInv, ReadTypes, ReadInv, ParseInv, FailInv, [Next]_vars
  PROVE  FailInv'
<1>1. CASE UNCHANGED <<stream, failed>>
  BY <1>1 DEF FailInv, Sound
<1>2. ASSUME NEW w \in Workers, ParseFail(w) PROVE FailInv'
  <2>1. (Parsed(w).rv = "ERR" \/ CutOff) /\ UNCHANGED stream
    BY <1>2 DEF ParseFail, Fail
  <2>2. pc[w] = "parse"
    BY <1>2 DEF ParseFail
  <2>3. ~ Sound(stream)
    BY <2>1, <2>2, ParserEnds
  <2> QED
    BY <2>1, <2>3 DEF FailInv, Sound
<1>3. ASSUME NEW w \in Workers, ReorderFail(w) PROVE FailInv'
  <2>1. can_reorder /\ ~ Bogus(peek(reord_q).pos) /\ Damaged(peek(reord_q).pos) /\ UNCHANGED stream
    BY <1>3, TaskReady DEF ReorderFail, Fail, CountInv, AtTask
  <2>2. peek(reord_q).pos[1] \in RealBases(stream)
    BY <2>1, ReorderedIs
  <2>3. ~ Sound(stream)
    BY <2>1, <2>2, MasterParts, DamagedIs
  <2> QED
    BY <2>1, <2>3 DEF FailInv, Sound
<1>4. ASSUME NEW w \in Workers, Worker(w), ~ ParseFail(w), ~ ReorderFail(w)
      PROVE  UNCHANGED <<stream, failed>>
  <2>1. CASE \/ /\ WorkerEnter(w) \/ WorkerWait(w, can_terminate) \/ WorkerExit(w, can_terminate)
                /\ UNCHANGED jobVars
             \/ DoEmit(w) \/ Emitted(w) \/ RejectBogus(w) \/ DoReorder(w) \/ DoScan(w) \/ DoParse(w)
             \/ DoRetrieve(w) \/ Decoded(w)
    BY <2>1 DEF jobVars, DoEmit, Emitted, RejectBogus, DoReorder, DoScan, DoParse, DoRetrieve, Decoded
  <2>2. CASE \/ ParseMore(w) \/ ParseFinish(w) \/ ParseUnique(w) \/ ParseTaken(w)
             \/ RetrieveAbort(w) \/ RetrieveMoreAsMaster(w) \/ RetrieveMoreAhead(w)
             \/ RetrieveOverAsMaster(w) \/ RetrieveOverAhead(w)
             \/ ScanNothing(w) \/ ScanKnown(w) \/ ScanUnique(w)
    BY <2>2 DEF ParseMore, ParseFinish, ParseUnique, ParseTaken, BlockParsed, RetrieveAbort,
       RetrieveMoreAsMaster, RetrieveMoreAhead, RetrieveOverAsMaster, RetrieveOverAhead, ScanNothing,
       ScanKnown, ScanUnique, ScanReturns, Advance, Detach, ReleaseRefs
  <2> QED
    BY <1>4, <2>1, <2>2 DEF Worker, Parsing, Retrieving
<1>5. CASE Source \/ Sink \/ Primary \/ Spurious \/ UNCHANGED vars
  <2>1. UNCHANGED <<stream, failed>>
    BY <1>5 DEF Source, OnInputAvail, InputRefused, InputEnds, Sink, OnWriteComplete, Primary, Killed,
       Spurious, vars, jobVars
  <2> QED
    BY <1>1, <2>1
<1> QED
  BY <1>1, <1>2, <1>3, <1>4, <1>5 DEF Next, Over

(***************************************************************************)
(* What is written.                                                        *)
(***************************************************************************)
LEMMA InitFail == Init => FailInv
BY DEF Init, FailInv

(* The parser has come to no block meanwhile.                              *)
LEMMA OutMoves ==
  ASSUME NEW s, NEW p, NEW p2, NEW q, NEW out, OutOf(s, p, q, out), ComeTo(s, p2) = ComeTo(s, p)
  PROVE  OutOf(s, p2, q, out)
BY DEF OutOf, SentOnly, SentAll, NextInOrder

LEMMA NoneBetween ==
  ASSUME NEW s, StreamOK(s), NEW p \in Nat, NEW p2 \in Nat, p <= p2, NoBlockUpTo(s, p, p2)
  PROVE  ComeTo(s, p2) = ComeTo(s, p)
<1>1. \A u \in RealBases(s) : u \in Nat
  BY RealOf
<1> QED
  BY <1>1 DEF ComeTo, NoBlockUpTo

(* How many of the blocks there are.                                       *)
LEMMA RealChunks ==
  ASSUME NEW s, StreamOK(s), NEW u \in RealBases(s)
  PROVE  Pattern(s, u).chunks \in Nat /\ 0 < Pattern(s, u).chunks
<1>1. Pattern(s, u) \in Patterns(s)
  BY RealOf, PatternOf
<1> QED
  BY <1>1 DEF StreamOK, BlockOK, PatternType

(* A block that is expected: nothing of it has been sent, if it is not the *)
(* first one.                                                              *)
LEMMA SentNone ==
  ASSUME NEW s, NEW q, NEW u, NEW i \in 1 .. Len(q), q[i].pos[1] = u, q[i].pos[2] = 0
  PROVE  SentOf(s, q, u) = {}
BY DEF SentOf

(* The parser has come to block u, the next one, and is within it; so the  *)
(* block is expected.                                                      *)
ComesTo(s, p, p2, q, q2, u) ==
  /\ u \in RealBases(s) /\ p < u /\ \A v \in RealBases(s) : p < v => u <= v
  /\ u <= p2 /\ p2 <= Pattern(s, u).stop
  /\ q \in Seq(ChunkAt) /\ q2 = Append(q, [pos |-> <<u, 0>>])

LEMMA OutFound ==
  ASSUME NEW s, StreamOK(s), NEW p \in Nat, NEW p2 \in Nat, NEW q, NEW q2, NEW u,
         ComesTo(s, p, p2, q, q2, u), NEW out, OutOf(s, p, q, out)
  PROVE  OutOf(s, p2, q2, out)
<1> DEFINE n == Len(q)
           e == [pos |-> <<u, 0>>]
<1>0. /\ u \in RealBases(s) /\ p < u /\ \A v \in RealBases(s) : p < v => u <= v
      /\ u <= p2 /\ p2 <= Pattern(s, u).stop
      /\ q \in Seq(ChunkAt) /\ q2 = Append(q, [pos |-> <<u, 0>>])
  BY DEF ComesTo
<1> USE <1>0
<1>1. u \in Nat /\ \A v \in RealBases(s) : v \in Nat
  BY RealOf
<1>2. ComeTo(s, p2) = ComeTo(s, p) \cup {u}
  <2>1. ASSUME NEW v \in RealBases(s), v <= p2, p < v PROVE v = u
    <3>1. ASSUME u < v PROVE FALSE
      <4>1. Pattern(s, u).stop + 5 <= v
        BY <3>1, RealOrder DEF HeaderUnits
      <4>2. Pattern(s, u).stop \in Nat
        BY RealEnds
      <4> QED
        BY <1>1, <2>1, <4>1, <4>2
    <3> QED
      BY <1>1, <2>1, <3>1
  <2>2. \A v \in RealBases(s) : v <= p2 <=> v <= p \/ v = u
    BY <1>1, <2>1
  <2> QED
    BY <2>2 DEF ComeTo
<1>3. /\ n \in Nat /\ Len(q2) = n + 1 /\ q2 \in Seq(ChunkAt)
      /\ \A i \in 1 .. n : q2[i] = q[i]
      /\ q2[n + 1] = e
  <2>1. e \in ChunkAt
    BY <1>1 DEF ChunkAt
  <2> QED
    BY <2>1
<1>4. e.pos[1] = u /\ e.pos[2] = 0
  OBVIOUS
<1>5. SentOf(s, q2, u) = {}
  <2>1. n + 1 \in 1 .. Len(q2) /\ q2[n + 1].pos[1] = u /\ q2[n + 1].pos[2] = 0
    BY <1>3, <1>4
  <2> HIDE DEF n
  <2> QED
    BY <2>1, SentNone
<1>6. u \notin ComeTo(s, p)
  BY <1>1 DEF ComeTo
<1>7. \A v \in ComeTo(s, p) : SentOf(s, q2, v) = SentOf(s, q, v)
  BY <1>3, <1>4, <1>6 DEF SentOf
<1>8. SentOnly(s, p2, q2, out)
  BY <1>2, <1>7 DEF OutOf, SentOnly
<1>9. SentAll(s, p2, q2, out)
  BY <1>2, <1>5, <1>7 DEF OutOf, SentAll
<1>10. Bases(q2) = Bases(q) \cup {u}
  <2>1. \A v : v \in Bases(q) <=> \E i \in 1 .. n : q[i].pos[1] = v
    BY QueueBases
  <2>2. \A v : v \in Bases(q2) <=> \E i \in 1 .. n + 1 : q2[i].pos[1] = v
    <3>1. \A v : v \in Bases(q2) <=> \E i \in 1 .. Len(q2) : q2[i].pos[1] = v
      BY <1>3, QueueBases
    <3> QED
      BY <1>3, <3>1
  <2>3. \A v : (\E i \in 1 .. n + 1 : q2[i].pos[1] = v) <=> (\E i \in 1 .. n : q[i].pos[1] = v) \/ u = v
    <3> HIDE DEF e, n
    <3> QED
      BY ONLY <1>3, <1>4
  <2> QED
    BY <2>1, <2>2, <2>3
<1>11. NextInOrder(s, p2, q2)
  <2>1. Bases(q2) \subseteq ComeTo(s, p2)
    BY <1>2, <1>10 DEF OutOf, NextInOrder
  <2>2. \A i \in 2 .. n + 1 : q2[i].pos[2] = 0
    BY <1>3, <1>4 DEF OutOf, NextInOrder
  <2>3. \A v \in ComeTo(s, p2) : v < q2[1].pos[1] \/ v \in Bases(q2)
    <3>1. CASE q = <<>>
      <4>1. q2[1].pos[1] = u
        BY <1>3, <1>4, <3>1
      <4> QED
        <5>1. \A v \in ComeTo(s, p2) : v = u \/ v < u
          BY <1>1, <1>2 DEF ComeTo
        <5> QED
          BY <1>10, <4>1, <5>1
    <3>2. CASE q # <<>>
      <4>1. q2[1] = q[1]
        BY <1>3, <3>2
      <4> QED
        BY <1>2, <1>10, <3>2, <4>1 DEF OutOf, NextInOrder
    <3> QED
      BY <3>1, <3>2
  <2> QED
    BY <1>3, <2>1, <2>2, <2>3 DEF NextInOrder
<1> QED
  BY <1>8, <1>9, <1>11 DEF OutOf

(* What is expected when chunk k of block u was sent: the chunk behind it, *)
(* or the next block.                                                      *)
Onward(s, q, r, u, k) ==
  /\ u = q[1].pos[1] /\ k = q[1].pos[2]
  /\ IF k + 1 = Pattern(s, u).chunks THEN r = Tail(q)
     ELSE r = <<[pos |-> <<u, k + 1>>]>> \o Tail(q)

LEMMA SentGrows ==
  ASSUME NEW s, StreamOK(s), NEW q \in Seq(ChunkAt), q # <<>>, InOrder(q), Expected(s, q), NEW r,
         NEW u, NEW k, Onward(s, q, r, u, k)
  PROVE  /\ u \in RealBases(s) /\ k \in Nat /\ r \in Seq(ChunkAt)
         /\ SentOf(s, q, u) = 0 .. k - 1 /\ SentOf(s, r, u) = 0 .. k
         /\ \A v \in RealBases(s) : v # u => SentOf(s, r, v) = SentOf(s, q, v)
<1> DEFINE n == Len(q)
           m == Pattern(s, u).chunks
           f == [pos |-> <<u, k + 1>>]
<1>0. u = q[1].pos[1] /\ k = q[1].pos[2]
  BY DEF Onward
<1>1. /\ n \in Nat /\ 1 \in 1 .. n
      /\ \A i \in 1 .. n : q[i] \in ChunkAt /\ q[i].pos[1] \in Nat /\ q[i].pos[2] \in Nat
  BY QueueBases, ToSetOf
<1>2. u \in Nat /\ k \in Nat /\ u \in RealBases(s) /\ k < m /\ m \in Nat
  <2>1. u \in RealBases(s) /\ k < m
    BY <1>0, <1>1 DEF Expected
  <2> QED
    BY <1>0, <1>1, <2>1, RealChunks
<1>3. \A i \in 1 .. n : q[i].pos[1] = u => i = 1
  BY <1>0, <1>1, <1>2 DEF InOrder
<1>4. f \in ChunkAt /\ f.pos[1] = u /\ f.pos[2] = k + 1
  BY <1>2 DEF ChunkAt
<1> HIDE DEF m, f
<1>5. CASE k + 1 = m
  <2>1. r = Tail(q)
    BY <1>5 DEF m, Onward
  <2>2. r \in Seq(ChunkAt) /\ Len(r) = n - 1 /\ \A i \in 1 .. n - 1 : r[i] = q[i + 1]
    BY <1>1, <2>1
  <2>3. \A v : (\A i \in 1 .. n - 1 : r[i].pos[1] = v => i + 1 \in 1 .. n /\ q[i + 1].pos[1] = v)
    BY <1>1, <2>2
  <2>4. \A i \in 1 .. n - 1 : r[i].pos[1] # u
    <3> SUFFICES ASSUME NEW i \in 1 .. n - 1, r[i].pos[1] = u PROVE FALSE
      OBVIOUS
    <3>1. i + 1 \in 1 .. n /\ q[i + 1].pos[1] = u
      BY <2>3
    <3>2. i + 1 = 1
      BY <1>3, <3>1
    <3> QED
      BY <3>2
  <2>5. SentOf(s, r, u) = 0 .. m - 1
    BY <2>2, <2>4 DEF SentOf, m
  <2>6. ASSUME NEW v, v # u PROVE SentOf(s, r, v) = SentOf(s, q, v)
    <3>1. \A i \in 1 .. n : q[i].pos[1] = v => i - 1 \in 1 .. n - 1 /\ r[i - 1] = q[i]
      BY <1>0, <1>1, <2>2, <2>6
    <3>2. \A i \in 1 .. n - 1 : i + 1 \in 1 .. n /\ r[i] = q[i + 1]
      BY <1>1, <2>2
    <3>3. \A j : (\A i \in 1 .. n : q[i].pos[1] = v => j < q[i].pos[2]) <=>
                 (\A i \in 1 .. n - 1 : r[i].pos[1] = v => j < r[i].pos[2])
      <4> TAKE j
      <4>1. ASSUME NEW i \in 1 .. n - 1, \A h \in 1 .. n : q[h].pos[1] = v => j < q[h].pos[2]
            PROVE  r[i].pos[1] = v => j < r[i].pos[2]
        BY <3>2, <4>1
      <4>2. ASSUME NEW i \in 1 .. n, q[i].pos[1] = v,
                   \A h \in 1 .. n - 1 : r[h].pos[1] = v => j < r[h].pos[2]
            PROVE  j < q[i].pos[2]
        <5> DEFINE h == i - 1
        <5>1. h \in 1 .. n - 1 /\ r[h] = q[i]
          BY <3>1, <4>2
        <5> HIDE DEF h
        <5> QED
          BY <4>2, <5>1
      <4> QED
        BY <4>1, <4>2
    <3> QED
      BY <2>2, <3>3 DEF SentOf
  <2>7. SentOf(s, q, u) = {j \in 0 .. m - 1 : j < k}
    BY <1>0, <1>1, <1>3 DEF SentOf, m
  <2>8. SentOf(s, q, u) = 0 .. k - 1
    BY <1>2, <2>7
  <2>9. SentOf(s, r, u) = 0 .. k
    BY <1>2, <1>5, <2>5
  <2> QED
    BY <1>2, <2>2, <2>6, <2>8, <2>9
<1>6. CASE k + 1 # m
  <2>1. r = <<f>> \o Tail(q)
    BY <1>6 DEF m, f, Onward
  <2>2. /\ r \in Seq(ChunkAt) /\ Len(r) = n
        /\ r[1] = f /\ \A i \in 1 .. n : i # 1 => r[i] = q[i]
    BY <1>1, <1>4, <2>1
  <2>3. \A i \in 1 .. n : r[i].pos[1] = u => i = 1
    BY <1>3, <2>2
  <2>4. SentOf(s, r, u) = {j \in 0 .. m - 1 : j < k + 1}
    BY <1>1, <1>2, <1>4, <2>2, <2>3 DEF SentOf, m
  <2>5. SentOf(s, q, u) = {j \in 0 .. m - 1 : j < k}
    BY <1>0, <1>1, <1>3 DEF SentOf, m
  <2>6. ASSUME NEW v, v # u PROVE SentOf(s, r, v) = SentOf(s, q, v)
    <3>1. \A j : (\A i \in 1 .. n : q[i].pos[1] = v => j < q[i].pos[2]) <=>
                 (\A i \in 1 .. n : r[i].pos[1] = v => j < r[i].pos[2])
      BY <1>0, <1>3, <1>4, <2>2, <2>3, <2>6
    <3> QED
      BY <2>2, <3>1 DEF SentOf
  <2>7. SentOf(s, q, u) = 0 .. k - 1
    BY <1>2, <2>5
  <2>8. SentOf(s, r, u) = 0 .. k
    BY <1>2, <1>6, <2>4
  <2> QED
    BY <1>2, <2>2, <2>6, <2>7, <2>8
<1> QED
  BY <1>5, <1>6

(* One more behind the others.                                             *)
LEMMA AppendOut ==
  ASSUME NEW q \in Seq(ChunkAt), NEW e \in ChunkAt
  PROVE  Append(q, e) \in Seq(ChunkAt) /\ ToSet(Append(q, e)) = ToSet(q) \cup {e}
<1> DEFINE n == Len(q)
           r == Append(q, e)
<1>1. /\ r \in Seq(ChunkAt) /\ n \in Nat /\ Len(r) = n + 1 /\ r[n + 1] = e
      /\ \A i \in 1 .. n : r[i] = q[i]
  OBVIOUS
<1>2. \A x : x \in ToSet(q) <=> \E i \in 1 .. n : q[i] = x
  BY ToSetOf
<1> HIDE DEF r
<1>3. \A x : x \in ToSet(r) <=> \E i \in 1 .. n + 1 : r[i] = x
  <2>1. \A x : x \in ToSet(r) <=> \E i \in 1 .. Len(r) : r[i] = x
    BY <1>1, ToSetOf
  <2> QED
    BY <1>1, <2>1
<1>4. \A x : (\E i \in 1 .. n + 1 : r[i] = x) <=> (\E i \in 1 .. n : q[i] = x) \/ x = e
  BY <1>1
<1>5. ToSet(r) = ToSet(q) \cup {e}
  BY <1>2, <1>3, <1>4
<1> QED
  BY <1>1, <1>5 DEF r

LEMMA AppendSorted ==
  ASSUME NEW q \in Seq(ChunkAt), Sorted(q), NEW e \in ChunkAt, \A x \in ToSet(q) : pos_lt(x.pos, e.pos)
  PROVE  Sorted(Append(q, e))
<1> DEFINE r == Append(q, e)
           n == Len(q)
<1>1. /\ n \in Nat /\ Len(r) = n + 1 /\ r[n + 1] = e
      /\ \A i \in 1 .. n : r[i] = q[i]
  OBVIOUS
<1>2. \A i \in 1 .. n : pos_lt(q[i].pos, e.pos)
  BY ToSetOf
<1> HIDE DEF r, n
<1>3. ASSUME NEW i \in 1 .. n + 1, NEW j \in 1 .. n + 1, i < j PROVE pos_lt(r[i].pos, r[j].pos)
  <2>1. i \in 1 .. n /\ r[i] = q[i]
    BY <1>1, <1>3
  <2>2. CASE j = n + 1
    BY <1>1, <1>2, <2>1, <2>2
  <2>3. CASE j # n + 1
    <3>1. j \in 1 .. n /\ r[j] = q[j]
      BY <1>1, <1>3, <2>3
    <3> QED
      BY <1>3, <2>1, <3>1 DEF Sorted, n
  <2> QED
    BY <2>2, <2>3
<1> QED
  BY <1>1, <1>3 DEF Sorted, r

(* What has been sent is before what is expected.                          *)
LEMMA SentBefore ==
  ASSUME NEW s, StreamOK(s), NEW p, NEW q \in Seq(ChunkAt), q # <<>>, InOrder(q), Expected(s, q),
         NEW out, OutOf(s, p, q, out), NEW x \in ToSet(out)
  PROVE  pos_lt(x.pos, q[1].pos)
<1> DEFINE v == x.pos[1]
           j == x.pos[2]
           u == q[1].pos[1]
           k == q[1].pos[2]
<1>1. v \in ComeTo(s, p) /\ j \in SentOf(s, q, v)
  BY DEF OutOf, SentOnly
<1>2. Len(q) \in Nat /\ 1 \in 1 .. Len(q) /\ k \in Nat /\ u \in Nat
  BY QueueBases
<1>3. v < u \/ v \in Bases(q)
  BY <1>1 DEF OutOf, NextInOrder
<1>4. CASE v < u
  BY <1>4 DEF pos_lt
<1>5. CASE v \in Bases(q)
  <2>1. PICK i \in 1 .. Len(q) : q[i].pos[1] = v
    BY <1>5, QueueBases
  <2>2. j < q[i].pos[2]
    BY <1>1, <2>1 DEF SentOf
  <2>3. j \in Int /\ 0 <= j
    <3>1. Pattern(s, v).chunks \in Nat
      BY <1>1, RealChunks DEF ComeTo
    <3> QED
      BY <1>1, <3>1 DEF SentOf
  <2>4. i = 1
    <3>1. i # 1 => q[i].pos[2] = 0
      BY <1>2 DEF OutOf, NextInOrder
    <3> QED
      BY <2>2, <2>3, <3>1
  <2> QED
    BY <2>1, <2>2, <2>4 DEF pos_lt
<1> QED
  BY <1>3, <1>4, <1>5

LEMMA NextMoves ==
  ASSUME NEW s, StreamOK(s), NEW p, NEW q \in Seq(ChunkAt), q # <<>>, InOrder(q), Expected(s, q), NEW r,
         NEW u, NEW k \in Nat, u = q[1].pos[1],
         \/ r = Tail(q)
         \/ r = <<[pos |-> <<u, k + 1>>]>> \o Tail(q) /\ k + 1 < Pattern(s, u).chunks,
         NextInOrder(s, p, q)
  PROVE  NextInOrder(s, p, r)
<1> DEFINE n == Len(q)
           f == [pos |-> <<u, k + 1>>]
<1>1. /\ n \in Nat /\ 1 \in 1 .. n
      /\ \A i \in 1 .. n : q[i] \in ChunkAt /\ q[i].pos[1] \in Nat /\ q[i].pos[2] \in Nat
      /\ \A i \in 2 .. n : q[i].pos[2] = 0
      /\ \A v \in ComeTo(s, p) : v < u \/ v \in Bases(q)
      /\ Bases(q) \subseteq ComeTo(s, p)
  BY QueueBases, ToSetOf DEF NextInOrder
<1>2. \A v \in ComeTo(s, p) : v \in Nat
  BY RealOf DEF ComeTo
<1>3. CASE r = Tail(q)
  <2>1. Bases(r) = Bases(q) \ {u}
    BY <1>3, ExpectedTail
  <2>2. r \in Seq(ChunkAt) /\ Len(r) = n - 1 /\ \A i \in 1 .. n - 1 : r[i] = q[i + 1]
    BY <1>1, <1>3
  <2>3. \A i \in 2 .. Len(r) : r[i].pos[2] = 0
    <3> SUFFICES ASSUME NEW i \in 2 .. n - 1 PROVE r[i].pos[2] = 0
      BY <2>2
    <3>1. i \in 1 .. n - 1 /\ i + 1 \in 2 .. n
      BY <1>1
    <3> QED
      BY <1>1, <2>2, <3>1
  <2>4. ASSUME r # <<>>, NEW v \in ComeTo(s, p) PROVE v < r[1].pos[1] \/ v \in Bases(r)
    <3>1. 2 \in 1 .. n /\ r[1] = q[2]
      BY <1>1, <2>2, <2>4
    <3>2. u < q[2].pos[1] /\ u \in Nat /\ q[2].pos[1] \in Nat
      BY <1>1, <3>1 DEF InOrder
    <3>3. CASE v \in Bases(q) /\ v # u
      BY <2>1, <3>3
    <3>4. CASE v < u \/ v = u
      BY <1>2, <3>1, <3>2, <3>4
    <3> QED
      BY <1>1, <3>3, <3>4
  <2> QED
    BY <1>1, <2>1, <2>3, <2>4 DEF NextInOrder
<1>4. CASE r = <<f>> \o Tail(q) /\ k + 1 < Pattern(s, u).chunks
  <2>1. f \in ChunkAt /\ f.pos[1] = u /\ f.pos[2] = k + 1
    <3>1. u \in Nat
      BY <1>1
    <3>2. <<u, k + 1>> \in Nat \X Nat
      BY <3>1
    <3> QED
      BY <3>2 DEF ChunkAt
  <2> HIDE DEF f
  <2>2. Bases(r) = Bases(q)
    BY <1>4, <2>1, ExpectedNext
  <2>3. r \in Seq(ChunkAt) /\ Len(r) = n /\ r[1] = f /\ \A i \in 1 .. n : i # 1 => r[i] = q[i]
    BY <1>1, <1>4, <2>1
  <2>4. \A i \in 2 .. Len(r) : r[i].pos[2] = 0
    BY <1>1, <2>3
  <2> QED
    BY <1>1, <2>1, <2>2, <2>3, <2>4 DEF NextInOrder
<1> QED
  BY <1>3, <1>4 DEF f

LEMMA OutReordered ==
  ASSUME NEW s, StreamOK(s), NEW p, NEW q \in Seq(ChunkAt), q # <<>>, InOrder(q), Expected(s, q), NEW r,
         NEW u, NEW k, Onward(s, q, r, u, k),
         NEW out, OutOf(s, p, q, out), NEW e \in ChunkAt, e.pos = q[1].pos
  PROVE  OutOf(s, p, r, Append(out, e))
<1> DEFINE o == Append(out, e)
<1>0. u = q[1].pos[1] /\ k = q[1].pos[2]
  BY DEF Onward
<1>1. /\ u \in RealBases(s) /\ k \in Nat /\ r \in Seq(ChunkAt)
      /\ SentOf(s, q, u) = 0 .. k - 1 /\ SentOf(s, r, u) = 0 .. k
      /\ \A v \in RealBases(s) : v # u => SentOf(s, r, v) = SentOf(s, q, v)
  BY SentGrows
<1>2. o \in Seq(ChunkAt) /\ ToSet(o) = ToSet(out) \cup {e}
  BY AppendOut DEF OutOf
<1>3. Sorted(o)
  <2>1. \A x \in ToSet(out) : pos_lt(x.pos, e.pos)
    BY SentBefore
  <2> QED
    BY <2>1, AppendSorted DEF OutOf
<1>4. e = [pos |-> <<u, k>>] /\ e.pos[1] = u /\ e.pos[2] = k
  BY <1>0 DEF ChunkAt
<1>5. Len(q) \in Nat /\ 1 \in 1 .. Len(q) /\ u \in ComeTo(s, p)
  <2>1. Len(q) \in Nat /\ 1 \in 1 .. Len(q) /\ u \in Bases(q)
    BY <1>0, QueueBases
  <2> QED
    BY <2>1 DEF OutOf, NextInOrder
<1> HIDE DEF o
<1>6. SentOnly(s, p, r, o)
  <2>1. ASSUME NEW x \in ToSet(out) PROVE x.pos[1] \in ComeTo(s, p) /\ x.pos[2] \in SentOf(s, r, x.pos[1])
    <3>1. x.pos[1] \in ComeTo(s, p) /\ x.pos[2] \in SentOf(s, q, x.pos[1])
      BY DEF OutOf, SentOnly
    <3>2. CASE x.pos[1] = u
      BY <1>1, <3>1, <3>2
    <3>3. CASE x.pos[1] # u
      BY <1>1, <3>1, <3>3 DEF ComeTo
    <3> QED
      BY <3>2, <3>3
  <2>2. e.pos[1] \in ComeTo(s, p) /\ e.pos[2] \in SentOf(s, r, e.pos[1])
    BY <1>1, <1>4, <1>5
  <2> QED
    BY <1>2, <2>1, <2>2 DEF SentOnly
<1>7. SentAll(s, p, r, o)
  <2>1. ASSUME NEW v \in ComeTo(s, p), NEW j \in SentOf(s, r, v)
        PROVE  [pos |-> <<v, j>>] \in ToSet(o)
    <3>1. CASE v = u
      <4>1. j = k \/ j \in SentOf(s, q, u)
        BY <1>1, <2>1, <3>1
      <4> QED
        BY <1>2, <1>4, <2>1, <3>1, <4>1 DEF OutOf, SentAll
    <3>2. CASE v # u
      BY <1>1, <1>2, <2>1, <3>2 DEF OutOf, SentAll, ComeTo
    <3> QED
      BY <3>1, <3>2
  <2> QED
    BY <2>1 DEF SentAll
<1>8. NextInOrder(s, p, r)
  <2>1. Pattern(s, u).chunks \in Nat
    BY <1>1, RealChunks
  <2>2. k < Pattern(s, u).chunks
    BY <1>0, <1>5 DEF Expected
  <2>3. \/ r = Tail(q)
        \/ r = <<[pos |-> <<u, k + 1>>]>> \o Tail(q) /\ k + 1 < Pattern(s, u).chunks
    <3> DEFINE m == Pattern(s, u).chunks
    <3>1. IF k + 1 = m THEN r = Tail(q) ELSE r = <<[pos |-> <<u, k + 1>>]>> \o Tail(q)
      BY DEF Onward
    <3>2. k + 1 # m => k + 1 < m
      BY <1>1, <2>1, <2>2
    <3> HIDE DEF m
    <3>3. CASE k + 1 = m
      BY <3>1, <3>3
    <3>4. CASE k + 1 # m
      BY <3>1, <3>2, <3>4 DEF m
    <3> QED
      BY <3>3, <3>4
  <2> QED
    BY <1>0, <1>1, <2>3, NextMoves DEF OutOf
<1> QED
  BY <1>2, <1>3, <1>6, <1>7, <1>8 DEF OutOf, o

(* The chunks of block v in a sequence of chunks.                          *)
ChunksIn(out, v) == {i \in 1 .. Len(out) : out[i].pos[1] = v}

(* They are the first m ones.                                              *)
FirstChunks(out, n, v, m) ==
  /\ n = Len(out) /\ n \in Nat /\ v \in Nat /\ m \in Nat
  /\ \A i, j \in 1 .. n : i < j => pos_lt(out[i].pos, out[j].pos)
  /\ \A i \in 1 .. n : out[i].pos[1] = v => out[i].pos[2] \in 0 .. m - 1
  /\ \A c \in 0 .. m - 1 : \E i \in 1 .. n : out[i].pos[1] = v /\ out[i].pos[2] = c

LEMMA CountChunks ==
  ASSUME NEW out, NEW n, NEW v, NEW m, FirstChunks(out, n, v, m)
  PROVE  Cardinality(ChunksIn(out, v)) = m
<1>0. /\ n = Len(out) /\ n \in Nat /\ v \in Nat /\ m \in Nat
      /\ \A i, j \in 1 .. n : i < j => pos_lt(out[i].pos, out[j].pos)
      /\ \A i \in 1 .. n : out[i].pos[1] = v => out[i].pos[2] \in 0 .. m - 1
      /\ \A c \in 0 .. m - 1 : \E i \in 1 .. n : out[i].pos[1] = v /\ out[i].pos[2] = c
  BY DEF FirstChunks
<1> USE <1>0
<1> DEFINE C == {i \in 1 .. n : out[i].pos[1] = v}
           f == [i \in C |-> out[i].pos[2]]
<1>1. IsFiniteSet(C)
  <2>1. C \in SUBSET (1 .. n)
    OBVIOUS
  <2> QED
    BY <2>1, FromOne, FS_Subset
<1>2. f \in [C -> 0 .. m - 1]
  OBVIOUS
<1>3. ASSUME NEW i \in C, NEW j \in C, f[i] = f[j] PROVE i = j
  <2>1. /\ i \in 1 .. n /\ out[i].pos[1] = v /\ out[i].pos[2] = f[i] /\ f[i] \in Int
        /\ j \in 1 .. n /\ out[j].pos[1] = v /\ out[j].pos[2] = f[j]
    OBVIOUS
  <2> HIDE DEF C, f
  <2>2. ~ (i < j)
    <3>1. i < j => pos_lt(out[i].pos, out[j].pos)
      BY <2>1
    <3> QED
      BY <1>3, <2>1, <3>1 DEF pos_lt
  <2>3. ~ (j < i)
    <3>1. j < i => pos_lt(out[j].pos, out[i].pos)
      BY <2>1
    <3> QED
      BY <1>3, <2>1, <3>1 DEF pos_lt
  <2> QED
    BY <2>1, <2>2, <2>3
<1>4. \A c \in 0 .. m - 1 : \E i \in C : f[i] = c
  OBVIOUS
<1>5. f \in Bijection(C, 0 .. m - 1)
  BY <1>2, <1>3, <1>4 DEF Bijection, Injection, Surjection, IsInjective
<1> HIDE DEF C, f
<1>6. Cardinality(0 .. m - 1) = Cardinality(C)
  BY <1>1, <1>5, FS_Bijection DEF ExistsBijection
<1>7. Cardinality(0 .. m - 1) = m
  <2> DEFINE z == m - 1
  <2>1. z \in Int /\ m = z + 1 /\ (0 > z => z = 0 - 1)
    OBVIOUS
  <2> HIDE DEF z
  <2>2. Cardinality(0 .. z) = IF 0 > z THEN 0 ELSE z - 0 + 1
    BY <2>1, FS_Interval
  <2>3. Cardinality(0 .. z) = m
    BY <2>1, <2>2
  <2> QED
    BY <2>3 DEF z
<1> QED
  BY <1>6, <1>7 DEF ChunksIn, C

(* wr is how out begins.                                                   *)
Opens(wr, out) ==
  /\ wr \in Seq(ChunkAt) /\ Len(wr) <= Len(out)
  /\ \A i \in 1 .. Len(wr) : wr[i] = out[i]

LEMMA OpensSorted ==
  ASSUME NEW out \in Seq(ChunkAt), Sorted(out), NEW wr, Opens(wr, out), NEW n, n = Len(wr)
  PROVE  /\ n \in Nat /\ n <= Len(out) /\ Len(out) \in Nat
         /\ \A i, j \in 1 .. n : i < j => pos_lt(wr[i].pos, wr[j].pos)
         /\ \A i \in 1 .. Len(out) :
              /\ out[i].pos[1] \in Nat /\ out[i].pos[2] \in Nat /\ out[i] = [pos |-> <<out[i].pos[1], out[i].pos[2]>>]
              /\ out[i] \in ToSet(out)
         /\ \A i \in 1 .. n : wr[i] = out[i] /\ i \in 1 .. Len(out)
<1>1. /\ n \in Nat /\ n <= Len(out) /\ Len(out) \in Nat
      /\ \A i \in 1 .. Len(out) : out[i] \in ChunkAt /\ out[i] \in ToSet(out)
  BY ToSetOf DEF Opens
<1>2. \A i \in 1 .. n : wr[i] = out[i] /\ i \in 1 .. Len(out)
  BY <1>1 DEF Opens
<1>3. \A i, j \in 1 .. n : i < j => pos_lt(wr[i].pos, wr[j].pos)
  BY <1>2 DEF Sorted
<1>4. \A e \in ChunkAt : e.pos[1] \in Nat /\ e.pos[2] \in Nat /\ e = [pos |-> <<e.pos[1], e.pos[2]>>]
  BY DEF ChunkAt
<1> QED
  BY <1>1, <1>2, <1>3, <1>4

(* A block of which all that is to be sent has been written.               *)
LEMMA Completed ==
  ASSUME NEW s, NEW p, NEW q, NEW out, OutOf(s, p, q, out), NEW wr, Opens(wr, out),
         NEW v \in Nat, v \in ComeTo(s, p), NEW m \in Nat, SentOf(s, q, v) = 0 .. m - 1,
         NEW n, n = Len(wr), \A i \in 1 .. Len(out) : out[i].pos[1] = v => i <= n
  PROVE  Cardinality(ChunksIn(wr, v)) = m
<1>1. out \in Seq(ChunkAt) /\ Sorted(out)
  BY DEF OutOf
<1>2. /\ n \in Nat /\ n <= Len(out) /\ Len(out) \in Nat
      /\ \A i, j \in 1 .. n : i < j => pos_lt(wr[i].pos, wr[j].pos)
      /\ \A i \in 1 .. Len(out) : out[i] \in ToSet(out)
      /\ \A i \in 1 .. n : wr[i] = out[i] /\ i \in 1 .. Len(out)
  BY <1>1, OpensSorted
<1>3. \A i \in 1 .. n : wr[i].pos[1] = v => wr[i].pos[2] \in 0 .. m - 1
  BY <1>2 DEF OutOf, SentOnly
<1>4. ASSUME NEW c \in 0 .. m - 1 PROVE \E i \in 1 .. n : wr[i].pos[1] = v /\ wr[i].pos[2] = c
  <2>1. [pos |-> <<v, c>>] \in ToSet(out)
    BY DEF OutOf, SentAll
  <2>2. PICK i \in 1 .. Len(out) : out[i] = [pos |-> <<v, c>>]
    BY <1>1, <2>1, ToSetOf
  <2>3. out[i].pos[1] = v /\ out[i].pos[2] = c
    BY <2>2
  <2>4. i \in 1 .. n
    BY <1>2, <2>3
  <2> QED
    BY <1>2, <2>3, <2>4
<1> QED
  <2>1. FirstChunks(wr, n, v, m)
    BY <1>2, <1>3, <1>4 DEF FirstChunks
  <2> QED
    BY <2>1, CountChunks

LEMMA BlockAt ==
  ASSUME NEW s, StreamOK(s), NEW i \in 1 .. Len(s.blocks), NEW v, v = s.blocks[i].base
  PROVE  v \in RealBases(s) /\ v \in Nat /\ Pattern(s, v) = s.blocks[i]
<1>1. v \in RealBases(s) /\ s.blocks[i] \in ToSet(s.blocks) /\ v \in Nat
  BY BlocksAre
<1>2. v \in PatternBases(s)
  BY <1>1, RealOf
<1>3. Pattern(s, v) \in Patterns(s) /\ Pattern(s, v).base = v /\ s.blocks[i] \in Patterns(s)
  BY <1>1, <1>2, PatternOf DEF Patterns
<1> QED
  BY <1>1, <1>3 DEF StreamOK

(* The blocks before one of which something has been sent are complete.    *)
LEMMA EarlierSent ==
  ASSUME NEW s, StreamOK(s), NEW p, NEW q \in Seq(ChunkAt), InOrder(q), NextInOrder(s, p, q),
         NEW u \in ComeTo(s, p), NEW k \in SentOf(s, q, u), NEW v \in RealBases(s), v < u
  PROVE  SentOf(s, q, v) = 0 .. Pattern(s, v).chunks - 1
<1>1. \A i \in 1 .. Len(q) : q[i].pos[1] \in Nat /\ q[i].pos[2] \in Nat /\ Len(q) \in Nat
  BY QueueBases
<1>2. u \in Nat /\ v \in Nat /\ k \in Int /\ 0 <= k
  <2>1. u \in RealBases(s) /\ Pattern(s, u).chunks \in Nat
    BY RealChunks DEF ComeTo
  <2> QED
    BY <2>1, RealOf DEF SentOf
<1>3. ASSUME NEW i \in 1 .. Len(q), q[i].pos[1] = v PROVE FALSE
  <2>1. 1 \in 1 .. Len(q) /\ q # <<>>
    BY <1>1
  <2>2. q[1].pos[1] \in Nat /\ q[1].pos[1] <= v
    <3>1. i # 1 => 1 < i
      BY <1>1
    <3> QED
      BY <1>1, <1>2, <1>3, <2>1, <3>1 DEF InOrder
  <2>3. u \in Bases(q)
    BY <1>2, <2>1, <2>2 DEF NextInOrder
  <2>4. PICK j \in 1 .. Len(q) : q[j].pos[1] = u
    BY <2>3, QueueBases
  <2>5. j # 1
    BY <1>2, <2>2, <2>4
  <2>6. q[j].pos[2] = 0
    BY <1>1, <2>5 DEF NextInOrder
  <2> QED
    BY <1>2, <2>4, <2>6 DEF SentOf
<1> QED
  BY <1>3 DEF SentOf

(* The chunk e is the next one of the first block that is not complete.    *)
HasTurn(s, wr, e) ==
  \E i \in 1 .. Len(s.blocks) :
    LET b == s.blocks[i]
        k == Cardinality(ChunksIn(wr, b.base))
    IN /\ e = [pos |-> <<b.base, k>>] /\ k < b.chunks /\ Pattern(s, b.base) = b
       /\ \A j \in 1 .. i - 1 : Cardinality(ChunksIn(wr, s.blocks[j].base)) = s.blocks[j].chunks

(* It follows what has been written.                                       *)
IsNext(wr, out, e) == Opens(wr, out) /\ Len(wr) < Len(out) /\ e = out[Len(wr) + 1]

LEMMA TurnOf ==
  ASSUME NEW s, StreamOK(s), NEW p \in Nat, NEW q \in Seq(ChunkAt), InOrder(q), NEW out, OutOf(s, p, q, out),
         NEW wr, NEW e, IsNext(wr, out, e)
  PROVE  HasTurn(s, wr, e)
<1> SUFFICES ASSUME NEW n, n = Len(wr), Opens(wr, out), n < Len(out), e = out[n + 1]
             PROVE  HasTurn(s, wr, e)
  BY DEF IsNext
<1> DEFINE u == e.pos[1]
           k == e.pos[2]
           l == Len(out)
<1>0. out \in Seq(ChunkAt) /\ Sorted(out) /\ NextInOrder(s, p, q)
  BY DEF OutOf
<1>1. /\ n \in Nat /\ n <= l /\ l \in Nat
      /\ \A i, j \in 1 .. n : i < j => pos_lt(wr[i].pos, wr[j].pos)
      /\ \A i \in 1 .. l :
           /\ out[i].pos[1] \in Nat /\ out[i].pos[2] \in Nat /\ out[i] = [pos |-> <<out[i].pos[1], out[i].pos[2]>>]
           /\ out[i] \in ToSet(out)
      /\ \A i \in 1 .. n : wr[i] = out[i] /\ i \in 1 .. l
  BY <1>0, OpensSorted
<1>2. /\ n + 1 \in 1 .. l /\ u \in Nat /\ k \in Nat /\ e = [pos |-> <<u, k>>]
      /\ u \in ComeTo(s, p) /\ k \in SentOf(s, q, u)
  <2>1. n + 1 \in 1 .. l
    BY <1>1
  <2>2. e \in ToSet(out)
    BY <1>1, <2>1
  <2>3. u \in Nat /\ k \in Nat /\ e = [pos |-> <<u, k>>]
    BY <1>1, <2>1
  <2> QED
    BY <2>1, <2>2, <2>3 DEF OutOf, SentOnly
<1>3. \A i \in 1 .. l : n + 1 < i => pos_lt(e.pos, out[i].pos)
  BY <1>0, <1>2 DEF Sorted
<1>4. \A i \in 1 .. n : pos_lt(out[i].pos, e.pos)
  <2> SUFFICES ASSUME NEW i \in 1 .. n PROVE pos_lt(out[i].pos, e.pos)
    OBVIOUS
  <2>1. i \in 1 .. l /\ i < n + 1
    BY <1>1
  <2> QED
    BY <1>0, <1>2, <2>1 DEF Sorted
<1>5. u \in RealBases(s) /\ Pattern(s, u).chunks \in Nat
  BY <1>2, RealChunks DEF ComeTo
<1>6. PICK i \in 1 .. Len(s.blocks) : s.blocks[i] = Pattern(s, u)
  BY <1>5, RealOf
<1>7. Pattern(s, u).base = u
  BY <1>5, RealOf, PatternOf
<1>8. k < Pattern(s, u).chunks
  BY <1>2, <1>5 DEF SentOf
<1> HIDE DEF u, k, l
<1>9. Cardinality(ChunksIn(wr, u)) = k
  <2>1. ASSUME NEW j \in 1 .. n, wr[j].pos[1] = u PROVE wr[j].pos[2] \in 0 .. k - 1
    <3>1. wr[j] = out[j] /\ out[j].pos[2] \in Nat /\ pos_lt(out[j].pos, e.pos)
      BY <1>1, <1>4
    <3> QED
      BY <1>2, <2>1, <3>1 DEF pos_lt, u, k
  <2>2. ASSUME NEW c \in 0 .. k - 1 PROVE \E j \in 1 .. n : wr[j].pos[1] = u /\ wr[j].pos[2] = c
    <3>1. c \in SentOf(s, q, u)
      <4>1. /\ k \in 0 .. Pattern(s, u).chunks - 1
            /\ \A j \in 1 .. Len(q) : q[j].pos[1] = u => k < q[j].pos[2]
        BY <1>2 DEF SentOf
      <4>2. \A j \in 1 .. Len(q) : q[j].pos[2] \in Nat
        BY QueueBases
      <4>3. c \in 0 .. Pattern(s, u).chunks - 1
        BY <1>5, <4>1
      <4>4. \A j \in 1 .. Len(q) : q[j].pos[1] = u => c < q[j].pos[2]
        BY <1>2, <4>1, <4>2
      <4> QED
        BY <4>3, <4>4 DEF SentOf
    <3>2. [pos |-> <<u, c>>] \in ToSet(out)
      BY <1>2, <3>1 DEF OutOf, SentAll
    <3>3. PICK j \in 1 .. l : out[j] = [pos |-> <<u, c>>]
      BY <1>0, <3>2, ToSetOf DEF l
    <3>4. out[j].pos[1] = u /\ out[j].pos[2] = c
      BY <3>3
    <3>5. j # n + 1
      BY <1>2, <3>4 DEF k
    <3>6. ~ (n + 1 < j)
      <4>1. n + 1 < j => pos_lt(e.pos, out[j].pos)
        BY <1>3
      <4> QED
        BY <1>2, <3>4, <4>1 DEF pos_lt, u, k
    <3>7. j \in 1 .. n
      BY <1>1, <3>5, <3>6
    <3> QED
      BY <1>1, <3>4, <3>7
  <2> QED
    <3>1. FirstChunks(wr, n, u, k)
      BY <1>1, <1>2, <2>1, <2>2 DEF FirstChunks
    <3> QED
      BY <3>1, CountChunks
<1>10. ASSUME NEW j \in 1 .. i - 1 PROVE Cardinality(ChunksIn(wr, s.blocks[j].base)) = s.blocks[j].chunks
  <2> DEFINE v == s.blocks[j].base
             m == s.blocks[j].chunks
  <2>1. j \in 1 .. Len(s.blocks)
    BY BlocksAre
  <2>2. v \in RealBases(s) /\ v \in Nat /\ Pattern(s, v) = s.blocks[j] /\ m \in Nat
    BY <2>1, BlockAt, BlocksAre
  <2>3. v < u
    <3> DEFINE z == s.blocks[j].stop
               f == From(s, i)
    <3>0. Len(s.blocks) \in Nat /\ j < i
      BY BlocksAre
    <3>1. z <= f /\ v < z /\ z \in Nat
      BY <2>1, <3>0, BlocksAre
    <3>2. f + 5 <= u /\ f \in Nat
      <4>1. f + 5 <= s.blocks[i].base /\ f \in Nat
        BY BlocksAre
      <4>2. s.blocks[i].base = u
        BY <1>6, <1>7
      <4> QED
        BY <4>1, <4>2
    <3> HIDE DEF z, f, v, m
    <3> QED
      BY <1>2, <2>2, <3>1, <3>2
  <2> HIDE DEF v, m
  <2>4. SentOf(s, q, v) = 0 .. m - 1
    BY <1>0, <1>2, <2>2, <2>3, EarlierSent DEF m
  <2>5. v \in ComeTo(s, p)
    <3>1. u <= p
      BY <1>2 DEF ComeTo
    <3> QED
      BY <1>2, <2>2, <2>3, <3>1 DEF ComeTo
  <2>6. \A a \in 1 .. Len(out) : out[a].pos[1] = v => a <= n
    <3> SUFFICES ASSUME NEW a \in 1 .. l, out[a].pos[1] = v, n < a PROVE FALSE
      BY <1>1 DEF l
    <3>1. a = n + 1 \/ pos_lt(e.pos, out[a].pos)
      BY <1>1, <1>3
    <3> QED
      BY <1>2, <2>2, <2>3, <3>1 DEF pos_lt, u
  <2>7. Cardinality(ChunksIn(wr, v)) = m
    BY <2>2, <2>4, <2>5, <2>6, Completed
  <2> QED
    BY <2>7 DEF v, m
<1> QED
  BY <1>2, <1>6, <1>7, <1>8, <1>9, <1>10 DEF HasTurn

(* At the end all blocks are complete.                                     *)
LEMMA AllSent ==
  ASSUME NEW s, StreamOK(s), NEW p, RealBases(s) \subseteq ComeTo(s, p), NEW out, OutOf(s, p, <<>>, out),
         NEW i \in 1 .. Len(s.blocks)
  PROVE  LET b == s.blocks[i]
         IN /\ Cardinality(ChunksIn(out, b.base)) = b.chunks /\ b.chunks \in Nat
            /\ \E e \in ToSet(out) : e.pos = <<b.base, b.chunks - 1>> /\ Pattern(s, b.base) = b
<1> DEFINE v == s.blocks[i].base
           m == s.blocks[i].chunks
<1>1. v \in RealBases(s) /\ v \in Nat /\ Pattern(s, v) = s.blocks[i] /\ v \in ComeTo(s, p)
  BY BlockAt
<1>2. m \in Nat \ {0}
  BY BlocksAre
<1>3. SentOf(s, <<>>, v) = 0 .. m - 1
  BY <1>1 DEF SentOf
<1>4. out \in Seq(ChunkAt) /\ Len(out) \in Nat
  BY DEF OutOf
<1>5. Opens(out, out)
  BY <1>4 DEF Opens
<1> HIDE DEF v, m
<1>6. Cardinality(ChunksIn(out, v)) = m
  <2>1. \A j \in 1 .. Len(out) : out[j].pos[1] = v => j <= Len(out)
    BY <1>4
  <2> QED
    BY <1>1, <1>2, <1>3, <1>5, <2>1, Completed
<1>7. [pos |-> <<v, m - 1>>] \in ToSet(out)
  <2>1. m - 1 \in 0 .. m - 1
    BY <1>2
  <2> QED
    BY <1>1, <1>3, <2>1 DEF OutOf, SentAll
<1>8. \E e \in ToSet(out) : e.pos = <<v, m - 1>>
  BY <1>7
<1> QED
  BY <1>1, <1>2, <1>6, <1>8 DEF v, m

(* How the sink moves what it writes.                                      *)
LEMMA TakenSame ==
  ASSUME NEW w \in Seq(ChunkAt), NEW o \in Seq(ChunkAt), o # <<>>
  PROVE  (w \o <<Head(o)>>) \o Tail(o) = (w \o <<>>) \o o
<1>1. Head(o) \in ChunkAt /\ Tail(o) \in Seq(ChunkAt)
  BY HeadTailProperties
<1>2. <<Head(o)>> \o Tail(o) = o
  <2> DEFINE h == <<Head(o)>>
             t == Tail(o)
             c == h \o t
  <2>1. h \in Seq(ChunkAt) /\ Len(h) = 1 /\ h[1] = o[1] /\ t \in Seq(ChunkAt)
    BY <1>1
  <2>2. Len(o) \in Nat /\ Len(t) = Len(o) - 1 /\ \A i \in 1 .. Len(o) - 1 : t[i] = o[i + 1]
    OBVIOUS
  <2> HIDE DEF h, t
  <2>3. /\ c \in Seq(ChunkAt) /\ Len(c) = Len(h) + Len(t)
        /\ \A i \in 1 .. Len(h) + Len(t) : c[i] = IF i <= Len(h) THEN h[i] ELSE t[i - Len(h)]
    BY <2>1, ConcatProperties
  <2> HIDE DEF c
  <2>4. Len(c) = Len(o)
    BY <2>1, <2>2, <2>3
  <2>5. ASSUME NEW i \in 1 .. Len(c) PROVE c[i] = o[i]
    <3>1. i = 1 \/ (i - 1 \in 1 .. Len(o) - 1 /\ i # 1 /\ i \in Int)
      BY <2>2, <2>4
    <3>2. CASE i = 1
      BY <2>1, <2>2, <2>3, <2>4, <3>2
    <3>3. CASE i - 1 \in 1 .. Len(o) - 1 /\ i # 1 /\ i \in Int
      <4>1. c[i] = t[i - 1]
        BY <2>1, <2>2, <2>3, <2>4, <3>3
      <4>2. t[i - 1] = o[(i - 1) + 1]
        BY <2>2, <3>3
      <4> QED
        BY <3>3, <4>1, <4>2
    <3> QED
      BY <3>1, <3>2, <3>3
  <2>6. c = o
    BY <2>3, <2>4, <2>5, SeqEqual
  <2> QED
    BY <2>6 DEF c, h, t
<1>3. <<Head(o)>> \in Seq(ChunkAt)
  BY <1>1
<1>4. (w \o <<Head(o)>>) \o Tail(o) = w \o (<<Head(o)>> \o Tail(o))
  BY <1>1, <1>3, ConcatAssociative
<1>5. w \o <<>> = w
  BY ConcatEmptySeq
<1> QED
  BY <1>2, <1>4, <1>5

LEMMA WrittenSame ==
  ASSUME NEW w \in Seq(ChunkAt), NEW o \in Seq(ChunkAt), NEW b \in ChunkAt
  PROVE  (Append(w, b) \o <<>>) \o o = (w \o <<b>>) \o o
<1>1. Append(w, b) \in Seq(ChunkAt) /\ Append(w, b) = w \o <<b>>
  BY AppendIsConcat
<1>2. Append(w, b) \o <<>> = Append(w, b)
  BY <1>1, ConcatEmptySeq
<1> QED
  BY <1>1, <1>2

LEMMA QueuedLast ==
  ASSUME NEW w \in Seq(ChunkAt), NEW x \in Seq(ChunkAt), NEW o \in Seq(ChunkAt), NEW b \in ChunkAt
  PROVE  (w \o x) \o Append(o, b) = Append((w \o x) \o o, b)
<1> DEFINE l == w \o x
<1>1. l \in Seq(ChunkAt)
  BY ConcatProperties
<1> HIDE DEF l
<1>2. l \o o \in Seq(ChunkAt) /\ <<b>> \in Seq(ChunkAt)
  BY <1>1, ConcatProperties
<1>3. Append(o, b) = o \o <<b>> /\ Append(l \o o, b) = (l \o o) \o <<b>>
  BY <1>2, AppendIsConcat
<1>4. (l \o o) \o <<b>> = l \o (o \o <<b>>)
  BY <1>1, <1>2, ConcatAssociative
<1>5. l \o Append(o, b) = Append(l \o o, b)
  BY <1>3, <1>4
<1> QED
  BY <1>5 DEF l

LEMMA WrittenFirst ==
  ASSUME NEW w \in Seq(ChunkAt), NEW o \in Seq(ChunkAt), NEW b \in ChunkAt,
         NEW out, out = (w \o <<b>>) \o o
  PROVE  /\ Opens(w, out) /\ Len(w) < Len(out) /\ out[Len(w) + 1] = b
<1> DEFINE l == w \o <<b>>
           n == Len(w)
<1>1. /\ l \in Seq(ChunkAt) /\ n \in Nat /\ Len(l) = n + 1 /\ l[n + 1] = b
      /\ \A i \in 1 .. n : l[i] = w[i]
  <2>1. Append(w, b) = l
    BY AppendIsConcat
  <2>2. /\ Append(w, b) \in Seq(ChunkAt) /\ n \in Nat /\ Len(Append(w, b)) = n + 1 /\ Append(w, b)[n + 1] = b
        /\ \A i \in 1 .. n : Append(w, b)[i] = w[i]
    OBVIOUS
  <2> QED
    BY <2>1, <2>2
<1> HIDE DEF l
<1>2. out = l \o o
  BY DEF l
<1>3. /\ Len(out) = Len(l) + Len(o) /\ Len(o) \in Nat
      /\ \A i \in 1 .. Len(l) + Len(o) : out[i] = IF i <= Len(l) THEN l[i] ELSE o[i - Len(l)]
  BY <1>1, <1>2, ConcatProperties
<1> HIDE DEF n
<1>4. n < Len(out) /\ out[n + 1] = b
  <2>1. n + 1 \in 1 .. Len(l) + Len(o) /\ n + 1 <= Len(l) /\ n < Len(l) + Len(o)
    BY <1>1, <1>3
  <2>2. out[n + 1] = l[n + 1]
    BY <1>3, <2>1
  <2> QED
    BY <1>1, <1>3, <2>1, <2>2
<1>5. \A i \in 1 .. n : w[i] = out[i]
  BY <1>1, <1>3
<1> QED
  BY <1>1, <1>3, <1>4, <1>5 DEF Opens, n

(***************************************************************************)
(* Every step keeps to that.                                               *)
(***************************************************************************)
Writing == IF sink = "write" THEN <<block>> ELSE <<>>

LEMMA OutIs ==
  ASSUME OutInv
  PROVE  /\ Out = (written \o Writing) \o output_q /\ Out \in Seq(ChunkAt)
         /\ written \in Seq(ChunkAt) /\ Writing \in Seq(ChunkAt) /\ output_q \in Seq(ChunkAt)
<1>1. written \in Seq(ChunkAt) /\ output_q \in Seq(ChunkAt) /\ (sink = "write" => block \in ChunkAt)
      /\ Out \in Seq(ChunkAt)
  BY DEF OutInv, OutOf
<1>2. Writing \in Seq(ChunkAt)
  BY <1>1 DEF Writing
<1> QED
  BY <1>1, <1>2 DEF Out, Writing

(* Nothing is sent, and the parser comes to no block.                      *)
LEMMA OutStays ==
  ASSUME OutInv, UNCHANGED <<stream, order_q>>, Out' = Out,
         ComeTo(stream, parser_bs'.pos[1]) = ComeTo(stream, parser_bs.pos[1]),
         written' \in Seq(ChunkAt), output_q' \in Seq(ChunkAt), sink' = "write" => block' \in ChunkAt
  PROVE  OutInv'
<1> DEFINE p == parser_bs.pos[1]
           p2 == parser_bs'.pos[1]
<1>1. OutOf(stream, p, order_q, Out)
  BY DEF OutInv
<1>2. ComeTo(stream, p2) = ComeTo(stream, p)
  OBVIOUS
<1> HIDE DEF p, p2
<1>3. OutOf(stream, p2, order_q, Out)
  BY <1>1, <1>2, OutMoves
<1>4. OutOf(stream', p2, order_q', Out')
  BY <1>3
<1>5. \A e \in ToSet(Out') : ~ Damaged(e.pos)'
  BY DEF OutInv, Damaged, IsLast
<1> QED
  BY <1>4, <1>5 DEF OutInv, p2

LEMMA QuietOut ==
  ASSUME OutInv, UNCHANGED <<stream, order_q, sinkVars>>,
         ComeTo(stream, parser_bs'.pos[1]) = ComeTo(stream, parser_bs.pos[1])
  PROVE  OutInv'
<1>1. Out' = Out /\ written' = written /\ output_q' = output_q /\ sink' = sink /\ block' = block
  BY DEF Out, sinkVars
<1>2. written' \in Seq(ChunkAt) /\ output_q' \in Seq(ChunkAt) /\ (sink' = "write" => block' \in ChunkAt)
  BY <1>1 DEF OutInv
<1> QED
  BY <1>1, <1>2, OutStays

(* The parser, or the retriever that is the master, goes on.               *)
LEMMA MasterGoesOut ==
  ASSUME CountInv, MasterInv, OutInv, NEW w \in Workers,
         ParseMore(w) \/ RetrieveMoreAsMaster(w) \/ RetrieveOverAsMaster(w)
  PROVE  OutInv'
<1> DEFINE p == parser_bs.pos[1]
           p2 == parser_bs'.pos[1]
<1>1. UNCHANGED <<stream, order_q, sinkVars>>
  BY DEF ParseMore, RetrieveMoreAsMaster, RetrieveOverAsMaster, Advance, ReleaseRefs
<1>2. p \in Nat /\ p2 \in Nat /\ p <= p2 /\ NoBlockUpTo(stream, p, p2)
  <2>1. CASE ParseMore(w)
    <3>1. pc[w] = "parse" /\ Parsed(w).rv = "MORE" /\ parser_bs' = Parsed(w).bs
      BY <2>1 DEF ParseMore, ParseReturns, Advance
    <3>2. ~ parsing_done /\ PlaceOK(stream, Parsed(w).bs, tail_offs)
          /\ parser_bs.pos[1] <= Parsed(w).bs.pos[1]
          /\ NoBlockUpTo(stream, parser_bs.pos[1], Parsed(w).bs.pos[1])
      BY <3>1, ParserReturns
    <3>3. PlaceOK(stream, parser_bs, tail_offs)
      BY <3>2, MasterWorking
    <3>4. p \in Nat /\ Parsed(w).bs.pos[1] \in Nat
      BY <3>2, <3>3 DEF PlaceOK, Bits, UnitPos
    <3> QED
      BY <3>1, <3>2, <3>4
  <2>2. CASE RetrieveMoreAsMaster(w) \/ RetrieveOverAsMaster(w)
    <3>1. PICK r \in Retrieved(w) :
            pc[w] = "retrieve" /\ ~ InVain(job[w]) /\ IsMaster(job[w]) /\ parser_bs' = r.bs
      BY <2>2 DEF RetrieveMoreAsMaster, RetrieveOverAsMaster, RetrieveReturns, Advance
    <3>2. ~ parsing_done
      BY <3>1 DEF InVain
    <3> DEFINE rb == job[w]
               bs == r.bs
    <3>3. /\ p \in Nat /\ rb.base \in RealBases(stream)
          /\ At({"parse"}) = {} /\ parse_token = FALSE /\ Reached(stream, Jobs, p) = {rb}
          /\ Judged(stream, rb, Bases(unord_q), ublk, p)
          /\ \E q \in Nat, l \in Nat :
               /\ bs = BitsAt(q, l) /\ bs \in Bits
               /\ bs.pos = <<q, 0>> /\ bs.pos[1] = q /\ bs.offset = l
               /\ p <= q /\ rb.base <= q /\ NoBlockUpTo(stream, p, q)
               /\ q <= Pattern(stream, rb.base).stop
               /\ Loaded(q, l, tail_offs) /\ l <= Pattern(stream, rb.base).need
               /\ PlaceOK(stream, bs, tail_offs) /\ head_offs <= bs.offset
      BY <3>1, <3>2, MasterRetrieves
    <3> QED
      BY <3>1, <3>3
  <2> QED
    BY <2>1, <2>2
<1>3. StreamOK(stream)
  BY MasterParts
<1>4. ComeTo(stream, p2) = ComeTo(stream, p)
  <2> HIDE DEF p, p2
  <2> QED
    BY <1>2, <1>3, NoneBetween
<1> QED
  BY <1>1, <1>4, QuietOut

LEMMA ParseFinishOut ==
  ASSUME CountInv, MasterInv, ReadTypes, ReadInv, ParseInv, OutInv, NEW w \in Workers, ParseFinish(w)
  PROVE  OutInv'
<1> DEFINE z == stream.stop
           p == parser_bs.pos[1]
<1>1. /\ pc[w] = "parse" /\ Parsed(w).rv = "FINISH" /\ parser_bs' = BitsAt(z, Words(z))
      /\ UNCHANGED <<stream, order_q, sinkVars>>
  BY DEF ParseFinish, ParseReturns, ReleaseRefs
<1>2. \A u \in RealBases(stream) : u <= p
  BY <1>1, ParserEnds
<1>3. StreamOK(stream) /\ z \in Nat /\ Words(z) \in Nat
  BY ReadTyped, WordsOf
<1>4. \A u \in RealBases(stream) : u <= z
  <2> SUFFICES ASSUME NEW u \in RealBases(stream) PROVE u <= z
    OBVIOUS
  <2>1. u \in Nat /\ Pattern(stream, u).stop \in Nat /\ u < Pattern(stream, u).stop
        /\ Pattern(stream, u).stop + 5 <= z
    BY <1>3, RealEnds
  <2> QED
    BY <1>3, <2>1
<1>5. parser_bs'.pos[1] = z
  BY <1>1, <1>3, BitsAtOf
<1>6. ComeTo(stream, parser_bs'.pos[1]) = ComeTo(stream, parser_bs.pos[1])
  BY <1>2, <1>4, <1>5 DEF ComeTo
<1> QED
  BY <1>1, <1>6, QuietOut

LEMMA FoundOut ==
  ASSUME CountInv, MasterInv, ChunkInv, OutInv, NEW w \in Workers, NEW u, NEW bs, BlockFound(w, u, bs),
         UNCHANGED sinkVars
  PROVE  OutInv'
<1> DEFINE p == parser_bs.pos[1]
           p2 == bs.pos[1]
           q == order_q
           q2 == order_q'
<1>1. /\ ~ parsing_done /\ u \in RealBases(stream) /\ p < u
      /\ \A v \in RealBases(stream) : p < v => u <= v
      /\ q2 = Append(q, [pos |-> <<u, 0>>])
      /\ UNCHANGED stream /\ parser_bs' = bs /\ Within(stream, bs, u)
  BY DEF BlockFound
<1>2. StreamOK(stream) /\ p2 \in Nat /\ u <= p2 /\ p2 <= Pattern(stream, u).stop
  BY <1>1 DEF Within
<1>3. p \in Nat
  BY <1>1, MasterWorking DEF PlaceOK, Bits, UnitPos
<1>4. q \in Seq(ChunkAt)
  BY DEF ChunkInv, ChunkTypes
<1>5. OutOf(stream, p, q, Out)
  BY DEF OutInv
<1> HIDE DEF p, p2, q, q2
<1>6. OutOf(stream, p2, q2, Out)
  <2>1. ComesTo(stream, p, p2, q, q2, u)
    BY <1>1, <1>2, <1>4 DEF ComesTo
  <2> QED
    BY <1>2, <1>3, <1>5, <2>1, OutFound
<1>7. Out' = Out /\ written' = written /\ output_q' = output_q /\ sink' = sink /\ block' = block
  BY DEF Out, sinkVars
<1>8. OutOf(stream', parser_bs'.pos[1], order_q', Out')
  BY <1>1, <1>6, <1>7 DEF p2, q2
<1>9. \A e \in ToSet(Out') : ~ Damaged(e.pos)'
  BY <1>1, <1>7 DEF OutInv, Damaged, IsLast
<1>10. written' \in Seq(ChunkAt) /\ output_q' \in Seq(ChunkAt) /\ (sink' = "write" => block' \in ChunkAt)
  BY <1>7 DEF OutInv
<1> QED
  BY <1>8, <1>9, <1>10 DEF OutInv

LEMMA DoReorderOut ==
  ASSUME CountInv, MasterInv, ChunkInv, OutInv, NEW w \in Workers, DoReorder(w)
  PROVE  OutInv'
<1> DEFINE e == peek(reord_q)
           u == e.pos[1]
           k == e.pos[2]
           p == parser_bs.pos[1]
           q == order_q
           r == order_q'
<1>1. /\ can_reorder /\ ~ Bogus(e.pos) /\ ~ Damaged(e.pos)
      /\ r = IF IsLast(e.pos) THEN Tail(order_q)
             ELSE <<[pos |-> After(e.pos)]>> \o Tail(order_q)
      /\ UNCHANGED <<stream, parser_bs, written, block>>
      /\ output_q' = Append(output_q, e) /\ (sink' = IF sink = "stalled" THEN "top" ELSE sink)
  BY TaskReady DEF CountInv, DoReorder, AtTask, SinkWriteBuffer, parserVars
<1>2. /\ q # <<>> /\ q \in Seq(ChunkAt) /\ InOrder(q) /\ Expected(stream, q)
      /\ e \in ChunkAt /\ e.pos = q[1].pos
  BY <1>1, ReorderedIs
<1>3. StreamOK(stream) /\ OutOf(stream, p, q, Out)
  BY MasterParts DEF OutInv
<1>4. Onward(stream, q, r, u, k)
  BY <1>1, <1>2 DEF Onward, IsLast, After
<1>5. OutOf(stream, p, r, Append(Out, e))
  <2> HIDE DEF e, u, k, p, q, r
  <2> QED
    BY <1>2, <1>3, <1>4, OutReordered
<1> HIDE DEF e
<1>6. /\ Out = (written \o Writing) \o output_q /\ Out \in Seq(ChunkAt)
      /\ written \in Seq(ChunkAt) /\ Writing \in Seq(ChunkAt) /\ output_q \in Seq(ChunkAt)
  BY OutIs
<1>7. (sink' = "write") = (sink = "write")
  BY <1>1
<1>8. Out' = (written \o Writing) \o Append(output_q, e)
  BY <1>1, <1>7 DEF Out, Writing
<1>9. Out' = Append(Out, e)
  BY <1>2, <1>6, <1>8, QueuedLast
<1>10. ToSet(Append(Out, e)) = ToSet(Out) \cup {e}
  BY <1>2, <1>6, AppendOut
<1>11. \A x \in ToSet(Out') : ~ Damaged(x.pos)'
  BY <1>1, <1>9, <1>10 DEF OutInv, Damaged, IsLast
<1>12. output_q' \in Seq(ChunkAt)
  BY <1>1, <1>2, <1>6
<1>13. sink' = "write" => block' \in ChunkAt
  BY <1>1, <1>7 DEF OutInv
<1>14. OutOf(stream', parser_bs'.pos[1], order_q', Out')
  BY <1>1, <1>5, <1>9 DEF p, r
<1> QED
  BY <1>1, <1>6, <1>11, <1>12, <1>13, <1>14 DEF OutInv

(* The sink takes, writes and releases what is queued for it.              *)
LEMMA SinkOut ==
  ASSUME OutInv, UNCHANGED <<stream, order_q, parser_bs>>,
         \/ UNCHANGED <<output_q, written, block>> /\ (sink' = "write") = (sink = "write")
         \/ SinkTake \/ SinkWrite \/ OnWriteComplete
  PROVE  OutInv'
<1>1. /\ Out = (written \o Writing) \o output_q
      /\ written \in Seq(ChunkAt) /\ Writing \in Seq(ChunkAt) /\ output_q \in Seq(ChunkAt)
      /\ sink = "write" => block \in ChunkAt
  BY OutIs DEF OutInv
<1>2. ComeTo(stream, parser_bs'.pos[1]) = ComeTo(stream, parser_bs.pos[1])
  OBVIOUS
<1>3. CASE UNCHANGED <<output_q, written, block>> /\ (sink' = "write") = (sink = "write")
  <2>1. Out' = Out
    BY <1>3 DEF Out
  <2> QED
    BY <1>1, <1>2, <1>3, <2>1, OutStays
<1>4. CASE SinkTake
  <2>1. /\ sink = "top" /\ sink' = "write" /\ output_q # <<>>
        /\ block' = Head(output_q) /\ output_q' = Tail(output_q) /\ written' = written
    BY <1>4 DEF SinkTake
  <2>2. Head(output_q) \in ChunkAt /\ Tail(output_q) \in Seq(ChunkAt)
    BY <1>1, <2>1
  <2>3. Out' = (written \o <<Head(output_q)>>) \o Tail(output_q)
    BY <2>1 DEF Out
  <2>4. Out = (written \o <<>>) \o output_q
    BY <2>1 DEF Out
  <2>5. Out' = Out
    BY <1>1, <2>1, <2>3, <2>4, TakenSame
  <2> QED
    BY <1>1, <1>2, <2>1, <2>2, <2>5, OutStays
<1>5. CASE SinkWrite
  <2>1. sink = "write" /\ sink' = "release" /\ written' = Append(written, block) /\ output_q' = output_q
    BY <1>5 DEF SinkWrite
  <2>2. block \in ChunkAt /\ Append(written, block) \in Seq(ChunkAt)
    BY <1>1, <2>1
  <2>3. Out' = (Append(written, block) \o <<>>) \o output_q
    BY <2>1 DEF Out
  <2>4. Out = (written \o <<block>>) \o output_q
    BY <2>1 DEF Out
  <2>5. Out' = Out
    BY <1>1, <2>2, <2>3, <2>4, WrittenSame
  <2> QED
    BY <1>1, <1>2, <2>1, <2>2, <2>5, OutStays
<1>6. CASE OnWriteComplete
  <2>1. sink = "release" /\ sink' = "top" /\ written' = written /\ output_q' = output_q
    BY <1>6 DEF OnWriteComplete
  <2>2. Out' = Out
    BY <2>1 DEF Out
  <2> QED
    BY <1>1, <1>2, <2>1, <2>2, OutStays
<1> QED
  BY <1>3, <1>4, <1>5, <1>6

LEMMA WorkerOut ==
  ASSUME CountInv, MasterInv, ChunkInv, ReadTypes, ReadInv, ParseInv, OutInv, NEW w \in Workers, Worker(w)
  PROVE  OutInv'
<1>1. CASE \/ /\ WorkerEnter(w) \/ WorkerWait(w, can_terminate) \/ WorkerExit(w, can_terminate)
              /\ UNCHANGED jobVars
           \/ ParseFail(w) \/ ReorderFail(w) \/ RejectBogus(w)
           \/ DoParse(w) \/ DoRetrieve(w) \/ Decoded(w) \/ DoEmit(w) \/ Emitted(w) \/ DoScan(w)
  <2>1. UNCHANGED <<stream, order_q, sinkVars, parser_bs>>
    BY <1>1 DEF WorkerEnter, WorkerWait, WorkerExit, jobVars, queueVars, parserVars, ParseFail, ReorderFail,
       Fail, RejectBogus, DoParse, DoRetrieve, Decoded, DoEmit, Emitted, DoScan
  <2> QED
    BY <2>1, QuietOut
<1>2. CASE RetrieveAbort(w) \/ RetrieveMoreAhead(w) \/ RetrieveOverAhead(w)
             \/ ScanNothing(w) \/ ScanKnown(w) \/ ScanUnique(w)
  <2>1. UNCHANGED <<stream, order_q, sinkVars, parser_bs>>
    BY <1>2 DEF queueVars, RetrieveAbort, RetrieveMoreAhead, RetrieveOverAhead, ScanNothing, ScanKnown,
       ScanUnique, ScanReturns, Detach, ReleaseRefs
  <2> QED
    BY <2>1, QuietOut
<1>3. CASE ParseMore(w) \/ RetrieveMoreAsMaster(w) \/ RetrieveOverAsMaster(w)
  BY <1>3, MasterGoesOut
<1>4. CASE ParseFinish(w)
  BY <1>4, ParseFinishOut
<1>5. CASE ParseUnique(w) \/ ParseTaken(w)
  <2>1. UNCHANGED sinkVars
    BY <1>5 DEF ParseUnique, ParseTaken, BlockParsed
  <2>2. \E u, bs : BlockFound(w, u, bs)
    BY <1>5, ParseUniqueFinds, ParseTakenFinds
  <2> QED
    BY <2>1, <2>2, FoundOut
<1>6. CASE DoReorder(w)
  BY <1>6, DoReorderOut
<1> QED
  BY <1>1, <1>2, <1>3, <1>4, <1>5, <1>6 DEF Worker, Parsing, Retrieving

LEMMA NextOut ==
  ASSUME CountInv, MasterInv, ChunkInv, ReadTypes, ReadInv, ParseInv, OutInv, [Next]_vars
  PROVE  OutInv'
<1>1. CASE Source \/ Sink \/ Primary \/ Spurious \/ UNCHANGED vars
  <2>1. UNCHANGED <<stream, order_q, parser_bs>>
    <3>1. CASE OnInputAvail
      BY <3>1 DEF OnInputAvail, parserVars
    <3>2. CASE UNCHANGED jobVars
      BY <3>2 DEF jobVars, queueVars, parserVars
    <3> QED
      BY <1>1, <3>1, <3>2 DEF Source, InputRefused, InputEnds, Sink, OnWriteComplete, Primary, Killed,
         Spurious, vars
  <2>2. \/ UNCHANGED <<output_q, written, block>> /\ (sink' = "write") = (sink = "write")
        \/ SinkTake \/ SinkWrite \/ OnWriteComplete
    BY <1>1 DEF Source, OnInputAvail, InputRefused, InputEnds, SourceOnly,
       SourceStall, SourceTakeSlot, SourceClosed, SourceRead, Sink, SinkOnly,
       SinkStall, SinkExit, Primary, Killed, PrimaryOnly, JoinWorkersAndSource,
       JoinSink, Spurious, SpuriousWakeup, vars, procVars, sinkVars
  <2> QED
    BY <2>1, <2>2, SinkOut
<1>2. ASSUME NEW w \in Workers, Worker(w) PROVE OutInv'
  BY <1>2, WorkerOut
<1> QED
  BY <1>1, <1>2 DEF Next, Over

LEMMA InitOut == Init => OutInv
<1> SUFFICES ASSUME Init PROVE OutInv
  OBVIOUS
<1>1. /\ StreamOK(stream) /\ written = <<>> /\ output_q = <<>> /\ sink = "top" /\ order_q = <<>>
      /\ parser_bs = bits_init(0)
  BY ExpansionAssumption DEF Init, ProcessInit
<1>2. parser_bs.pos[1] = 0
  <2>1. parser_bs = BitsAt(0, 0)
    BY <1>1 DEF bits_init
  <2> QED
    BY <2>1 DEF BitsAt
<1>3. Out = <<>>
  <2>1. <<>> \in Seq(ChunkAt)
    OBVIOUS
  <2>2. <<>> \o <<>> = <<>>
    BY <2>1, ConcatEmptySeq
  <2> QED
    BY <1>1, <2>2 DEF Out
<1>4. ComeTo(stream, 0) = {}
  <2> SUFFICES ASSUME NEW u \in RealBases(stream), u <= 0 PROVE FALSE
    BY DEF ComeTo
  <2>1. PICK i \in 1 .. Len(stream.blocks) : stream.blocks[i] = Pattern(stream, u)
    BY <1>1, RealOf
  <2>2. Pattern(stream, u).base = u /\ u \in Nat
    BY <1>1, RealOf, PatternOf
  <2>3. From(stream, i) + 5 <= stream.blocks[i].base /\ From(stream, i) \in Nat
    BY <1>1, BlocksAre
  <2>4. From(stream, i) + 5 <= u
    BY <2>1, <2>2, <2>3
  <2> QED
    BY <2>2, <2>3, <2>4
<1>5. ToSet(<<>>) = {}
  BY DEF ToSet
<1>6. OutOf(stream, 0, <<>>, <<>>)
  <2>1. <<>> \in Seq(ChunkAt) /\ Sorted(<<>>)
    BY DEF Sorted
  <2>2. SentOnly(stream, 0, <<>>, <<>>) /\ SentAll(stream, 0, <<>>, <<>>)
    BY <1>4, <1>5 DEF SentOnly, SentAll
  <2>3. NextInOrder(stream, 0, <<>>)
    BY <1>5 DEF NextInOrder, Bases
  <2> QED
    BY <2>1, <2>2, <2>3 DEF OutOf
<1>7. OutOf(stream, parser_bs.pos[1], order_q, Out)
  BY <1>1, <1>2, <1>3, <1>6
<1>8. written \in Seq(ChunkAt) /\ output_q \in Seq(ChunkAt) /\ (sink = "write" => block \in ChunkAt)
  BY <1>1
<1> QED
  BY <1>3, <1>5, <1>7, <1>8 DEF OutInv

(***************************************************************************)
(* The steps of the sequential decoder.                                    *)
(***************************************************************************)
Known == CountInv /\ MasterInv /\ ChunkInv /\ EndInv /\ FaithInv

LEMMA ChunksOfIs ==
  ASSUME NEW i \in 1 .. Len(stream.blocks)
  PROVE  Abstract!Cardinality(Abstract!ChunksOf(i)) = Cardinality(ChunksIn(written, stream.blocks[i].base))
<1>1. Abstract!ChunksOf(i) = ChunksIn(written, stream.blocks[i].base)
  BY DEF Abstract!ChunksOf, ChunksIn
<1>2. \A S : Abstract!Cardinality(S) = Cardinality(S)
  BY DEF Abstract!Cardinality, Cardinality
<1> QED
  BY <1>1, <1>2

(* What the sink writes is the next chunk.                                 *)
LEMMA WritesNext ==
  ASSUME Known, SinkWrite, ~ Gone, UNCHANGED stream
  PROVE  Abstract!Write
<1>1. /\ sink = "write" /\ written' = Append(written, block)
      /\ verdict = "working" /\ verdict' = "working"
  BY DEF SinkWrite, Gone, verdict
<1>2. /\ written \in Seq(ChunkAt) /\ output_q \in Seq(ChunkAt) /\ block \in ChunkAt
      /\ OutOf(stream, parser_bs.pos[1], order_q, Out)
      /\ \A e \in ToSet(Out) : ~ Damaged(e.pos)
  BY <1>1 DEF Known, FaithInv, OutInv
<1>3. StreamOK(stream) /\ order_q \in Seq(ChunkAt) /\ InOrder(order_q)
  BY MasterParts DEF Known, ChunkInv, ChunkTypes
<1>t. parser_bs.pos[1] \in Nat
  <2>1. MasterInv /\ ParseInv /\ stream.stop \in Nat
    BY ReadTyped DEF Known, FaithInv
  <2>2. CASE parsing_done
    BY <2>1, <2>2 DEF ParseInv
  <2>3. CASE ~ parsing_done
    BY <2>1, <2>3 DEF MasterInv, ParserPlaced, PlaceOK, Bits, UnitPos
  <2> QED
    BY <2>2, <2>3
<1>4. Out = (written \o <<block>>) \o output_q
  BY <1>1 DEF Out
<1> DEFINE out == Out
           p == parser_bs.pos[1]
           n == Len(written)
<1>5. Opens(written, out) /\ n < Len(out) /\ out[n + 1] = block
  BY <1>2, <1>4, WrittenFirst
<1>6. out \in Seq(ChunkAt) /\ n \in Nat
  BY <1>2 DEF OutOf
<1>7. block \in ToSet(out)
  <2> HIDE DEF out, n
  <2>1. n + 1 \in 1 .. Len(out) /\ \A i \in 1 .. Len(out) : out[i] \in ToSet(out)
    BY <1>5, <1>6, ToSetOf
  <2> QED
    BY <1>5, <2>1
<1>8. HasTurn(stream, written, block)
  <2>1. IsNext(written, out, block)
    BY <1>5 DEF IsNext
  <2> HIDE DEF out, p, n
  <2>2. p \in Nat /\ OutOf(stream, p, order_q, out)
    BY <1>2, <1>t DEF out, p
  <2> QED
    BY <1>3, <2>1, <2>2, TurnOf
<1>9. PICK i \in 1 .. Len(stream.blocks) :
        LET b == stream.blocks[i]
            k == Cardinality(ChunksIn(written, b.base))
        IN /\ block = [pos |-> <<b.base, k>>] /\ k < b.chunks /\ Pattern(stream, b.base) = b
           /\ \A j \in 1 .. i - 1 :
                Cardinality(ChunksIn(written, stream.blocks[j].base)) = stream.blocks[j].chunks
  BY <1>8 DEF HasTurn
<1> DEFINE b == stream.blocks[i]
           k == Cardinality(ChunksIn(written, b.base))
<1>10. Abstract!Cardinality(Abstract!ChunksOf(i)) = k
  BY ChunksOfIs
<1>11. Abstract!Turn(i)
  <2>1. \A j \in 1 .. i - 1 : j \in 1 .. Len(stream.blocks)
    BY <1>3, BlocksAre DEF StreamOK
  <2>2. \A j \in 1 .. i - 1 : Abstract!Cardinality(Abstract!ChunksOf(j)) = stream.blocks[j].chunks
    BY <1>9, <2>1, ChunksOfIs
  <2> QED
    BY <1>9, <1>10, <2>2 DEF Abstract!Turn
<1>12. ~ Abstract!Damage(b, k)
  <2>1. ~ Damaged(block.pos) /\ block.pos[1] = b.base /\ block.pos[2] = k
    BY <1>2, <1>7, <1>9
  <2> QED
    BY <1>9, <2>1 DEF Damaged, IsLast, Abstract!Damage
<1>13. written' = Append(written, [pos |-> <<b.base, k>>])
  BY <1>1, <1>9
<1> HIDE DEF k
<1> QED
  BY <1>1, <1>10, <1>11, <1>12, <1>13 DEF Abstract!Write

(* At the end everything has been written, and is sound.                   *)
LEMMA SucceedsLast ==
  ASSUME Known, JoinSink, UNCHANGED stream
  PROVE  Abstract!Succeed
<1>1. /\ shutdown = "draining" /\ verdict = "working" /\ verdict' = "well" /\ written' = written
  BY DEF JoinSink, verdict, sinkVars
<1>2. \A w \in Workers : pc[w] = "done"
  BY <1>1 DEF Known, EndInv
<1>3. can_terminate
  BY <1>2, ExpansionAssumption DEF Known, EndInv
<1>4. /\ parsing_done /\ output_q = <<>> /\ sink # "write" /\ order_q = <<>>
  <2>1. /\ retr_q = <<>> /\ emit_q = <<>> /\ reord_q = <<>> /\ output_q = <<>>
        /\ sink \notin {"write", "release"}
    BY <1>3, Ended DEF Known
  <2>2. order_q = <<>>
    BY <1>2, <2>1, AllExpectedWritten DEF Known
  <2> QED
    BY <1>3, <2>1, <2>2 DEF can_terminate
<1>5. /\ stream.intact /\ stream.stop <= stream.len
      /\ \A u \in RealBases(stream) : u <= parser_bs.pos[1]
  BY <1>4 DEF Known, FaithInv, ParseInv
<1>6. /\ written \in Seq(ChunkAt) /\ OutOf(stream, parser_bs.pos[1], <<>>, Out)
      /\ \A e \in ToSet(Out) : ~ Damaged(e.pos)
  BY <1>4 DEF Known, FaithInv, OutInv
<1>7. Out = written
  <2>1. Out = (written \o <<>>) \o <<>>
    BY <1>4 DEF Out
  <2> QED
    BY <1>6, <2>1, ConcatEmptySeq
<1>8. StreamOK(stream) /\ RealBases(stream) \subseteq ComeTo(stream, parser_bs.pos[1])
  BY <1>5, MasterParts DEF Known, ComeTo
<1>9. ASSUME NEW i \in 1 .. Len(stream.blocks)
      PROVE  /\ Cardinality(ChunksIn(written, stream.blocks[i].base)) = stream.blocks[i].chunks
             /\ stream.blocks[i].defect = "none" /\ stream.blocks[i].chunks \in Nat
  <2> DEFINE b == stream.blocks[i]
             p == parser_bs.pos[1]
  <2>1. LET c == stream.blocks[i]
        IN /\ Cardinality(ChunksIn(written, c.base)) = c.chunks /\ c.chunks \in Nat
           /\ \E e \in ToSet(written) : e.pos = <<c.base, c.chunks - 1>> /\ Pattern(stream, c.base) = c
    <3>1. RealBases(stream) \subseteq ComeTo(stream, p) /\ OutOf(stream, p, <<>>, written)
      BY <1>6, <1>7, <1>8
    <3> HIDE DEF p
    <3> QED
      BY <1>8, <3>1, AllSent
  <2>2. PICK e \in ToSet(written) : e.pos = <<b.base, b.chunks - 1>> /\ Pattern(stream, b.base) = b
    BY <2>1
  <2>3. ~ Damaged(<<b.base, b.chunks - 1>>)
    BY <1>6, <1>7, <2>2
  <2>4. IsLast(<<b.base, b.chunks - 1>>)
    BY <2>1, <2>2 DEF IsLast
  <2>5. b.defect = "none"
    BY <2>2, <2>3, <2>4 DEF Damaged
  <2> QED
    BY <2>1, <2>5
<1>10. \A i \in 1 .. Len(stream.blocks) : ~ Abstract!Turn(i)
  <2> SUFFICES ASSUME NEW i \in 1 .. Len(stream.blocks), Abstract!Turn(i) PROVE FALSE
    OBVIOUS
  <2>1. Abstract!Cardinality(Abstract!ChunksOf(i)) = stream.blocks[i].chunks /\ stream.blocks[i].chunks \in Nat
    BY <1>9, ChunksOfIs
  <2>2. Abstract!Cardinality(Abstract!ChunksOf(i)) < stream.blocks[i].chunks
    BY DEF Abstract!Turn
  <2> QED
    BY <2>1, <2>2
<1>11. Sound(stream)
  <2>1. \A b \in ToSet(stream.blocks) : \E i \in 1 .. Len(stream.blocks) : stream.blocks[i] = b
    BY <1>8, ToSetOf DEF StreamOK
  <2> QED
    BY <1>5, <1>9, <2>1 DEF Sound
<1> QED
  BY <1>1, <1>10, <1>11 DEF Abstract!Succeed, Abstract!Sound, Sound, Abstract!ToSet, ToSet

(* Who gives up has a reason.                                              *)
LEMMA GivesUp ==
  ASSUME Known, Killed
  PROVE  Abstract!GiveUp
<1>1. /\ failed /\ shutdown \notin {"done", "killed"} /\ shutdown' = "killed"
      /\ UNCHANGED <<stream, written>>
  BY DEF Killed, Gone, sinkVars, jobVars
<1>2. ~ Sound(stream)
  BY <1>1 DEF Known, FaithInv, FailInv
<1>3. verdict = "working" /\ verdict' = "error"
  BY <1>1 DEF verdict
<1> QED
  BY <1>1, <1>2, <1>3 DEF Abstract!GiveUp, Abstract!Sound, Sound, Abstract!ToSet, ToSet

(* Nothing else is seen from outside.                                      *)
LEMMA Unseen ==
  ASSUME UNCHANGED <<stream, written>>,
         shutdown' = shutdown \/ (shutdown = "running" /\ shutdown' = "draining")
  PROVE  UNCHANGED Abstract!vars
<1>1. verdict' = verdict
  BY DEF verdict
<1> QED
  BY <1>1 DEF Abstract!vars

LEMMA WorkerUnseen ==
  ASSUME NEW w \in Workers, Worker(w)
  PROVE  UNCHANGED <<stream, written, shutdown>>
<1>1. CASE Parsing(w)
  BY <1>1 DEF Parsing, DoParse, ParseMore, ParseFail, Fail, ParseFinish, ParseUnique, ParseTaken,
     BlockParsed, Advance, ReleaseRefs, sinkVars
<1>2. CASE Retrieving(w)
  BY <1>2 DEF Retrieving, DoRetrieve, RetrieveAbort, RetrieveMoreAsMaster, RetrieveMoreAhead,
     RetrieveOverAsMaster, RetrieveOverAhead, Decoded, Detach, Advance, ReleaseRefs, sinkVars
<1>3. CASE ~ Parsing(w) /\ ~ Retrieving(w)
  BY <1>3 DEF Worker, WorkerEnter, WorkerWait, WorkerExit, DoEmit, Emitted, RejectBogus,
     ReorderFail, Fail, DoReorder, SinkWriteBuffer, DoScan, ScanNothing, ScanKnown, ScanUnique,
     ScanReturns, Detach, ReleaseRefs, sinkVars, jobVars
<1> QED
  BY <1>1, <1>2, <1>3

LEMMA NextSeen ==
  ASSUME Known, [Next]_vars
  PROVE  [Abstract!Next]_(Abstract!vars)
<1>1. ASSUME NEW w \in Workers, Worker(w) PROVE UNCHANGED Abstract!vars
  BY <1>1, WorkerUnseen, Unseen
<1>2. CASE SinkWrite /\ ~ Gone /\ UNCHANGED jobVars
  BY <1>2, WritesNext DEF jobVars, Abstract!Next
<1>3. CASE JoinSink /\ UNCHANGED jobVars
  BY <1>3, SucceedsLast DEF jobVars, Abstract!Next
<1>4. CASE Killed
  BY <1>4, GivesUp DEF Abstract!Next
<1>5. CASE Source \/ Spurious \/ Over \/ UNCHANGED vars
  <2>1. UNCHANGED <<stream, written, shutdown>>
    BY <1>5 DEF Source, OnInputAvail, InputRefused, InputEnds, SourceOnly, SourceStall, SourceTakeSlot,
       SourceClosed, SourceRead, Spurious, SpuriousWakeup, Over, vars, procVars, sinkVars, jobVars
  <2> QED
    BY <2>1, Unseen
<1>6. CASE OnWriteComplete \/ ((SinkStall \/ SinkTake \/ SinkExit) /\ UNCHANGED jobVars)
  <2>1. UNCHANGED <<stream, written, shutdown>>
    BY <1>6 DEF OnWriteComplete, SinkStall, SinkTake, SinkExit, jobVars
  <2> QED
    BY <2>1, Unseen
<1>7. CASE JoinWorkersAndSource /\ UNCHANGED jobVars
  <2>1. UNCHANGED <<stream, written>> /\ shutdown = "running" /\ shutdown' = "draining"
    BY <1>7 DEF JoinWorkersAndSource, jobVars
  <2> QED
    BY <2>1, Unseen
<1>8. \/ (\E w \in Workers : Worker(w))
      \/ Source \/ Spurious \/ Over \/ UNCHANGED vars \/ Killed
      \/ OnWriteComplete \/ ((SinkStall \/ SinkTake \/ SinkExit) /\ UNCHANGED jobVars)
      \/ (SinkWrite /\ ~ Gone /\ UNCHANGED jobVars)
      \/ (JoinWorkersAndSource /\ UNCHANGED jobVars) \/ (JoinSink /\ UNCHANGED jobVars)
  BY DEF Next, Sink, SinkOnly, Primary, PrimaryOnly
<1> QED
  BY <1>1, <1>2, <1>3, <1>4, <1>5, <1>6, <1>7, <1>8

LEMMA NextFaith == Known /\ [Next]_vars => FaithInv'
<1> SUFFICES ASSUME Known, [Next]_vars PROVE FaithInv'
  OBVIOUS
<1>1. CountInv /\ MasterInv /\ ChunkInv /\ EndInv /\ ReadInv /\ ParseInv /\ FailInv /\ OutInv
  BY DEF Known, FaithInv
<1>2. ReadTypes /\ MasterInv'
  BY <1>1, ReadTyped, NextMaster
<1>3. ReadInv'
  BY <1>1, <1>2, NextRead
<1>4. ParseInv'
  BY <1>1, <1>2, NextPlace
<1>5. FailInv'
  BY <1>1, <1>2, NextFail
<1>6. OutInv'
  BY <1>1, <1>2, NextOut
<1> QED
  BY <1>3, <1>4, <1>5, <1>6 DEF FaithInv

LEMMA InitFaith == Init => FaithInv
BY InitRead, InitPlace, InitFail, InitOut DEF FaithInv

(* The decompressor, whatever it guesses and however its threads take      *)
(* turns, writes what a decoder of one block after the other would, never  *)
(* a damaged block to its end; it fails only on files that are not sound,  *)
(* and says that all is well only when all of a sound one is written.      *)
THEOREM ExpansionImplementsDecoder == Spec => ImplementsSequentialDecoder
<1>1. Init => Abstract!Init
  BY DEF Init, ProcessInit, Abstract!Init, verdict
<1>2. Init => Known
  BY InitCounts, InitMaster, InitChunks, InitEnd, InitFaith DEF Known
<1>3. Known /\ [Next]_vars => Known'
  <2>1. Known /\ [Next]_vars => (CountInv /\ MasterInv /\ ChunkInv /\ EndInv)'
    BY NextCounts, NextMaster, NextChunks, NextEnd DEF Known
  <2> QED
    BY <2>1, NextFaith DEF Known
<1>4. Known /\ [Next]_vars => [Abstract!Next]_(Abstract!vars)
  BY NextSeen
<1> QED
  BY <1>1, <1>2, <1>3, <1>4, PTL DEF Spec, ImplementsSequentialDecoder
=============================================================================

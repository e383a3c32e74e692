----------------------------- MODULE JobProofs -----------------------------
(***************************************************************************)
(* Proofs about the process around the jobs, for any command line, any     *)
(* files and any number of threads, any of which may fail at any time.     *)
(*                                                                         *)
(* The library's induction theorems take operators, which cannot be        *)
(* instantiated here; what the two loops over arguments and letters yield  *)
(* is shown by Induction, which is about a set of numbers.                 *)
(***************************************************************************)
EXTENDS JobProps, SequenceTheorems, WellFoundedInduction, TLAPS

(***************************************************************************)
(* The inductive invariant.                                                *)
(***************************************************************************)
Holding == {"promote", "raise", "gone"}

(* Where the main thread is tells whether the process runs, whether the    *)
(* signals are masked and whether there may be threads.                    *)
MainInv ==
  /\ status = "running" <=> at # "over"
  /\ at # "over" => (masked <=> at \in {"work", "halt", "close", "rm", "sti"})
  /\ at \notin {"opts", "end", "over"} /\ outmode = "regf" => operands # <<>>
  /\ at \in {"close", "rm"} => outmode = "regf"
  /\ at = "rm" => ~ keep
  /\ opathn # {} => outmode = "regf" /\ at \in {"work", "halt", "close"}

(* When SIGUSR2 has been raised all threads are done.                      *)
ThreadInv ==
  /\ thread \in [SubThreads -> ThreadStates]
  /\ at \notin {"halt", "over"} => \A t \in SubThreads : thread[t] = "idle"
  /\ "USR2" \in pending /\ at # "over" =>
       at = "halt" /\ \A t \in SubThreads : thread[t] = "done"

(* One thread at most is in bailout().  From its promote() on what is      *)
(* pending for it is pending for the process, and SIGUSR1 comes after.     *)
BailoutInv ==
  /\ stderr_lock \in SubThreads \cup {NULL}
  /\ tpending \in [SubThreads \cup {"main"} -> SUBSET (blocked_signals \ ignored)]
  /\ at # "over" =>
       /\ stderr_lock # NULL => at = "halt" /\ thread[stderr_lock] \in Holding
       /\ \A t \in SubThreads : thread[t] \in Holding => stderr_lock = t
       /\ \A t \in SubThreads : thread[t] \in {"raise", "gone"} => tpending[t] \subseteq pending
       /\ "USR1" \in pending => stderr_lock # NULL /\ thread[stderr_lock] = "gone"

(* Only the current output file is not complete, and it is when SIGUSR2    *)
(* has been raised.                                                        *)
FileInv ==
  /\ fs = [n \in DOMAIN fs |-> fs[n]]
  /\ opathn \subseteq DOMAIN fs
  /\ \A n \in opathn : fs[n] = File(fs[n].data, fs[n].packed, fs[n].whole)
  /\ \A n \in DOMAIN fs \ opathn : fs[n].whole
  /\ at = "close" \/ (at = "halt" /\ "USR2" \in pending) => \A n \in DOMAIN fs : fs[n].whole

(* All original files are where they were.                                 *)
InPlace ==
  \A f \in original : f \in DOMAIN fs \ opathn /\ fs[f].data = f

(* The data of all of them is in some file that is not the output file.    *)
Survives ==
  \A f \in original : \E n \in DOMAIN fs \ opathn : fs[n].data = f

(* A second file holds the data of the current input file: the current     *)
(* output file, and once this is closed a complete one.                    *)
Saved(files) ==
  Head(operands) \in DOMAIN fs =>
    \E n \in files : n # Head(operands) /\ fs[n].data = fs[Head(operands)].data

LossInv ==
  /\ at = "opts" => ~ force /\ InPlace
  /\ ~ force /\ (keep \/ outmode # "regf") => InPlace
  /\ ~ force => Survives
  /\ ~ force /\ at = "output" /\ outmode = "regf" => Head(operands) \in DOMAIN fs
  /\ ~ force /\ at \in {"work", "halt", "close"} /\ outmode = "regf" => Saved(opathn)
  /\ ~ force /\ at = "rm" => Saved(DOMAIN fs)

JobInv ==
  MainInv /\ ThreadInv /\ BailoutInv /\ FileInv /\ LossInv /\ PipeTold

(***************************************************************************)
(* Options.                                                                *)
(***************************************************************************)
(* Without operands the output does not go to a regular file.              *)
LEMMA FilterWritesStdout ==
  ASSUME NEW o, NEW i, NEW p, opts_setup(o, i, p).args_state \notin {"usage", "version", "fail"}
  PROVE  opts_setup(o, i, p).outmode = "regf" => opts_setup(o, i, p).operands # <<>>
<1>1. o.args_state \notin {"usage", "version", "fail"}
  BY DEF opts_setup
<1>2. opts_setup(o, i, p) \in {Finished(o), Fail(Finished(o))}
  BY <1>1 DEF opts_setup
<1>3. Fail(Finished(o)).args_state = "fail"
  BY DEF Fail, Finished
<1>4. opts_setup(o, i, p) = Finished(o)
  BY <1>2, <1>3
<1> QED
  BY <1>4 DEF Finished

(***************************************************************************)
(* The command line.                                                       *)
(***************************************************************************)
(* Induction up to n, over a set of numbers.                               *)
LEMMA Induction ==
  ASSUME NEW n \in Nat, NEW S, 0 \in S, \A i \in 0 .. n : i < n /\ i \in S => i + 1 \in S
  PROVE  \A i \in 0 .. n : i \in S
<1> SUFFICES ASSUME \E i \in 0 .. n : i \notin S PROVE FALSE
  OBVIOUS
<1> DEFINE Others == {i \in 0 .. n : i \notin S}
<1>1. Others # {} /\ Others \subseteq Nat
  OBVIOUS
<1>2. PICK m \in Others : \A k \in Others : ~ (<<k, m>> \in OpToRel(<, Nat))
  <2>1. IsWellFoundedOn(OpToRel(<, Nat), Nat)
    BY NatLessThanWellFounded
  <2> HIDE DEF Others
  <2> QED
    BY <1>1, <2>1, WFMin
<1>3. \A k \in Others : ~ (k < m)
  BY <1>1, <1>2 DEF OpToRel
<1>4. m \in 0 .. n /\ m # 0 /\ m \notin S
  OBVIOUS
<1>5. m - 1 \in 0 .. n /\ m - 1 < n /\ m - 1 < m /\ (m - 1) + 1 = m
  BY <1>4
<1>6. m - 1 \notin S
  BY <1>4, <1>5
<1> QED
  BY <1>3, <1>5, <1>6

(* The loops that are written as recursive functions have a result at      *)
(* every point: of the letters of a cluster, of the arguments, and of the  *)
(* operands among them.                                                    *)
AfterLetters(o, letters, attached, after) ==
  /\ ShortOptions(o, letters, attached) = after[Len(letters)]
  /\ after[0] = o
  /\ \A i \in 1 .. Len(letters) :
       after[i] = ShortOption(after[i - 1], letters[i], attached)

AfterArguments(pname, args, after) ==
  /\ Parsed(pname, args) = after[Len(args)]
  /\ after[0] = Defaults(pname)
  /\ \A i \in 1 .. Len(args) : after[i] = Argument(after[i - 1], args[i])

(* What the loop in OperandsOf does at argument i.                         *)
OneMore(among, args, i) ==
  IF IsOperand(args, i) THEN Append(among, args[i].text) ELSE among

AmongArguments(args, among) ==
  /\ OperandsOf(args) = among[Len(args)]
  /\ among[0] = <<>>
  /\ \A i \in 1 .. Len(args) : among[i] = OneMore(among[i - 1], args, i)

LEMMA LettersLoop ==
  ASSUME NEW o, NEW letters, NEW attached, Len(letters) \in Nat
  PROVE  \E after : AfterLetters(o, letters, attached, after)
<1> DEFINE n == Len(letters)
           IsLoop(f, m) == f = [i \in 0 .. m |-> IF i = 0 THEN o
                                                 ELSE ShortOption(f[i - 1], letters[i], attached)]
           S == {m \in 0 .. n : \E f : IsLoop(f, m)}
<1>1. 0 \in S
  <2>1. PICK g : g = [i \in 0 .. 0 |-> o]
    OBVIOUS
  <2>2. \A i \in 0 .. 0 : g[i] = IF i = 0 THEN o ELSE ShortOption(g[i - 1], letters[i], attached)
    BY <2>1
  <2>3. IsLoop(g, 0)
    BY <2>1, <2>2
  <2> QED
    BY <2>3
<1>2. ASSUME NEW m \in 0 .. n, m < n, m \in S PROVE m + 1 \in S
  <2>1. PICK f : IsLoop(f, m)
    BY <1>2
  <2> DEFINE g == [i \in 0 .. m + 1 |-> IF i = m + 1 THEN ShortOption(f[m], letters[m + 1], attached)
                                        ELSE f[i]]
  <2>2. ASSUME NEW i \in 0 .. m + 1
        PROVE  g[i] = IF i = 0 THEN o ELSE ShortOption(g[i - 1], letters[i], attached)
    <3>1. CASE i = m + 1
      <4>1. m \in 0 .. m + 1 /\ m # m + 1 /\ i # 0 /\ i - 1 = m
        BY <1>2, <3>1
      <4>2. g[i] = ShortOption(f[m], letters[i], attached) /\ g[m] = f[m]
        BY <3>1, <4>1
      <4> QED
        BY <4>1, <4>2
    <3>2. CASE i # m + 1 /\ i # 0
      <4>1. i \in 0 .. m /\ i - 1 \in 0 .. m + 1 /\ i - 1 # m + 1
        BY <1>2, <3>2
      <4>2. g[i] = f[i] /\ g[i - 1] = f[i - 1]
        BY <3>2, <4>1
      <4>3. f[i] = ShortOption(f[i - 1], letters[i], attached)
        BY <2>1, <3>2, <4>1
      <4> QED
        BY <3>2, <4>2, <4>3
    <3>3. CASE i = 0
      <4>1. 0 \in 0 .. m /\ 0 # m + 1
        BY <1>2
      <4>2. f[0] = o
        BY <2>1, <4>1
      <4> QED
        BY <3>3, <4>1, <4>2
    <3> QED
      BY <3>1, <3>2, <3>3
  <2>3. g = [i \in 0 .. m + 1 |-> g[i]]
    OBVIOUS
  <2>4. IsLoop(g, m + 1)
    <3> HIDE DEF g
    <3> QED
      BY <2>2, <2>3
  <2>5. m + 1 \in 0 .. n
    BY <1>2
  <2> QED
    BY <2>4, <2>5
<1>3. \E f : IsLoop(f, n)
  <2>1. n \in Nat /\ n \in 0 .. n
    OBVIOUS
  <2>2. \A i \in 0 .. n : i \in S
    <3> HIDE DEF S, n
    <3> QED
      BY <1>1, <1>2, <2>1, Induction
  <2> QED
    BY <2>1, <2>2
<1>4. PICK f : IsLoop(f, n) /\ ShortOptions(o, letters, attached) = f[n]
  BY <1>3 DEF ShortOptions
<1>5. f[0] = o /\ \A i \in 1 .. n : f[i] = ShortOption(f[i - 1], letters[i], attached)
  <2>1. 0 \in 0 .. n
    OBVIOUS
  <2>2. \A i \in 1 .. n : i \in 0 .. n /\ i # 0
    OBVIOUS
  <2> QED
    BY <1>4, <2>1, <2>2
<1> HIDE DEF IsLoop
<1> QED
  BY <1>4, <1>5 DEF AfterLetters

LEMMA ArgumentsLoop ==
  ASSUME NEW pname, NEW args, Len(args) \in Nat
  PROVE  \E after : AfterArguments(pname, args, after)
<1> DEFINE n == Len(args)
           IsLoop(f, m) == f = [i \in 0 .. m |-> IF i = 0 THEN Defaults(pname)
                                                 ELSE Argument(f[i - 1], args[i])]
           S == {m \in 0 .. n : \E f : IsLoop(f, m)}
<1>1. 0 \in S
  <2>1. PICK g : g = [i \in 0 .. 0 |-> Defaults(pname)]
    OBVIOUS
  <2>2. \A i \in 0 .. 0 : g[i] = IF i = 0 THEN Defaults(pname) ELSE Argument(g[i - 1], args[i])
    BY <2>1
  <2>3. IsLoop(g, 0)
    BY <2>1, <2>2
  <2> QED
    BY <2>3
<1>2. ASSUME NEW m \in 0 .. n, m < n, m \in S PROVE m + 1 \in S
  <2>1. PICK f : IsLoop(f, m)
    BY <1>2
  <2> DEFINE g == [i \in 0 .. m + 1 |-> IF i = m + 1 THEN Argument(f[m], args[m + 1])
                                        ELSE f[i]]
  <2>2. ASSUME NEW i \in 0 .. m + 1
        PROVE  g[i] = IF i = 0 THEN Defaults(pname) ELSE Argument(g[i - 1], args[i])
    <3>1. CASE i = m + 1
      <4>1. m \in 0 .. m + 1 /\ m # m + 1 /\ i # 0 /\ i - 1 = m
        BY <1>2, <3>1
      <4>2. g[i] = Argument(f[m], args[i]) /\ g[m] = f[m]
        BY <3>1, <4>1
      <4> QED
        BY <4>1, <4>2
    <3>2. CASE i # m + 1 /\ i # 0
      <4>1. i \in 0 .. m /\ i - 1 \in 0 .. m + 1 /\ i - 1 # m + 1
        BY <1>2, <3>2
      <4>2. g[i] = f[i] /\ g[i - 1] = f[i - 1]
        BY <3>2, <4>1
      <4>3. f[i] = Argument(f[i - 1], args[i])
        BY <2>1, <3>2, <4>1
      <4> QED
        BY <3>2, <4>2, <4>3
    <3>3. CASE i = 0
      <4>1. 0 \in 0 .. m /\ 0 # m + 1
        BY <1>2
      <4>2. f[0] = Defaults(pname)
        BY <2>1, <4>1
      <4> QED
        BY <3>3, <4>1, <4>2
    <3> QED
      BY <3>1, <3>2, <3>3
  <2>3. g = [i \in 0 .. m + 1 |-> g[i]]
    OBVIOUS
  <2>4. IsLoop(g, m + 1)
    <3> HIDE DEF g
    <3> QED
      BY <2>2, <2>3
  <2>5. m + 1 \in 0 .. n
    BY <1>2
  <2> QED
    BY <2>4, <2>5
<1>3. \E f : IsLoop(f, n)
  <2>1. n \in Nat /\ n \in 0 .. n
    OBVIOUS
  <2>2. \A i \in 0 .. n : i \in S
    <3> HIDE DEF S, n
    <3> QED
      BY <1>1, <1>2, <2>1, Induction
  <2> QED
    BY <2>1, <2>2
<1>4. PICK f : IsLoop(f, n) /\ Parsed(pname, args) = f[n]
  BY <1>3 DEF Parsed
<1>5. f[0] = Defaults(pname) /\ \A i \in 1 .. n : f[i] = Argument(f[i - 1], args[i])
  <2>1. 0 \in 0 .. n
    OBVIOUS
  <2>2. \A i \in 1 .. n : i \in 0 .. n /\ i # 0
    OBVIOUS
  <2> QED
    BY <1>4, <2>1, <2>2
<1> HIDE DEF IsLoop
<1> QED
  BY <1>4, <1>5 DEF AfterArguments

LEMMA OperandsLoop ==
  ASSUME NEW args, Len(args) \in Nat
  PROVE  \E among : AmongArguments(args, among)
<1> DEFINE n == Len(args)
           IsLoop(f, m) == f = [i \in 0 .. m |-> IF i = 0 THEN <<>>
                                                 ELSE OneMore(f[i - 1], args, i)]
           S == {m \in 0 .. n : \E f : IsLoop(f, m)}
<1>1. 0 \in S
  <2>1. PICK g : g = [i \in 0 .. 0 |-> <<>>]
    OBVIOUS
  <2>2. \A i \in 0 .. 0 : g[i] = IF i = 0 THEN <<>> ELSE OneMore(g[i - 1], args, i)
    BY <2>1
  <2>3. IsLoop(g, 0)
    BY <2>1, <2>2
  <2> QED
    BY <2>3
<1>2. ASSUME NEW m \in 0 .. n, m < n, m \in S PROVE m + 1 \in S
  <2>1. PICK f : IsLoop(f, m)
    BY <1>2
  <2> DEFINE g == [i \in 0 .. m + 1 |-> IF i = m + 1 THEN OneMore(f[m], args, m + 1)
                                        ELSE f[i]]
  <2>2. ASSUME NEW i \in 0 .. m + 1
        PROVE  g[i] = IF i = 0 THEN <<>> ELSE OneMore(g[i - 1], args, i)
    <3>1. CASE i = m + 1
      <4>1. m \in 0 .. m + 1 /\ m # m + 1 /\ i # 0 /\ i - 1 = m
        BY <1>2, <3>1
      <4>2. g[i] = OneMore(f[m], args, i) /\ g[m] = f[m]
        BY <3>1, <4>1
      <4> QED
        BY <4>1, <4>2
    <3>2. CASE i # m + 1 /\ i # 0
      <4>1. i \in 0 .. m /\ i - 1 \in 0 .. m + 1 /\ i - 1 # m + 1
        BY <1>2, <3>2
      <4>2. g[i] = f[i] /\ g[i - 1] = f[i - 1]
        BY <3>2, <4>1
      <4>3. f[i] = OneMore(f[i - 1], args, i)
        BY <2>1, <3>2, <4>1
      <4> QED
        BY <3>2, <4>2, <4>3
    <3>3. CASE i = 0
      <4>1. 0 \in 0 .. m /\ 0 # m + 1
        BY <1>2
      <4>2. f[0] = <<>>
        BY <2>1, <4>1
      <4> QED
        BY <3>3, <4>1, <4>2
    <3> QED
      BY <3>1, <3>2, <3>3
  <2>3. g = [i \in 0 .. m + 1 |-> g[i]]
    OBVIOUS
  <2>4. IsLoop(g, m + 1)
    <3> HIDE DEF g
    <3> QED
      BY <2>2, <2>3
  <2>5. m + 1 \in 0 .. n
    BY <1>2
  <2> QED
    BY <2>4, <2>5
<1>3. \E f : IsLoop(f, n)
  <2>1. n \in Nat /\ n \in 0 .. n
    OBVIOUS
  <2>2. \A i \in 0 .. n : i \in S
    <3> HIDE DEF S, n
    <3> QED
      BY <1>1, <1>2, <2>1, Induction
  <2> QED
    BY <2>1, <2>2
<1>4. PICK f : IsLoop(f, n) /\ OperandsOf(args) = f[n]
  BY <1>3 DEF OperandsOf, OneMore
<1>5. f[0] = <<>> /\ \A i \in 1 .. n : f[i] = OneMore(f[i - 1], args, i)
  <2>1. 0 \in 0 .. n
    OBVIOUS
  <2>2. \A i \in 1 .. n : i \in 0 .. n /\ i # 0
    OBVIOUS
  <2> QED
    BY <1>4, <2>1, <2>2
<1> HIDE DEF IsLoop
<1> QED
  BY <1>4, <1>5 DEF AmongArguments

(* What the options may be while the arguments T are read.                 *)
OptRec(T) ==
  [outmode : OutModes, decompress : BOOLEAN, keep : BOOLEAN, force : BOOLEAN, ultra : BOOLEAN,
   bs100k : Nat, num_worker : Nat, operands : Seq(T),
   args_state : {"continue", "stop", "usage", "version", "fail"}, wants : {"nothing", "n", "m"}]

Numerics == {"n", "m"}
Helps == {"h", "L", "V"}

LEMMA NumericResult ==
  ASSUME NEW T, NEW o \in OptRec(T), NEW ch \in Numerics, NEW text, o.args_state = "continue"
  PROVE  LET p == Numeric(o, ch, text) IN
           /\ p \in OptRec(T) /\ p.operands = o.operands /\ p.args_state \in {"continue", "fail"}
           /\ p.args_state = "continue" => p.wants = "nothing" /\ text \in DOMAIN Number
<1>1. text \in DOMAIN Number => Number[text] \in Nat
  BY OptionsAssumption
<1>2. CASE Numeric(o, ch, text) = Fail(o)
  BY <1>2 DEF OptRec, Fail
<1>3. CASE Numeric(o, ch, text) # Fail(o)
  <2>1. /\ text \in DOMAIN Number
        /\ Numeric(o, ch, text)
             = [o EXCEPT !.wants = "nothing",
                         !.num_worker = IF ch = "n" THEN Number[text] ELSE @]
    BY <1>3 DEF Numeric
  <2> QED
    BY <1>1, <2>1 DEF OptRec
<1> QED
  BY <1>2, <1>3

LEMMA ShortOptionResult ==
  ASSUME NEW T, NEW o \in OptRec(T), NEW ch, NEW attached, o.args_state # "stop"
  PROVE  LET p == ShortOption(o, ch, attached) IN
           /\ p \in OptRec(T) /\ p.operands = o.operands /\ p.args_state # "stop"
           /\ o.args_state # "continue" => p = o
           /\ o.args_state = "continue" /\ p.args_state \in {"usage", "version"} => ch \in Helps
           /\ p.args_state = "continue" =>
                p.wants = IF ch \notin Numerics THEN o.wants
                          ELSE IF attached = <<>> THEN ch ELSE "nothing"
<1> DEFINE p == ShortOption(o, ch, attached)
           Result(q) ==
             /\ q \in OptRec(T) /\ q.operands = o.operands /\ q.args_state # "stop"
             /\ o.args_state # "continue" => q = o
             /\ o.args_state = "continue" /\ q.args_state \in {"usage", "version"} => ch \in Helps
             /\ q.args_state = "continue" =>
                  q.wants = IF ch \notin Numerics THEN o.wants
                            ELSE IF attached = <<>> THEN ch ELSE "nothing"
<1> SUFFICES Result(p)
  OBVIOUS
<1>0. CASE o.args_state # "continue"
  <2>1. p = o
    BY <1>0 DEF ShortOption
  <2> QED
    BY <1>0, <2>1
<1>f. o.args_state = "continue" => Result(Fail(o))
  BY DEF OptRec, Fail
<1> SUFFICES ASSUME o.args_state = "continue" PROVE Result(p)
  BY <1>0
<1>1. CASE ch \in ToSet(Digits)
  <2> DEFINE k == CHOOSE i \in 1 .. 9 : Digits[i] = ch
  <2>1. DOMAIN Digits = 1 .. 9
    BY DEF Digits
  <2>2. \E i \in 1 .. 9 : Digits[i] = ch
    BY <1>1, <2>1 DEF ToSet
  <2>3. k \in 1 .. 9
    BY <2>2
  <2>4. p = [o EXCEPT !.bs100k = k] /\ ch \notin Numerics
    <3>1. PICK i \in 1 .. 9 : Digits[i] = ch
      BY <2>2
    <3>2. i = 1 \/ i = 2 \/ i = 3 \/ i = 4 \/ i = 5 \/ i = 6 \/ i = 7 \/ i = 8 \/ i = 9
      OBVIOUS
    <3>3. ch \in {"1", "2", "3", "4", "5", "6", "7", "8", "9"}
      BY <3>1, <3>2 DEF Digits
    <3>4. ch \notin {"c", "t", "d", "z", "f", "k", "u", "s", "v", "S", "q", "h", "L", "V", "n", "m"}
      BY <3>3
    <3>5. p = [o EXCEPT !.bs100k = k]
      BY <1>1, <3>4 DEF ShortOption
    <3> QED
      BY <3>4, <3>5 DEF Numerics
  <2> HIDE DEF k
  <2> QED
    BY <2>3, <2>4 DEF OptRec
<1> SUFFICES ASSUME ch \notin ToSet(Digits) PROVE Result(p)
  BY <1>1
<1>2. CASE ch \in {"c", "t"}
  <2>1. p = opts_outmode(o, ch)
    BY <1>2 DEF ShortOption
  <2>2. p \in {Fail(o), [o EXCEPT !.outmode = "stdout"],
               [o EXCEPT !.outmode = "discard", !.decompress = TRUE]}
    BY <2>1 DEF opts_outmode
  <2> QED
    BY <1>2, <1>f, <2>2 DEF OptRec, OutModes, Numerics
<1>3. CASE ch \in {"d", "z"}
  <2>1. p = opts_decompress(o, ch)
    BY <1>3 DEF ShortOption
  <2> QED
    BY <1>3, <2>1 DEF opts_decompress, OptRec, OutModes, Numerics
<1>4. CASE ch \in {"f", "k", "u"}
  <2>1. p \in {[o EXCEPT !.force = TRUE], [o EXCEPT !.keep = TRUE], [o EXCEPT !.ultra = TRUE]}
    BY <1>4 DEF ShortOption
  <2> QED
    BY <1>4, <2>1 DEF OptRec, Numerics
<1>5. CASE ch \in {"s", "v", "S", "q"}
  <2>1. p = o
    BY <1>5 DEF ShortOption
  <2> QED
    BY <1>5, <2>1 DEF Numerics
<1>6. CASE ch \in Helps
  <2>1. p \in {[o EXCEPT !.args_state = "usage"], [o EXCEPT !.args_state = "version"]}
    BY <1>6 DEF ShortOption, Helps
  <2> QED
    BY <1>6, <2>1 DEF OptRec
<1>7. CASE ch \in Numerics
  <2>1. p = IF attached = <<>> THEN [o EXCEPT !.wants = ch] ELSE Numeric(o, ch, attached)
    BY <1>7 DEF ShortOption, Numerics
  <2>2. CASE attached = <<>>
    <3>1. p = [o EXCEPT !.wants = ch]
      BY <2>1, <2>2
    <3> QED
      BY <1>7, <2>2, <3>1 DEF OptRec, Numerics
  <2>3. CASE attached # <<>>
    <3>1. p = Numeric(o, ch, attached)
      BY <2>1, <2>3
    <3>2. /\ p \in OptRec(T) /\ p.operands = o.operands /\ p.args_state \in {"continue", "fail"}
          /\ p.args_state = "continue" => p.wants = "nothing"
      BY <1>7, <3>1, NumericResult
    <3> HIDE DEF p
    <3> QED
      BY <1>7, <2>3, <3>2
  <2> QED
    BY <2>2, <2>3
<1>8. CASE ch \notin {"c", "t", "d", "z", "f", "k", "u", "s", "v", "S", "q"} \cup Helps \cup Numerics
  <2>1. p = Fail(o)
    BY <1>8 DEF ShortOption, Helps, Numerics
  <2> QED
    BY <1>f, <2>1
<1> QED
  BY <1>2, <1>3, <1>4, <1>5, <1>6, <1>7, <1>8

LEMMA ShortOptionsResult ==
  ASSUME NEW T, NEW o \in OptRec(T), NEW letters \in Seq(STRING), NEW attached,
         o.args_state = "continue", o.wants = "nothing"
  PROVE  LET p == ShortOptions(o, letters, attached) IN
           /\ p \in OptRec(T) /\ p.operands = o.operands /\ p.args_state # "stop"
           /\ p.args_state \in {"usage", "version"} => ToSet(letters) \cap Helps # {}
           /\ p.args_state = "continue" =>
                (p.wants # "nothing" <=> attached = <<>> /\ ToSet(letters) \cap Numerics # {})
<1> DEFINE n == Len(letters)
<1>n. n \in Nat /\ DOMAIN letters = 1 .. n /\ \A i \in 1 .. n : letters[i] \in STRING
  OBVIOUS
<1>l. \E after : AfterLetters(o, letters, attached, after)
  <2>1. Len(letters) \in Nat
    OBVIOUS
  <2> QED
    BY ONLY <2>1, LettersLoop
<1>1. PICK after : /\ ShortOptions(o, letters, attached) = after[n] /\ after[0] = o
                   /\ \A i \in 1 .. n : after[i] = ShortOption(after[i - 1], letters[i], attached)
  BY <1>l DEF AfterLetters
<1> DEFINE Good(i) ==
             /\ after[i] \in OptRec(T) /\ after[i].operands = o.operands
             /\ after[i].args_state # "stop"
             /\ after[i].args_state \in {"usage", "version"} => \E k \in 1 .. i : letters[k] \in Helps
             /\ after[i].args_state = "continue" =>
                  (after[i].wants # "nothing" <=>
                     attached = <<>> /\ \E k \in 1 .. i : letters[k] \in Numerics)
           S == {i \in 0 .. n : Good(i)}
<1> HIDE DEF n
<1>2. 0 \in S
  BY <1>n, <1>1
<1>3. ASSUME NEW i \in 0 .. n, i < n, i \in S PROVE i + 1 \in S
  <2>1. i + 1 \in 1 .. n /\ (i + 1) - 1 = i
    BY <1>n, <1>3
  <2> DEFINE p == after[i]
             q == after[i + 1]
             ch == letters[i + 1]
  <2>2. q = ShortOption(p, ch, attached)
    BY <1>n, <1>1, <2>1
  <2>3. Good(i)
    BY <1>3
  <2>4. /\ q \in OptRec(T) /\ q.operands = p.operands /\ q.args_state # "stop"
        /\ p.args_state # "continue" => q = p
        /\ p.args_state = "continue" /\ q.args_state \in {"usage", "version"} => ch \in Helps
        /\ q.args_state = "continue" =>
             q.wants = IF ch \notin Numerics THEN p.wants
                       ELSE IF attached = <<>> THEN ch ELSE "nothing"
    <3> HIDE DEF p, q, ch
    <3>1. p \in OptRec(T) /\ p.args_state # "stop"
      BY <2>3 DEF p
    <3> QED
      BY <2>2, <3>1, ShortOptionResult
  <2>5. \A k : k \in 1 .. i + 1 <=> k \in 1 .. i \/ k = i + 1
    BY <2>1
  <2>6. (\E k \in 1 .. i + 1 : letters[k] \in Helps)
          <=> (\E k \in 1 .. i : letters[k] \in Helps) \/ ch \in Helps
    BY <2>5
  <2>7. (\E k \in 1 .. i + 1 : letters[k] \in Numerics)
          <=> (\E k \in 1 .. i : letters[k] \in Numerics) \/ ch \in Numerics
    BY <2>5
  <2> DEFINE help == \E k \in 1 .. i : letters[k] \in Helps
             number == \E k \in 1 .. i : letters[k] \in Numerics
  <2>8. /\ p.operands = o.operands
        /\ p.args_state \in {"usage", "version"} => help
        /\ p.args_state = "continue" => (p.wants # "nothing" <=> attached = <<>> /\ number)
    BY <2>3
  <2>9. /\ q.args_state \in {"usage", "version"} => help \/ ch \in Helps
        /\ q.args_state = "continue" =>
             (q.wants # "nothing" <=> attached = <<>> /\ (number \/ ch \in Numerics))
    <3> HIDE DEF p, q, ch, help, number
    <3>1. ch \in Numerics => ch # "nothing"
      BY DEF Numerics
    <3>2. q.args_state = "continue" => p.args_state = "continue"
      BY <2>4
    <3>3. q.args_state \in {"usage", "version"} => help \/ ch \in Helps
      BY <2>4, <2>8
    <3>4. CASE q.args_state = "continue" /\ ch \notin Numerics
      BY <2>4, <2>8, <3>2, <3>3, <3>4
    <3>5. CASE q.args_state = "continue" /\ ch \in Numerics
      <4>1. q.wants = IF attached = <<>> THEN ch ELSE "nothing"
        BY <2>4, <3>5
      <4> QED
        BY <3>1, <3>3, <3>5, <4>1
    <3> QED
      BY <3>3, <3>4, <3>5
  <2>10. Good(i + 1)
    <3>1. q.operands = o.operands
      BY <2>4, <2>8
    <3> HIDE DEF ch
    <3> QED
      BY <2>4, <2>6, <2>7, <2>9, <3>1
  <2> QED
    BY <2>1, <2>10
<1>4. n \in 0 .. n
  BY <1>n
<1>5. Good(n)
  <2>1. \A i \in 0 .. n : i \in S
    <3> HIDE DEF S
    <3> QED
      BY <1>n, <1>2, <1>3, Induction
  <2> QED
    BY <1>4, <2>1
<1>6. /\ (\E k \in 1 .. n : letters[k] \in Helps) => ToSet(letters) \cap Helps # {}
      /\ (\E k \in 1 .. n : letters[k] \in Numerics) <=> ToSet(letters) \cap Numerics # {}
  BY <1>n DEF ToSet
<1> QED
  BY <1>1, <1>5, <1>6

LEMMA ArgumentFacts ==
  ASSUME NEW arg, IsArgument(arg)
  PROVE  /\ arg.kind \in {"operand", "--", "long", "short"}
         /\ arg.kind = "--" <=> arg = DashDash
         /\ arg.kind = "short" => arg.letters \in Seq(STRING)
         /\ arg.text \in DOMAIN Number => arg.kind = "operand"
<1>1. CASE arg.kind = "operand"
  BY <1>1 DEF DashDash
<1>2. CASE arg = DashDash
  BY <1>2, NumberAssumption DEF DashDash
<1>3. CASE arg.kind = "long" /\ arg = Long(arg.name)
  <2>1. arg.kind = "long" /\ arg.text = Long("help").text
    BY <1>3 DEF Long
  <2> QED
    BY <2>1, NumberAssumption DEF DashDash
<1>4. CASE arg.kind = "short" /\ arg = Short(arg.letters, arg.attached) /\ arg.letters \in Seq(STRING)
  BY <1>4, NumberAssumption DEF Short, DashDash
<1> QED
  BY <1>1, <1>2, <1>3, <1>4 DEF IsArgument

(* Only the long options for it ask for help, and none wants a number.     *)
LEMMA LongOptionLetter ==
  ASSUME NEW name \in DOMAIN LongOption
  PROVE  /\ LongOption[name] \notin Numerics
         /\ LongOption[name] \in Helps => name \in {"help", "license", "version"}
<1>1. /\ LongOption["stdout"] = "c" /\ LongOption["test"] = "t" /\ LongOption["decompress"] = "d"
      /\ LongOption["compress"] = "z" /\ LongOption["fast"] = "1" /\ LongOption["best"] = "9"
      /\ LongOption["force"] = "f" /\ LongOption["keep"] = "k" /\ LongOption["small"] = "s"
      /\ LongOption["sequential"] = "u" /\ LongOption["verbose"] = "v" /\ LongOption["quiet"] = "q"
      /\ LongOption["exponential"] = "q" /\ LongOption["help"] = "h" /\ LongOption["license"] = "V"
      /\ LongOption["version"] = "V"
  BY DEF LongOption
<1>2. \/ name = "stdout" \/ name = "test" \/ name = "decompress" \/ name = "compress"
      \/ name = "fast" \/ name = "best" \/ name = "force" \/ name = "keep"
      \/ name = "small" \/ name = "sequential" \/ name = "verbose" \/ name = "quiet"
      \/ name = "exponential"
      \/ name \in {"help", "license", "version"}
  <2>1. DOMAIN LongOption =
          {"stdout", "test", "decompress", "compress", "fast", "best", "force", "keep", "small",
           "sequential", "verbose", "quiet", "exponential", "help", "license", "version"}
    BY DEF LongOption
  <2> QED
    BY <2>1
<1>3. CASE \/ name = "stdout" \/ name = "test" \/ name = "decompress" \/ name = "compress"
           \/ name = "fast" \/ name = "best" \/ name = "force" \/ name = "keep"
           \/ name = "small" \/ name = "sequential" \/ name = "verbose" \/ name = "quiet"
           \/ name = "exponential"
  <2>1. LongOption[name] \in {"c", "t", "d", "z", "1", "9", "f", "k", "s", "u", "v", "q"}
    BY ONLY <1>1, <1>3
  <2>2. \A ch \in {"c", "t", "d", "z", "1", "9", "f", "k", "s", "u", "v", "q"} :
          ch \notin Numerics /\ ch \notin Helps
    BY DEF Numerics, Helps
  <2> QED
    BY ONLY <2>1, <2>2
<1>4. CASE name \in {"help", "license", "version"}
  <2>1. LongOption[name] \in {"h", "V"}
    BY ONLY <1>1, <1>4
  <2>2. \A ch \in {"h", "V"} : ch \notin Numerics
    BY DEF Numerics
  <2> QED
    BY ONLY <1>4, <2>1, <2>2
<1> QED
  BY <1>2, <1>3, <1>4

(* What is known behind i of the arguments, of which ops are the operands. *)
ParseInv(o, ops, args, i, T) ==
  /\ o \in OptRec(T)
  /\ o.args_state \in {"usage", "version"} => \E j \in 1 .. i : AsksHelp(args[j])
  /\ o.args_state = "continue" =>
       /\ o.operands = ops
       /\ o.wants # "nothing" <=> i # 0 /\ WantsNumber(args[i])
       /\ ~ \E j \in 1 .. i : EndsOptions(args, j)
  /\ o.args_state = "stop" =>
       /\ o.operands = ops /\ o.wants = "nothing"
       /\ \E j \in 1 .. i : EndsOptions(args, j)

LEMMA ArgumentResult ==
  ASSUME NEW args, NEW i \in Nat, NEW T, NEW o, NEW ops,
         IsArgument(args[i + 1]), args[i + 1].text \in T,
         ParseInv(o, ops, args, i, T)
  PROVE  ParseInv(Argument(o, args[i + 1]), OneMore(ops, args, i + 1), args, i + 1, T)
<1> DEFINE arg == args[i + 1]
           stopped == \E j \in 1 .. i : EndsOptions(args, j)
           asked == \E j \in 1 .. i : AsksHelp(args[j])
           wanted == i # 0 /\ WantsNumber(args[i])
           p == Argument(o, arg)
           more == IsOperand(args, i + 1)
           Next1(q) ==
             /\ q \in OptRec(T)
             /\ q.args_state \in {"usage", "version"} => asked \/ AsksHelp(arg)
             /\ q.args_state = "continue" =>
                  /\ q.operands = IF more THEN Append(ops, arg.text) ELSE ops
                  /\ q.wants # "nothing" <=> WantsNumber(arg)
                  /\ ~ stopped /\ ~ (arg = DashDash /\ ~ wanted)
             /\ q.args_state = "stop" =>
                  /\ q.operands = IF more THEN Append(ops, arg.text) ELSE ops
                  /\ q.wants = "nothing"
                  /\ stopped \/ (arg = DashDash /\ ~ wanted)
<1>1. i + 1 \in Nat /\ (i + 1) - 1 = i /\ i + 1 # 0 /\ (i + 1 = 1 <=> i = 0)
      /\ \A j : j \in 1 .. i + 1 <=> j \in 1 .. i \/ j = i + 1
  OBVIOUS
<1>2. more <=> stopped \/ (arg.kind = "operand" /\ ~ wanted)
  BY <1>1 DEF IsOperand
<1>3. EndsOptions(args, i + 1) <=> arg = DashDash /\ ~ wanted
  BY <1>1 DEF EndsOptions
<1>4. /\ arg.kind \in {"operand", "--", "long", "short"}
      /\ arg.kind = "--" <=> arg = DashDash
      /\ arg.kind = "short" => arg.letters \in Seq(STRING)
      /\ arg.text \in DOMAIN Number => arg.kind = "operand"
  BY ArgumentFacts
<1>5. /\ o \in OptRec(T)
      /\ o.args_state \in {"usage", "version"} => asked
      /\ o.args_state = "continue" =>
           o.operands = ops /\ (o.wants # "nothing" <=> wanted) /\ ~ stopped
      /\ o.args_state = "stop" => o.operands = ops /\ o.wants = "nothing" /\ stopped
  BY DEF ParseInv
<1>6. WantsNumber(arg) => arg.kind = "short"
  BY DEF WantsNumber
<1>t. arg.text \in T
  OBVIOUS
<1>7. Next1(p) => ParseInv(p, OneMore(ops, args, i + 1), args, i + 1, T)
  <2> SUFFICES ASSUME Next1(p) PROVE ParseInv(p, OneMore(ops, args, i + 1), args, i + 1, T)
    OBVIOUS
  <2>1. (\E j \in 1 .. i + 1 : EndsOptions(args, j)) <=> stopped \/ (arg = DashDash /\ ~ wanted)
    BY <1>1, <1>3
  <2>2. asked \/ AsksHelp(arg) => \E j \in 1 .. i + 1 : AsksHelp(args[j])
    BY <1>1
  <2>3. OneMore(ops, args, i + 1) = IF more THEN Append(ops, arg.text) ELSE ops
    BY DEF OneMore
  <2> HIDE DEF p, more, wanted, stopped, asked
  <2>4. p.args_state \in {"usage", "version"} => \E j \in 1 .. i + 1 : AsksHelp(args[j])
    BY <2>2
  <2> QED
    BY <1>1, <2>1, <2>3, <2>4 DEF ParseInv
<1> SUFFICES Next1(p)
  BY <1>7
<1> HIDE DEF arg, stopped, asked, wanted, more
<1>8. CASE o.args_state = "stop"
  <2>1. p = [o EXCEPT !.operands = Append(@, arg.text)]
    BY <1>8 DEF Argument
  <2>2. Append(o.operands, arg.text) \in Seq(T)
    BY <1>5, <1>t DEF OptRec
  <2>3. p \in OptRec(T) /\ p.args_state = "stop" /\ p.operands = Append(ops, arg.text)
        /\ p.wants = "nothing"
    BY <1>5, <1>8, <2>1, <2>2 DEF OptRec
  <2> HIDE DEF p
  <2> QED
    BY <1>2, <1>5, <1>8, <2>3
<1>9. CASE o.args_state \in {"usage", "version", "fail"}
  <2>1. p = o
    BY <1>9 DEF Argument
  <2> QED
    BY <1>5, <1>9, <2>1
<1>10. CASE o.args_state = "continue" /\ o.wants # "nothing"
  <2>1. p = Numeric(o, o.wants, arg.text) /\ o.wants \in Numerics
    BY <1>5, <1>10 DEF Argument, OptRec, Numerics
  <2>2. /\ p \in OptRec(T) /\ p.operands = o.operands /\ p.args_state \in {"continue", "fail"}
        /\ p.args_state = "continue" => p.wants = "nothing" /\ arg.text \in DOMAIN Number
    BY <1>5, <1>10, <2>1, NumericResult
  <2> HIDE DEF p
  <2> QED
    BY <1>2, <1>4, <1>5, <1>6, <1>10, <2>2
<1>11. CASE o.args_state = "continue" /\ o.wants = "nothing"
  <2>0. ~ wanted /\ ~ stopped /\ o.operands = ops
    BY <1>5, <1>11
  <2>1. CASE arg.kind = "operand"
    <3>1. p = [o EXCEPT !.operands = Append(@, arg.text)]
      BY <1>11, <2>1 DEF Argument
    <3>2. Append(o.operands, arg.text) \in Seq(T)
      BY <1>5, <1>t DEF OptRec
    <3>3. p \in OptRec(T) /\ p.args_state = "continue" /\ p.operands = Append(ops, arg.text)
          /\ p.wants = "nothing"
      BY <1>5, <1>11, <3>1, <3>2 DEF OptRec
    <3> HIDE DEF p
    <3> QED
      BY <1>2, <1>4, <1>6, <2>0, <2>1, <3>3
  <2>2. CASE arg.kind = "--"
    <3>1. p = [o EXCEPT !.args_state = "stop"]
      BY <1>11, <2>2 DEF Argument
    <3>3. p \in OptRec(T) /\ p.args_state = "stop" /\ p.operands = ops /\ p.wants = "nothing"
      BY <1>5, <1>11, <3>1 DEF OptRec
    <3> HIDE DEF p
    <3> QED
      BY <1>2, <1>4, <2>0, <2>2, <3>3
  <2>3. CASE arg.kind = "long"
    <3>1. CASE arg.name \notin DOMAIN LongOption
      <4>1. p = Fail(o)
        BY <1>11, <2>3, <3>1 DEF Argument
      <4>2. p \in OptRec(T) /\ p.args_state = "fail"
        BY <1>5, <4>1 DEF OptRec, Fail
      <4> HIDE DEF p
      <4> QED
        BY <4>2
    <3>2. CASE arg.name \in DOMAIN LongOption
      <4> DEFINE ch == LongOption[arg.name]
      <4>1. p = ShortOption(o, ch, <<>>)
        BY <1>11, <2>3, <3>2 DEF Argument
      <4>2. /\ ch \notin Numerics
            /\ ch \in Helps => arg.name \in {"help", "license", "version"}
        BY <3>2, LongOptionLetter
      <4> HIDE DEF p, ch
      <4>3. /\ p \in OptRec(T) /\ p.operands = o.operands /\ p.args_state # "stop"
            /\ p.args_state \in {"usage", "version"} => ch \in Helps
            /\ p.args_state = "continue" => p.wants = o.wants
        BY <1>5, <1>11, <4>1, <4>2, ShortOptionResult
      <4>4. ch \in Helps => AsksHelp(arg)
        BY <2>3, <4>2 DEF AsksHelp
      <4> QED
        BY <1>2, <1>4, <1>6, <1>11, <2>0, <2>3, <4>3, <4>4
    <3> QED
      BY <3>1, <3>2
  <2>4. CASE arg.kind = "short"
    <3>1. p = ShortOptions(o, arg.letters, arg.attached)
      BY <1>11, <2>4 DEF Argument
    <3>2. arg.letters \in Seq(STRING)
      BY <1>4, <2>4
    <3> HIDE DEF p
    <3>3. /\ p \in OptRec(T) /\ p.operands = o.operands /\ p.args_state # "stop"
          /\ p.args_state \in {"usage", "version"} => ToSet(arg.letters) \cap Helps # {}
          /\ p.args_state = "continue" =>
               (p.wants # "nothing" <=> arg.attached = <<>> /\ ToSet(arg.letters) \cap Numerics # {})
      BY <1>5, <1>11, <3>1, <3>2, ShortOptionsResult
    <3>4. ToSet(arg.letters) \cap Helps # {} => AsksHelp(arg)
      BY <2>4 DEF AsksHelp, Helps
    <3>5. WantsNumber(arg) <=> arg.attached = <<>> /\ ToSet(arg.letters) \cap Numerics # {}
      BY <2>4 DEF WantsNumber, Numerics
    <3> QED
      BY <1>2, <1>4, <2>0, <2>4, <3>3, <3>4, <3>5
  <2> QED
    BY <1>4, <2>1, <2>2, <2>3, <2>4
<1>12. o.args_state \in {"continue", "stop", "usage", "version", "fail"}
  BY <1>5 DEF OptRec
<1> QED
  BY <1>8, <1>9, <1>10, <1>11, <1>12

Texts(args) == {args[i].text : i \in 1 .. Len(args)}

LEMMA ParsedResult ==
  ASSUME NEW pname, NEW args, Len(args) \in Nat, \A i \in 1 .. Len(args) : IsArgument(args[i])
  PROVE  ParseInv(Parsed(pname, args), OperandsOf(args), args, Len(args), Texts(args))
<1>a. \E o : AfterArguments(pname, args, o)
  <2>1. Len(args) \in Nat
    OBVIOUS
  <2> QED
    BY ONLY <2>1, ArgumentsLoop
<1>o. \E ops : AmongArguments(args, ops)
  <2>1. Len(args) \in Nat
    OBVIOUS
  <2> QED
    BY ONLY <2>1, OperandsLoop
<1>1. PICK o : /\ Parsed(pname, args) = o[Len(args)] /\ o[0] = Defaults(pname)
               /\ \A i \in 1 .. Len(args) : o[i] = Argument(o[i - 1], args[i])
  BY <1>a DEF AfterArguments
<1>2. PICK ops : /\ OperandsOf(args) = ops[Len(args)] /\ ops[0] = <<>>
                 /\ \A i \in 1 .. Len(args) : ops[i] = OneMore(ops[i - 1], args, i)
  BY <1>o DEF AmongArguments
<1> DEFINE n == Len(args)
           T == Texts(args)
           S == {i \in 0 .. n : ParseInv(o[i], ops[i], args, i, T)}
<1>3. 0 \in S
  <2>1. Defaults(pname) \in OptRec(T) /\ Defaults(pname).args_state = "continue"
        /\ Defaults(pname).wants = "nothing" /\ Defaults(pname).operands = <<>>
    <3>1. <<>> \in Seq(T)
      OBVIOUS
    <3> QED
      BY <3>1 DEF Defaults, OptRec, OutModes
  <2>2. ParseInv(Defaults(pname), <<>>, args, 0, T)
    <3> HIDE DEF T
    <3> QED
      BY <2>1 DEF ParseInv
  <2> QED
    BY <1>1, <1>2, <2>2
<1>4. ASSUME NEW i \in 0 .. n, i < n, i \in S PROVE i + 1 \in S
  <2>1. i \in Nat /\ i + 1 \in 1 .. n /\ i + 1 \in 0 .. n /\ (i + 1) - 1 = i
    BY <1>4
  <2>2. IsArgument(args[i + 1]) /\ args[i + 1].text \in T
    BY <2>1 DEF Texts
  <2>3. o[i + 1] = Argument(o[i], args[i + 1]) /\ ops[i + 1] = OneMore(ops[i], args, i + 1)
    BY <1>1, <1>2, <2>1
  <2>4. ParseInv(o[i], ops[i], args, i, T)
    BY <1>4
  <2>5. ParseInv(o[i + 1], ops[i + 1], args, i + 1, T)
    <3> HIDE DEF T
    <3> QED
      BY <2>1, <2>2, <2>3, <2>4, ArgumentResult
  <2> QED
    BY <2>1, <2>5
<1>5. \A i \in 0 .. n : i \in S
  <2> HIDE DEF S
  <2> QED
    BY <1>3, <1>4, Induction
<1>6. n \in 0 .. n
  OBVIOUS
<1> QED
  BY <1>1, <1>2, <1>5, <1>6

(* What the program makes of its command line.                             *)
LEMMA OptionsResult ==
  ASSUME NEW pname, NEW args, Len(args) \in Nat, \A i \in 1 .. Len(args) : IsArgument(args[i]),
         NEW stdin_tty \in BOOLEAN, NEW stdout_tty \in BOOLEAN
  PROVE  LET r == opts_setup(Parsed(pname, args), stdin_tty, stdout_tty) IN
           /\ r.outmode \in OutModes /\ r.decompress \in BOOLEAN /\ r.keep \in BOOLEAN
           /\ r.force \in BOOLEAN /\ r.operands \in Seq(Texts(args))
           /\ r.args_state \in {"usage", "version"} => \E j \in 1 .. Len(args) : AsksHelp(args[j])
           /\ r.args_state \notin {"usage", "version", "fail"} => r.operands = OperandsOf(args)
<1> DEFINE o == Parsed(pname, args)
           r == opts_setup(o, stdin_tty, stdout_tty)
           T == Texts(args)
           help == \E j \in 1 .. Len(args) : AsksHelp(args[j])
<1>1. ParseInv(o, OperandsOf(args), args, Len(args), T)
  BY ParsedResult
<1>2. /\ o \in OptRec(T)
      /\ o.args_state \in {"usage", "version"} => help
      /\ o.args_state \in {"continue", "stop"} => o.operands = OperandsOf(args)
  BY <1>1 DEF ParseInv
<1> DEFINE f == Finished(o)
           Typed(q) ==
             /\ q.outmode \in OutModes /\ q.decompress \in BOOLEAN /\ q.keep \in BOOLEAN
             /\ q.force \in BOOLEAN /\ q.operands \in Seq(T)
<1>3. /\ o.args_state \in {"usage", "version", "fail"} => r = o
      /\ o.args_state \notin {"usage", "version", "fail"} => r \in {f, Fail(f)}
  BY DEF opts_setup
<1>4. /\ Typed(f) /\ f.operands = o.operands /\ f.args_state = o.args_state
      /\ Typed(Fail(f)) /\ Fail(f).args_state = "fail"
  <2> DEFINE filter == o.outmode = "regf" /\ o.operands = <<>>
             om == IF filter THEN "stdout" ELSE o.outmode
             nw == IF o.num_worker = 0 THEN Min({mx_worker, num_online}) ELSE o.num_worker
  <2>1. f = [outmode |-> om, decompress |-> o.decompress, keep |-> o.keep, force |-> o.force,
             ultra |-> o.ultra, bs100k |-> o.bs100k, num_worker |-> nw,
             operands |-> o.operands, args_state |-> o.args_state]
    BY DEF Finished
  <2>2. om \in OutModes
    BY <1>2 DEF OptRec, OutModes
  <2> HIDE DEF om, nw, f, o, T
  <2>3. /\ o.decompress \in BOOLEAN /\ o.keep \in BOOLEAN /\ o.force \in BOOLEAN
        /\ o.operands \in Seq(T)
    BY <1>2 DEF OptRec
  <2>4. Typed(f) /\ f.operands = o.operands /\ f.args_state = o.args_state
    BY <2>1, <2>2, <2>3
  <2>5. Fail(f) = [outmode |-> om, decompress |-> o.decompress, keep |-> o.keep, force |-> o.force,
                   ultra |-> o.ultra, bs100k |-> o.bs100k, num_worker |-> nw,
                   operands |-> o.operands, args_state |-> "fail"]
    BY <2>1 DEF Fail
  <2>6. Typed(Fail(f)) /\ Fail(f).args_state = "fail"
    BY <2>2, <2>3, <2>5
  <2> QED
    BY <2>4, <2>6
<1>5. Typed(o) /\ o.args_state \in {"continue", "stop", "usage", "version", "fail"}
  <2> HIDE DEF o, T
  <2> QED
    BY <1>2 DEF OptRec
<1>9. /\ Typed(r)
      /\ r.args_state \in {"usage", "version"} => help
      /\ r.args_state \notin {"usage", "version", "fail"} => r.operands = OperandsOf(args)
  <2> HIDE DEF o, r, T, help, f, Typed
  <2>1. CASE o.args_state \in {"usage", "version", "fail"}
    BY <1>2, <1>3, <1>5, <2>1
  <2>2. CASE o.args_state \in {"continue", "stop"}
    BY <1>2, <1>3, <1>4, <2>2
  <2> QED
    BY <1>5, <2>1, <2>2
<1> QED
  BY <1>9

(***************************************************************************)
(* The initial states.                                                     *)
(***************************************************************************)
LEMMA InitJobInv == Init => JobInv
<1> SUFFICES ASSUME Init PROVE JobInv
  OBVIOUS
<1> USE JobAssumption DEF Init
<1>1. MainInv /\ PipeTold
  BY DEF MainInv, PipeTold
<1>2. ThreadInv /\ BailoutInv
  BY DEF ThreadInv, BailoutInv, ThreadStates, Holding
<1>3. FileInv
  BY DEF FileInv
<1>4. LossInv
  BY DEF LossInv, InPlace, Survives
<1> QED
  BY <1>1, <1>2, <1>3, <1>4 DEF JobInv

(***************************************************************************)
(* The steps.                                                              *)
(***************************************************************************)
(* The main thread between the jobs, and where it waits.                   *)
Between ==
  InputOpened \/ InputSkipped \/ OutputSkipped \/ OutputStream \/ OutputClosed
  \/ InputRemoved \/ Sti \/ InputClosed \/ Exit

LEMMA BailoutEffect ==
  ASSUME NEW sigs, MainBailout(sigs)
  PROVE  /\ at' = "over" /\ status' # "running"
         /\ fs' = Without(fs, opathn) /\ opathn' = {}
         /\ status' = "EX_FAIL" =>
              (pending \cup tpending["main"] \cup sigs) \cap (blocked_signals \ ignored) = {}
         /\ UNCHANGED <<optVars, operands, warned, served, masked, sigVars, threadVars>>
<1>1. \A s \in blocked_signals : s # "running" /\ s # "EX_FAIL"
  BY DEF blocked_signals
<1> DEFINE fatal == (pending \cup tpending["main"] \cup sigs) \cap (blocked_signals \ ignored)
<1>2. /\ cleanup
      /\ IF fatal = {} THEN Ended("EX_FAIL") ELSE \E s \in fatal : Ended(s)
      /\ UNCHANGED <<optVars, operands, warned, served, masked, sigVars, threadVars>>
  BY DEF MainBailout
<1>3. at' = "over" /\ status' # "running" /\ (status' = "EX_FAIL" => fatal = {})
  BY <1>1, <1>2 DEF Ended
<1> QED
  BY <1>2, <1>3 DEF cleanup

(* Every step of the main thread that ends in bailout().                   *)
MainEnds == MainFails \/ NotBzip2 \/ HeaderNotWritten \/ HaltFails

LEMMA MainEndsEffect ==
  ASSUME MainEnds
  PROVE  /\ \E sigs : MainBailout(sigs)
         /\ at \notin {"halt", "over"} \/ (at = "halt" /\ "USR1" \in pending)
  BY DEF MainEnds, MainFails, NotBzip2, HeaderNotWritten, HaltFails, Suspended

LEMMA MainInvStep == JobInv /\ [Next]_vars => MainInv'
<1> SUFFICES ASSUME JobInv, [Next]_vars PROVE MainInv'
  OBVIOUS
<1> USE DEF JobInv, MainInv
<1>1. CASE OptsSetup
  <2> DEFINE o(i, p) == opts_setup(Parsed(cmdline[1], cmdline[2]), i, p)
  <2> PICK i, p \in BOOLEAN :
        /\ outmode' = o(i, p).outmode /\ operands' = o(i, p).operands
        /\ CASE o(i, p).args_state = "fail"                 -> Ended("EX_FAIL")
             [] o(i, p).args_state \in {"usage", "version"} -> Ended("EX_OK")
             [] OTHER                                       -> at' = "input" /\ UNCHANGED status
    BY <1>1 DEF OptsSetup
  <2>1. UNCHANGED <<masked, opathn>> /\ at = "opts"
    BY <1>1 DEF OptsSetup, fileVars
  <2>2. CASE o(i, p).args_state \in {"fail", "usage", "version"}
    BY <2>1, <2>2 DEF Ended
  <2>3. CASE o(i, p).args_state \notin {"fail", "usage", "version"}
    <3>1. o(i, p).outmode = "regf" => o(i, p).operands # <<>>
      BY <2>3, FilterWritesStdout
    <3>2. /\ at' = "input" /\ UNCHANGED status
          /\ outmode' = o(i, p).outmode /\ operands' = o(i, p).operands
      BY <2>3
    <3> QED
      BY <2>1, <3>1, <3>2
  <2> QED
    BY <2>2, <2>3
<1>2. CASE Between
  <2> USE DEF optVars, fileVars
  <2>1. CASE InputOpened \/ OutputSkipped \/ OutputStream
    BY <2>1 DEF InputOpened, OutputSkipped, OutputStream
  <2>2. CASE InputSkipped \/ InputClosed
    BY <2>2 DEF InputSkipped, InputClosed, NextOperand
  <2>3. CASE OutputClosed
    <3>1. CASE keep
      BY <2>3, <3>1 DEF OutputClosed
    <3>2. CASE ~ keep
      BY <2>3, <3>2 DEF OutputClosed
    <3> QED
      BY <3>1, <3>2
  <2>6. CASE InputRemoved
    BY <2>6 DEF InputRemoved
  <2>4. CASE Sti
    BY <2>4 DEF Sti, Ended, Suspended, handled_signals
  <2>5. CASE Exit
    BY <2>5 DEF Exit, Ended
  <2> QED
    BY <1>2, <2>1, <2>2, <2>3, <2>4, <2>5, <2>6 DEF Between
<1>3. CASE OutputCreated \/ Work \/ HaltTerminates \/ HaltReturns
  BY <1>3 DEF OutputCreated, Work, HaltTerminates, HaltReturns, Woken, cleanup, Ended, Suspended,
     optVars, fileVars
<1>4. CASE MainEnds
  BY <1>4, MainEndsEffect, BailoutEffect DEF optVars
<1>5. CASE JobDone \/ Over \/ UNCHANGED vars
  <2>1. UNCHANGED <<at, status, outmode, operands, keep, opathn, masked>>
    BY <1>5 DEF JobDone, Over, subUnchanged, vars, optVars, fileVars
  <2> QED
    BY <2>1
<1>7. CASE Kill
  <2>1. UNCHANGED <<outmode, operands, keep, opathn, masked>> /\ at # "over"
    BY <1>7 DEF Kill, Running, optVars, fileVars
  <2>2. (masked /\ UNCHANGED <<at, status>>) \/ (~ masked /\ at' = "over" /\ status' # "running")
    BY <1>7 DEF Kill, Ended
  <2> QED
    BY <2>1, <2>2
<1>6. CASE \E t \in SubThreads : ThreadFails(t) \/ Thread(t)
  BY <1>6 DEF ThreadFails, Thread, LockStderr, Promote, RaiseUsr1, subUnchanged, optVars
<1> QED
  BY <1>1, <1>2, <1>3, <1>4, <1>5, <1>6, <1>7 DEF Next, Main, Between, MainEnds

LEMMA ThreadInvStep == JobInv /\ [Next]_vars => ThreadInv'
<1> SUFFICES ASSUME JobInv, [Next]_vars PROVE ThreadInv'
  OBVIOUS
<1> USE DEF JobInv, ThreadInv, ThreadStates
<1>1. CASE OptsSetup \/ Between
  BY <1>1 DEF OptsSetup, Between, InputOpened, InputSkipped, OutputSkipped, OutputStream,
     OutputClosed, InputRemoved, Sti, InputClosed, Exit, NextOperand, Ended, sigVars, threadVars
<1>2. CASE OutputCreated \/ Work
  BY <1>2, JobAssumption DEF OutputCreated, Work, sigVars, threadVars
<1>3. CASE HaltTerminates \/ HaltReturns
  BY <1>3 DEF HaltTerminates, HaltReturns, Woken, Ended, Suspended, handled_signals, threadVars
<1>4. CASE MainEnds
  BY <1>4, MainEndsEffect, BailoutEffect DEF sigVars, threadVars
<1>5. CASE JobDone
  BY <1>5, JobAssumption DEF JobDone, Running, subUnchanged, MainInv
<1>6. CASE Kill \/ Over \/ UNCHANGED vars
  BY <1>6 DEF Kill, Over, Ended, Running, vars, threadVars, sigVars
<1>7. CASE \E t \in SubThreads : ThreadFails(t) \/ Thread(t)
  BY <1>7, JobAssumption DEF ThreadFails, Thread, LockStderr, Promote, RaiseUsr1, subUnchanged,
     MainInv, BailoutInv, Running, blocked_signals
<1> QED
  BY <1>1, <1>2, <1>3, <1>4, <1>5, <1>6, <1>7 DEF Next, Main, Between, MainEnds

LEMMA BailoutInvStep == JobInv /\ [Next]_vars => BailoutInv'
<1> SUFFICES ASSUME JobInv, [Next]_vars PROVE BailoutInv'
  OBVIOUS
<1> USE DEF JobInv, BailoutInv, Holding
<1>1. CASE OptsSetup \/ Between
  BY <1>1 DEF OptsSetup, Between, InputOpened, InputSkipped, OutputSkipped, OutputStream,
     OutputClosed, InputRemoved, Sti, InputClosed, Exit, NextOperand, Ended, sigVars, threadVars,
     optVars
<1>2. CASE OutputCreated \/ Work
  BY <1>2, JobAssumption DEF OutputCreated, Work, sigVars, threadVars, optVars
<1>3. CASE HaltTerminates
  BY <1>3 DEF HaltTerminates, Woken, Ended, threadVars, optVars
<1>4. CASE HaltReturns
  BY <1>4, JobAssumption DEF HaltReturns, Woken, Suspended, optVars, ThreadInv, handled_signals
<1>5. CASE MainEnds
  BY <1>5, MainEndsEffect, BailoutEffect DEF sigVars, threadVars, optVars
<1>6. CASE JobDone
  BY <1>6, JobAssumption DEF JobDone, Running, subUnchanged, MainInv, optVars
<1>7. CASE Kill \/ Over \/ UNCHANGED vars
  BY <1>7 DEF Kill, Over, Ended, Running, vars, threadVars, sigVars, optVars
<1>8. ASSUME NEW t \in SubThreads, ThreadFails(t)
      PROVE  BailoutInv'
  BY <1>8, JobAssumption DEF ThreadFails, subUnchanged, optVars, ThreadInv, MainInv, Running
<1>9. ASSUME NEW t \in SubThreads, LockStderr(t)
      PROVE  BailoutInv'
  BY <1>9, JobAssumption DEF LockStderr, subUnchanged, optVars, ThreadInv, MainInv, Running
<1>10. ASSUME NEW t \in SubThreads, Promote(t)
       PROVE  BailoutInv'
  BY <1>10, JobAssumption DEF Promote, subUnchanged, optVars, ThreadInv, MainInv, Running,
     blocked_signals
<1>11. ASSUME NEW t \in SubThreads, RaiseUsr1(t)
       PROVE  BailoutInv'
  BY <1>11, JobAssumption DEF RaiseUsr1, subUnchanged, optVars, ThreadInv, MainInv, Running,
     blocked_signals
<1> QED
  BY <1>1, <1>2, <1>3, <1>4, <1>5, <1>6, <1>7, <1>8, <1>9, <1>10, <1>11
  DEF Next, Main, Between, MainEnds, Thread

(* A thread that is in bailout() has its signals pending for the process,  *)
(* so that the main thread, which SIGUSR1 wakes, finds them.               *)
LEMMA PipeToldStep == JobInv /\ [Next]_vars => PipeTold'
<1> SUFFICES ASSUME JobInv, [Next]_vars PROVE PipeTold'
  OBVIOUS
<1> USE DEF JobInv, PipeTold
<1>1. CASE OptsSetup \/ Between \/ OutputCreated \/ Work
  <2>1. at \notin {"halt", "over"}
    BY <1>1 DEF OptsSetup, Between, InputOpened, InputSkipped, OutputSkipped, OutputStream,
       OutputClosed, InputRemoved, Sti, InputClosed, Exit, OutputCreated, Work
  <2>2. UNCHANGED stderr_lock
    BY <1>1 DEF OptsSetup, Between, InputOpened, InputSkipped, OutputSkipped, OutputStream,
       OutputClosed, InputRemoved, Sti, InputClosed, Exit, OutputCreated, Work, threadVars
  <2> QED
    BY <2>1, <2>2 DEF BailoutInv
<1>2. CASE HaltTerminates
  BY <1>2 DEF HaltTerminates, Ended
<1>3. CASE MainEnds
  <2>1. PICK sigs : MainBailout(sigs)
    BY <1>3, MainEndsEffect
  <2>2. UNCHANGED <<stderr_lock, tpending>>
    BY <2>1, BailoutEffect DEF threadVars, sigVars
  <2>3. CASE at \notin {"halt", "over"}
    BY <2>2, <2>3 DEF BailoutInv
  <2>4. CASE at = "halt" /\ "USR1" \in pending
    <3>1. stderr_lock \in SubThreads /\ tpending[stderr_lock] \subseteq pending
      BY <2>4 DEF BailoutInv
    <3>2. tpending[stderr_lock] \subseteq blocked_signals \ ignored
      BY <3>1 DEF BailoutInv
    <3>3. status' = "EX_FAIL" => pending \cap (blocked_signals \ ignored) = {}
      BY <2>1, BailoutEffect
    <3> QED
      BY <2>2, <3>1, <3>2, <3>3
  <2> QED
    BY <1>3, <2>3, <2>4, MainEndsEffect
<1>4. CASE HaltReturns \/ JobDone \/ Over \/ UNCHANGED vars
  BY <1>4 DEF HaltReturns, JobDone, Over, vars, subUnchanged, sigVars, threadVars
<1>5. CASE Kill
  BY <1>5 DEF Kill, Ended, threadVars
<1>6. CASE \E t \in SubThreads : ThreadFails(t) \/ Thread(t)
  BY <1>6 DEF ThreadFails, Thread, LockStderr, Promote, RaiseUsr1, subUnchanged, Running
<1> QED
  BY <1>1, <1>2, <1>3, <1>4, <1>5, <1>6 DEF Next, Main, Between, MainEnds

(***************************************************************************)
(* Files.                                                                  *)
(***************************************************************************)
LEMMA FileInvStep == JobInv /\ [Next]_vars => FileInv'
<1> SUFFICES ASSUME JobInv, [Next]_vars PROVE FileInv'
  OBVIOUS
<1> USE DEF JobInv, FileInv
<1>1. CASE OptsSetup \/ InputOpened \/ InputSkipped \/ OutputStream \/ Sti \/ InputClosed \/ Exit
           \/ Work
  BY <1>1 DEF OptsSetup, InputOpened, InputSkipped, OutputStream, Sti, InputClosed, Exit, Work,
     NextOperand, Ended, fileVars, sigVars, ThreadInv
<1>2. CASE OutputCreated
  BY <1>2 DEF OutputCreated, With, Cleared, Without, File, MainInv
<1>3. CASE OutputSkipped
  BY <1>3 DEF OutputSkipped, Cleared, Without, sigVars, MainInv
<1>4. CASE HaltTerminates
  BY <1>4 DEF HaltTerminates, Woken, Ended, cleanup, Without
<1>5. CASE MainEnds
  BY <1>5, MainEndsEffect, BailoutEffect DEF Without
<1>6. CASE HaltReturns
  BY <1>6 DEF HaltReturns, Woken, fileVars, Suspended, MainInv, handled_signals
<1>7. CASE OutputClosed
  BY <1>7 DEF OutputClosed, sigVars
<1>8. CASE InputRemoved
  BY <1>8 DEF InputRemoved, Without, sigVars, MainInv
<1>9. CASE JobDone
  <2>1. /\ opathn' = opathn
        /\ fs' = [n \in DOMAIN fs |->
                    IF n \in opathn THEN File(fs[n].data, fs[n].packed, TRUE) ELSE fs[n]]
    BY <1>9 DEF JobDone, subUnchanged
  <2>2. DOMAIN fs' = DOMAIN fs /\ fs' = [n \in DOMAIN fs' |-> fs'[n]]
    BY <2>1
  <2>3. \A n \in opathn' : fs'[n] = File(fs'[n].data, fs'[n].packed, fs'[n].whole) /\ fs'[n].whole
    BY <2>1 DEF File
  <2>4. \A n \in DOMAIN fs' \ opathn' : fs'[n].whole
    BY <2>1, <2>2
  <2> QED
    BY <2>1, <2>2, <2>3, <2>4
<1>10. CASE Kill \/ Over \/ UNCHANGED vars
  BY <1>10 DEF Kill, Over, Ended, vars, fileVars, sigVars, MainInv
<1>11. CASE \E t \in SubThreads : ThreadFails(t) \/ Thread(t)
  BY <1>11 DEF ThreadFails, Thread, LockStderr, Promote, RaiseUsr1, subUnchanged, BailoutInv,
     blocked_signals, ThreadInv, MainInv, Running
<1> QED
  BY <1>1, <1>2, <1>3, <1>4, <1>5, <1>6, <1>7, <1>8, <1>9, <1>10, <1>11
  DEF Next, Main, MainEnds

(* A complete file is where its data was, or the files are not touched.    *)
LEMMA Unaffected ==
  ASSUME JobInv, UNCHANGED <<original, keep, force, outmode, fs, opathn>>,
         at # "opts" => at' # "opts"
  PROVE  /\ ~ force' /\ (keep' \/ outmode' # "regf") => InPlace'
         /\ ~ force' => Survives'
         /\ at' = "opts" => ~ force' /\ InPlace'
BY DEF JobInv, LossInv, InPlace, Survives

LEMMA LossInvStep == JobInv /\ [Next]_vars => LossInv'
<1> SUFFICES ASSUME JobInv, [Next]_vars PROVE LossInv'
  OBVIOUS
<1>1. CASE OptsSetup
  BY <1>1 DEF OptsSetup, Ended, fileVars, JobInv, LossInv, InPlace, Survives
<1>2. CASE InputOpened
  <2>1. operands # <<>> \/ outmode # "regf"
    BY <1>2 DEF JobInv, MainInv, InputOpened
  <2> QED
    BY <1>2, <2>1, Unaffected DEF InputOpened, FromStdin, fileVars, optVars, LossInv
<1>3. CASE InputSkipped \/ Sti \/ InputClosed \/ Exit
  BY <1>3, Unaffected DEF InputSkipped, Sti, InputClosed, Exit, NextOperand, Ended, fileVars, optVars,
     LossInv
<1>4. CASE OutputStream
  BY <1>4, Unaffected DEF OutputStream, fileVars, optVars, LossInv
<1>5. CASE Work
  BY <1>5, Unaffected DEF Work, fileVars, optVars, LossInv, Saved, JobInv
<1>6. CASE Kill \/ Over \/ UNCHANGED vars
  BY <1>6, Unaffected DEF Kill, Over, Ended, vars, fileVars, optVars, LossInv, Saved, JobInv
<1>7. CASE \E t \in SubThreads : ThreadFails(t) \/ Thread(t)
  BY <1>7, Unaffected DEF ThreadFails, Thread, LockStderr, Promote, RaiseUsr1, subUnchanged, optVars,
     LossInv, Saved, JobInv
<1>8. CASE HaltReturns
  BY <1>8, Unaffected DEF HaltReturns, Woken, fileVars, optVars, LossInv, Saved, JobInv
<1>9. CASE OutputCreated
  <2> DEFINE in == Head(operands)
  <2> SUFFICES ASSUME ~ force PROVE LossInv'
    BY <1>9 DEF OutputCreated, LossInv, optVars
  <2>1. /\ opathn' = {tmp} /\ at' = "work" /\ at = "output" /\ outmode = "regf"
        /\ UNCHANGED <<original, keep, force, outmode, operands>>
    BY <1>9 DEF OutputCreated, optVars
  <2>2. tmp \notin DOMAIN fs /\ fs' = With(fs, tmp, File(fs[in].data, ~ decompress, FALSE))
    BY <1>9 DEF OutputCreated, Cleared
  <2>3. opathn = {}
    BY <2>1 DEF JobInv, MainInv
  <2>4. DOMAIN fs' = DOMAIN fs \cup {tmp} /\ \A n \in DOMAIN fs : fs'[n] = fs[n]
    BY <2>2 DEF With
  <2>5. fs'[tmp].data = fs[in].data
    BY <2>2 DEF With, File
  <2>6. Saved(opathn)'
    BY <2>1, <2>2, <2>4, <2>5 DEF Saved, JobInv, LossInv
  <2>7. InPlace => InPlace'
    BY <2>1, <2>2, <2>3, <2>4 DEF InPlace
  <2>8. ASSUME Survives PROVE Survives'
    <3> SUFFICES ASSUME NEW f \in original
                 PROVE  \E n \in DOMAIN fs' \ opathn' : fs'[n].data = f
      BY <2>1 DEF Survives
    <3>1. PICK n \in DOMAIN fs : fs[n].data = f
      BY <2>8 DEF Survives
    <3> QED
      BY <2>1, <2>2, <2>4, <3>1
  <2> QED
    BY <2>1, <2>6, <2>7, <2>8 DEF JobInv, LossInv
<1>10. CASE OutputSkipped
  <2>1. ~ force => UNCHANGED fs
    BY <1>10 DEF OutputSkipped, Cleared
  <2> QED
    BY <1>10, <2>1, Unaffected DEF OutputSkipped, optVars, LossInv
<1>11. CASE OutputClosed
  <2>1. InPlace => InPlace'
    BY <1>11 DEF OutputClosed, optVars, InPlace
  <2>2. Survives => Survives'
    BY <1>11 DEF OutputClosed, optVars, Survives
  <2>3. ~ force => Saved(opathn)
    BY <1>11 DEF OutputClosed, JobInv, LossInv, MainInv
  <2>4. ~ force => Saved(DOMAIN fs)'
    BY <1>11, <2>3 DEF OutputClosed, Saved, JobInv, FileInv
  <2> QED
    BY <1>11, <2>1, <2>2, <2>4 DEF OutputClosed, optVars, JobInv, LossInv
<1>12. CASE InputRemoved
  <2> DEFINE in == Head(operands)
  <2>1. at = "rm" /\ at' = "sti" /\ opathn = {} /\ opathn' = {} /\ ~ keep /\ outmode = "regf"
        /\ UNCHANGED <<original, keep, force, outmode, operands>>
    BY <1>12 DEF InputRemoved, JobInv, MainInv, optVars
  <2>2. CASE UNCHANGED fs
    BY <2>1, <2>2, Unaffected DEF LossInv
  <2>3. CASE fs' = Without(fs, {in})
    <3>1. DOMAIN fs' = DOMAIN fs \ {in} /\ \A n \in DOMAIN fs \ {in} : fs'[n] = fs[n]
      BY <2>3 DEF Without
    <3>2. ~ force => Survives'
      <4> SUFFICES ASSUME ~ force, NEW f \in original
                   PROVE  \E n \in DOMAIN fs' \ opathn' : fs'[n].data = f
        BY <2>1 DEF Survives
      <4>1. PICK n \in DOMAIN fs : fs[n].data = f
        BY DEF JobInv, LossInv, Survives
      <4>2. CASE n # in
        BY <2>1, <3>1, <4>1, <4>2
      <4>3. CASE n = in
        <5>1. PICK m \in DOMAIN fs : m # in /\ fs[m].data = fs[in].data
          BY <2>1, <4>3 DEF JobInv, LossInv, Saved
        <5> QED
          BY <2>1, <3>1, <4>1, <4>3, <5>1
      <4> QED
        BY <4>2, <4>3
    <3> QED
      BY <2>1, <3>2 DEF LossInv
  <2> QED
    BY <1>12, <2>2, <2>3 DEF InputRemoved
<1>13. CASE JobDone
  <2>1. DOMAIN fs' = DOMAIN fs /\ \A n \in DOMAIN fs : fs'[n].data = fs[n].data
    BY <1>13 DEF JobDone, File
  <2>2. UNCHANGED <<at, original, keep, force, outmode, operands, opathn>>
    BY <1>13 DEF JobDone, subUnchanged, optVars
  <2>3. InPlace => InPlace'
    BY <2>1, <2>2 DEF InPlace
  <2>4. ASSUME Survives PROVE Survives'
    <3> SUFFICES ASSUME NEW f \in original
                 PROVE  \E n \in DOMAIN fs' \ opathn' : fs'[n].data = f
      BY <2>2 DEF Survives
    <3>1. PICK n \in DOMAIN fs \ opathn : fs[n].data = f
      BY <2>4 DEF Survives
    <3> QED
      BY <2>1, <2>2, <3>1
  <2>5. opathn \subseteq DOMAIN fs
    BY DEF JobInv, FileInv
  <2>6. (Saved(opathn) => Saved(opathn)') /\ (Saved(DOMAIN fs) => Saved(DOMAIN fs)')
    BY <2>1, <2>2, <2>5 DEF Saved
  <2> QED
    BY <2>1, <2>2, <2>3, <2>4, <2>6 DEF JobInv, LossInv
<1>14. CASE HaltTerminates \/ MainEnds
  <2>1. /\ at' = "over" /\ opathn' = {} /\ fs' = Without(fs, opathn)
        /\ UNCHANGED <<original, keep, force, outmode>>
    BY <1>14, MainEndsEffect, BailoutEffect DEF HaltTerminates, Ended, cleanup, optVars
  <2>2. DOMAIN fs' = DOMAIN fs \ opathn /\ \A n \in DOMAIN fs \ opathn : fs'[n] = fs[n]
    BY <2>1 DEF Without
  <2>3. InPlace => InPlace'
    BY <2>1, <2>2 DEF InPlace
  <2>4. Survives => Survives'
    BY <2>1, <2>2 DEF Survives
  <2> QED
    BY <2>1, <2>3, <2>4 DEF JobInv, LossInv
<1> QED
  BY <1>1, <1>2, <1>3, <1>4, <1>5, <1>6, <1>7, <1>8, <1>9, <1>10, <1>11, <1>12, <1>13, <1>14
  DEF Next, Main, MainEnds

(***************************************************************************)
(* Types, and what has been served.                                        *)
(***************************************************************************)
Args == cmdline[2]

(* Only what the command line contains is an operand.                      *)
TypeInv ==
  /\ cmdline \in CommandLines
  /\ at \in Controls /\ status \in Statuses \ {"USR1", "USR2"}
  /\ outmode \in OutModes /\ decompress \in BOOLEAN /\ keep \in BOOLEAN /\ force \in BOOLEAN
  /\ warned \in BOOLEAN /\ masked \in BOOLEAN
  /\ ignored \subseteq blocked_signals /\ delivered \subseteq handled_signals
  /\ pending \subseteq Signals
  /\ operands \in Seq(Texts(Args)) /\ served \in Seq(Texts(Args))

(* The job has produced the complete output of the current operand.        *)
Produced == at \in {"close", "rm", "sti", "uninit"} \/ (at = "halt" /\ "USR2" \in pending)

(* Without a warning, what is served and what is left are the operands of  *)
(* the command line; the current one is still among the operands.          *)
ServeInv ==
  /\ ~ warned /\ at \notin {"opts", "over"} =>
       served \o (IF Produced /\ operands # <<>> THEN Tail(operands) ELSE operands)
         = OperandsOf(Args)
  /\ at = "opts" => served = <<>>
  /\ at = "end" => operands = <<>>
  /\ status = "EX_OK" => served = OperandsOf(Args) \/ HelpAsked

LEMMA CommandLineFacts ==
  ASSUME TypeInv
  PROVE  Len(Args) \in Nat /\ \A i \in 1 .. Len(Args) : IsArgument(Args[i])
  BY JobAssumption DEF TypeInv, Args

LEMMA InitMore == Init => TypeInv /\ ServeInv
<1> SUFFICES ASSUME Init PROVE TypeInv /\ ServeInv
  OBVIOUS
<1>1. <<>> \in Seq(Texts(Args))
  OBVIOUS
<1> QED
  BY <1>1 DEF Init, TypeInv, ServeInv, Controls, Statuses, Signals, OutModes, handled_signals,
     blocked_signals

(* The operand that is served moves from the front of what is left to the  *)
(* end of what is served.                                                  *)
LEMMA Moved ==
  ASSUME NEW T, NEW s \in Seq(T), NEW t \in Seq(T), t # <<>>
  PROVE  /\ Head(t) \in T /\ Tail(t) \in Seq(T) /\ Append(s, Head(t)) \in Seq(T)
         /\ Append(s, Head(t)) \o Tail(t) = s \o t
<1>1. Head(t) \in T /\ Tail(t) \in Seq(T) /\ Append(s, Head(t)) \in Seq(T)
  OBVIOUS
<1>2. Append(s, Head(t)) \o Tail(t) = s \o t
  OBVIOUS
<1> QED
  BY <1>1, <1>2

LEMMA TypeInvStep == JobInv /\ TypeInv /\ [Next]_vars => TypeInv'
<1> SUFFICES ASSUME JobInv, TypeInv, [Next]_vars PROVE TypeInv'
  OBVIOUS
<1> DEFINE T == Texts(Args)
<1>t. /\ cmdline \in CommandLines /\ at \in Controls /\ status \in Statuses \ {"USR1", "USR2"}
      /\ outmode \in OutModes /\ decompress \in BOOLEAN /\ keep \in BOOLEAN /\ force \in BOOLEAN
      /\ warned \in BOOLEAN /\ masked \in BOOLEAN
      /\ ignored \subseteq blocked_signals /\ delivered \subseteq handled_signals
      /\ pending \subseteq Signals /\ operands \in Seq(T) /\ served \in Seq(T)
  BY DEF TypeInv
<1>c. cmdline' = cmdline /\ ignored' = ignored
  BY DEF Next, Main, OptsSetup, InputOpened, InputSkipped, OutputCreated, OutputSkipped, OutputStream,
     Work, NotBzip2, HeaderNotWritten, HaltTerminates, HaltFails, HaltReturns, OutputClosed,
     InputRemoved, Sti, InputClosed, Exit, MainFails, MainBailout, JobDone, Kill, Over, ThreadFails,
     Thread, LockStderr, Promote, RaiseUsr1, subUnchanged, vars, optVars
<1>k. ASSUME /\ at' \in Controls /\ status' \in Statuses \ {"USR1", "USR2"}
             /\ outmode' \in OutModes /\ decompress' \in BOOLEAN /\ keep' \in BOOLEAN
             /\ force' \in BOOLEAN /\ warned' \in BOOLEAN /\ masked' \in BOOLEAN
             /\ delivered' \subseteq handled_signals /\ pending' \subseteq Signals
             /\ operands' \in Seq(T) /\ served' \in Seq(T)
      PROVE  TypeInv'
  <2>1. Args' = Args
    BY <1>c DEF Args
  <2>2. Texts(Args)' = T
    BY <2>1 DEF Texts
  <2> HIDE DEF T
  <2> QED
    BY <1>t, <1>c, <1>k, <2>2 DEF TypeInv
<1>s. /\ {"running", "EX_OK", "EX_WARN", "EX_FAIL", "INT", "TERM", "PIPE", "XFSZ"}
           \subseteq Statuses \ {"USR1", "USR2"}
      /\ handled_signals \subseteq Signals /\ blocked_signals \subseteq Signals
      /\ {"opts", "input", "output", "work", "halt", "close", "rm", "sti", "uninit", "end", "over"}
           \subseteq Controls
  BY DEF Statuses, Signals, handled_signals, blocked_signals, Controls
<1> HIDE DEF T
<1>1. CASE OptsSetup
  <2> DEFINE o(i, p) == opts_setup(Parsed(cmdline[1], Args), i, p)
  <2> PICK i \in BOOLEAN, p \in BOOLEAN :
        /\ outmode' = o(i, p).outmode /\ decompress' = o(i, p).decompress
        /\ keep' = o(i, p).keep /\ force' = o(i, p).force
        /\ operands' = o(i, p).operands
        /\ CASE o(i, p).args_state = "fail"                 -> Ended("EX_FAIL")
             [] o(i, p).args_state \in {"usage", "version"} -> Ended("EX_OK")
             [] OTHER                                       -> at' = "input" /\ UNCHANGED status
    BY <1>1 DEF OptsSetup, Args
  <2>1. /\ o(i, p).outmode \in OutModes /\ o(i, p).decompress \in BOOLEAN
        /\ o(i, p).keep \in BOOLEAN /\ o(i, p).force \in BOOLEAN /\ o(i, p).operands \in Seq(T)
    BY CommandLineFacts, OptionsResult DEF T
  <2>2. UNCHANGED <<warned, masked, delivered, pending, served>>
    BY <1>1 DEF OptsSetup, sigVars
  <2> DEFINE r == o(i, p)
  <2> HIDE DEF o, r
  <2>3. at' \in {"input", "over"} /\ status' \in {status, "EX_FAIL", "EX_OK"}
    BY DEF Ended
  <2> QED
    BY <1>t, <1>k, <1>s, <2>1, <2>2, <2>3
<1>2. CASE MainEnds
  <2>1. PICK sigs : MainBailout(sigs)
    BY <1>2, MainEndsEffect
  <2>2. /\ at' = "over" /\ status' \in {"EX_FAIL", "PIPE", "XFSZ"}
        /\ UNCHANGED <<optVars, operands, warned, served, masked, sigVars>>
    BY <2>1 DEF MainBailout, Ended, blocked_signals
  <2> QED
    BY <1>t, <1>k, <1>s, <2>2 DEF optVars, sigVars
<1>3. CASE InputOpened \/ OutputCreated \/ OutputSkipped \/ OutputStream \/ Work \/ OutputClosed
           \/ InputRemoved
  <2>1. /\ at' \in {"output", "work", "sti", "halt", "rm"} /\ warned' \in {warned, TRUE}
        /\ masked' \in {masked, TRUE}
        /\ UNCHANGED <<status, optVars, operands, served, sigVars>>
    BY <1>3 DEF InputOpened, OutputCreated, OutputSkipped, OutputStream, Work, OutputClosed,
       InputRemoved, Skipped
  <2> QED
    BY <1>t, <1>k, <1>s, <2>1 DEF optVars, sigVars
<1>4. CASE InputSkipped \/ InputClosed
  <2>1. /\ at' \in {"end", "input"} /\ warned' \in {warned, TRUE}
        /\ operands' = IF operands = <<>> THEN <<>> ELSE Tail(operands)
        /\ UNCHANGED <<status, optVars, served, masked, sigVars>>
    BY <1>4 DEF InputSkipped, InputClosed, NextOperand, FromStdin, Skipped
  <2>2. operands' \in Seq(T)
    BY <1>t, <2>1
  <2> QED
    BY <1>t, <1>k, <1>s, <2>1, <2>2 DEF optVars, sigVars
<1>5. CASE HaltTerminates \/ HaltReturns
  <2>1. /\ at' \in {"over", "close", "sti"} /\ status' \in {status, "INT", "TERM"}
        /\ delivered' = delivered \cup (pending \cap handled_signals) /\ pending' \subseteq pending
        /\ UNCHANGED <<optVars, operands, warned, served, masked>>
    BY <1>5 DEF HaltTerminates, HaltReturns, Woken, Suspended, Ended
  <2> QED
    BY <1>t, <1>k, <1>s, <2>1 DEF optVars
<1>6. CASE Sti
  <2>1. "USR1" \notin pending /\ "USR2" \notin pending
    BY <1>6 DEF Sti, JobInv, ThreadInv, BailoutInv
  <2>2. /\ at' \in {"over", "uninit"} /\ status' \in {status, "INT", "TERM"} /\ masked' = FALSE
        /\ UNCHANGED <<optVars, operands, warned, served, sigVars>>
    BY <1>6, <2>1 DEF Sti, Suspended, Ended, handled_signals
  <2> QED
    BY <1>t, <1>k, <1>s, <2>2 DEF optVars, sigVars
<1>7. CASE Exit \/ Kill
  <2>1. /\ at' \in {at, "over"} /\ status' \in {status, "EX_WARN", "EX_OK", "INT", "TERM"}
        /\ pending' \subseteq pending \cup {"INT", "TERM"}
        /\ UNCHANGED <<optVars, operands, warned, served, masked, delivered>>
    BY <1>7 DEF Exit, Kill, Ended, sigVars
  <2> QED
    BY <1>t, <1>k, <1>s, <2>1 DEF optVars, handled_signals
<1>8. CASE JobDone
  <2>1. /\ UNCHANGED <<at, status, optVars, operands, warned, masked, delivered>>
        /\ pending' = pending \cup {"USR2"}
        /\ served' = IF operands = <<>> THEN served ELSE Append(served, Head(operands))
    BY <1>8 DEF JobDone, subUnchanged, Serve, FromStdin
  <2>2. served' \in Seq(T)
    BY <1>t, <2>1, Moved
  <2> QED
    BY <1>t, <1>k, <1>s, <2>1, <2>2 DEF optVars, handled_signals
<1>9. CASE \E t \in SubThreads : ThreadFails(t) \/ Thread(t)
  <2>1. PICK t \in SubThreads : ThreadFails(t) \/ Thread(t)
    BY <1>9
  <2>2. tpending[t] \subseteq blocked_signals
    BY DEF JobInv, BailoutInv
  <2>3. /\ UNCHANGED <<at, status, optVars, operands, warned, masked, delivered, served>>
        /\ pending' \subseteq pending \cup {"USR1"} \cup tpending[t]
    BY <2>1 DEF ThreadFails, Thread, LockStderr, Promote, RaiseUsr1, subUnchanged
  <2> QED
    BY <1>t, <1>k, <1>s, <2>2, <2>3 DEF optVars, handled_signals
<1>10. CASE Over \/ UNCHANGED vars
  BY <1>t, <1>k, <1>10 DEF Over, vars, optVars, sigVars
<1> QED
  BY <1>1, <1>2, <1>3, <1>4, <1>5, <1>6, <1>7, <1>8, <1>9, <1>10 DEF Next, Main, MainEnds

LEMMA ServeInvStep == JobInv /\ TypeInv /\ ServeInv /\ [Next]_vars => ServeInv'
<1> SUFFICES ASSUME JobInv, TypeInv, ServeInv, [Next]_vars PROVE ServeInv'
  OBVIOUS
<1> DEFINE T == Texts(Args)
           all == OperandsOf(Args)
           left == IF Produced /\ operands # <<>> THEN Tail(operands) ELSE operands
<1>t. operands \in Seq(T) /\ served \in Seq(T) /\ at \in Controls
  BY DEF TypeInv
<1>c. cmdline' = cmdline
  BY DEF Next, Main, OptsSetup, InputOpened, InputSkipped, OutputCreated, OutputSkipped, OutputStream,
     Work, NotBzip2, HeaderNotWritten, HaltTerminates, HaltFails, HaltReturns, OutputClosed,
     InputRemoved, Sti, InputClosed, Exit, MainFails, MainBailout, JobDone, Kill, Over, ThreadFails,
     Thread, LockStderr, Promote, RaiseUsr1, subUnchanged, vars, optVars
<1>h. HelpAsked' = HelpAsked
  BY <1>c DEF HelpAsked
<1>a. OperandsOf(Args)' = all
  BY <1>c DEF Args
<1>0. /\ ~ warned /\ at \notin {"opts", "over"} => served \o left = all
      /\ at = "opts" => served = <<>>
      /\ at = "end" => operands = <<>>
      /\ status = "EX_OK" => served = all \/ HelpAsked
  BY DEF ServeInv
<1>m. /\ status = "running" <=> at # "over"
      /\ at # "halt" /\ at # "over" => "USR2" \notin pending
      /\ at # "halt" /\ at # "over" => \A t \in SubThreads : thread[t] = "idle"
      /\ at # "over" /\ "USR2" \in pending => \A t \in SubThreads : thread[t] = "done"
      /\ at \notin {"halt", "over"} => "USR1" \notin pending
  BY DEF JobInv, MainInv, ThreadInv, BailoutInv
<1>k. ASSUME /\ ~ warned' /\ at' \notin {"opts", "over"} => served' \o left' = all
             /\ at' # "opts" /\ (at' = "end" => operands' = <<>>)
             /\ status' = "EX_OK" => served' = all \/ HelpAsked
      PROVE  ServeInv'
  BY <1>a, <1>h, <1>k DEF ServeInv
<1>e. ASSUME at' = "over", status' # "EX_OK" PROVE ServeInv'
  BY <1>e, <1>k
(* Steps after which the same is left, of the same operands.               *)
<1>u. ASSUME /\ at # "opts" /\ at # "over" /\ at' \notin {"opts", "over"} /\ at' # "end"
             /\ UNCHANGED <<operands, served, status>>
             /\ ~ warned' => ~ warned /\ (Produced' <=> Produced)
      PROVE  ServeInv'
  <2>1. ~ warned' => served' \o left' = all
    <3>1. ~ warned' => left' = left
      BY <1>u
    <3> HIDE DEF left, all
    <3> QED
      BY <1>0, <1>u, <3>1
  <2>2. status' # "EX_OK"
    BY <1>u, <1>m
  <2> QED
    BY <1>k, <1>u, <2>1, <2>2
<1> HIDE DEF T, all
<1>1. CASE OptsSetup
  <2> DEFINE o(i, p) == opts_setup(Parsed(cmdline[1], Args), i, p)
  <2> PICK i \in BOOLEAN, p \in BOOLEAN :
        /\ operands' = o(i, p).operands
        /\ CASE o(i, p).args_state = "fail"                 -> Ended("EX_FAIL")
             [] o(i, p).args_state \in {"usage", "version"} -> Ended("EX_OK")
             [] OTHER                                       -> at' = "input" /\ UNCHANGED status
    BY <1>1 DEF OptsSetup, Args
  <2>1. /\ o(i, p).args_state \in {"usage", "version"} => HelpAsked
        /\ o(i, p).args_state \notin {"usage", "version", "fail"} => o(i, p).operands = all
    <3>1. HelpAsked <=> \E j \in 1 .. Len(Args) : AsksHelp(Args[j])
      BY DEF HelpAsked, Args
    <3>2. Len(Args) \in Nat /\ \A j \in 1 .. Len(Args) : IsArgument(Args[j])
      BY CommandLineFacts
    <3>3. o(i, p).args_state \notin {"usage", "version", "fail"} => o(i, p).operands = all
      BY <3>2, OptionsResult DEF all
    <3>4. o(i, p).args_state \in {"usage", "version"} => \E j \in 1 .. Len(Args) : AsksHelp(Args[j])
      BY <3>2, OptionsResult
    <3> QED
      BY <3>1, <3>3, <3>4
  <2>2. at = "opts" /\ served' = served
    BY <1>1 DEF OptsSetup
  <2> DEFINE r == o(i, p)
  <2> HIDE DEF o, r
  <2>3. CASE r.args_state = "fail"
    BY <1>e, <2>3 DEF Ended, r
  <2>4. CASE r.args_state \in {"usage", "version"}
    <3>1. at' = "over"
      BY <2>4 DEF Ended, r
    <3> QED
      BY <1>k, <2>1, <2>4, <3>1 DEF r
  <2>5. CASE r.args_state \notin {"usage", "version", "fail"}
    <3>1. at' = "input" /\ status' = status /\ operands' = all
      BY <2>1, <2>5 DEF r
    <3>2. left' = all
      BY <3>1 DEF Produced
    <3>3. served' \o left' = all
      <4>1. served' = <<>> /\ all \in Seq(T)
        <5>1. operands' \in Seq(T)
          <6>1. o(i, p).operands \in Seq(T)
            BY CommandLineFacts, OptionsResult DEF T, o
          <6> QED
            BY <6>1
        <5> QED
          BY <1>0, <2>2, <3>1, <5>1
      <4> QED
        BY <3>2, <4>1
    <3> QED
      BY <1>k, <1>m, <2>2, <3>1, <3>3
  <2> QED
    BY <2>3, <2>4, <2>5
<1>2. CASE MainEnds
  <2>1. PICK sigs : MainBailout(sigs)
    BY <1>2, MainEndsEffect
  <2>2. at' = "over" /\ status' \in {"EX_FAIL", "PIPE", "XFSZ"}
    BY <2>1 DEF MainBailout, Ended, blocked_signals
  <2> QED
    BY <1>e, <2>2
<1>3. CASE InputOpened \/ OutputCreated \/ OutputStream \/ Work
  <2>1. /\ at \in {"input", "output", "work"} /\ at' \in {"output", "work", "halt"}
        /\ UNCHANGED <<operands, served, status, warned, pending>>
    BY <1>3 DEF InputOpened, OutputCreated, OutputStream, Work, sigVars
  <2>2. ~ Produced /\ ~ Produced'
    <3>1. "USR2" \notin pending /\ "USR2" \notin pending'
      BY <1>m, <2>1
    <3>2. at \notin {"close", "rm", "sti", "uninit"} /\ at' \notin {"close", "rm", "sti", "uninit"}
      BY <2>1
    <3> QED
      BY <3>1, <3>2 DEF Produced
  <2> QED
    BY <1>u, <2>1, <2>2
<1>4. CASE OutputSkipped
  <2>1. at = "output" /\ at' = "sti" /\ warned' /\ UNCHANGED <<operands, served, status>>
    BY <1>4 DEF OutputSkipped, Skipped
  <2> QED
    BY <1>u, <2>1
<1>5. CASE OutputClosed \/ InputRemoved
  <2>1. /\ at \in {"close", "rm"} /\ at' \in {"rm", "sti"} /\ warned' \in {warned, TRUE}
        /\ UNCHANGED <<operands, served, status>>
    BY <1>5 DEF OutputClosed, InputRemoved
  <2>2. Produced /\ Produced'
    BY <2>1 DEF Produced
  <2>3. ~ warned' => ~ warned
    BY <2>1
  <2> QED
    BY <1>u, <2>1, <2>2, <2>3
<1>6. CASE InputSkipped \/ InputClosed
  <2>1. /\ at \in {"input", "uninit"} /\ (at = "input" => warned')
        /\ at = "uninit" => warned' = warned
        /\ operands' = IF operands = <<>> THEN <<>> ELSE Tail(operands)
        /\ at' = IF operands' = <<>> THEN "end" ELSE "input"
        /\ UNCHANGED <<served, status>>
    BY <1>6 DEF InputSkipped, InputClosed, NextOperand, FromStdin, Skipped
  <2>2. ~ Produced' /\ (at = "uninit" => Produced)
    BY <2>1 DEF Produced
  <2>3. ~ warned' => served' \o left' = all
    <3>1. ~ warned' => ~ warned /\ at = "uninit" /\ left = operands'
      BY <2>1, <2>2
    <3>2. left' = operands'
      BY <2>2
    <3> HIDE DEF left
    <3> QED
      BY <1>0, <2>1, <3>1, <3>2
  <2>4. status' # "EX_OK"
    BY <1>m, <2>1
  <2> QED
    BY <1>k, <2>1, <2>3, <2>4
<1>7. CASE HaltTerminates
  <2>1. at' = "over" /\ status' \in {"INT", "TERM"}
    BY <1>7 DEF HaltTerminates, Ended
  <2> QED
    BY <1>e, <2>1
<1>8. CASE HaltReturns
  <2>1. /\ at = "halt" /\ "USR2" \in pending /\ at' \in {"close", "sti"}
        /\ UNCHANGED <<operands, served, status, warned>>
    BY <1>8 DEF HaltReturns, Woken, Suspended
  <2>2. Produced /\ Produced'
    BY <2>1 DEF Produced
  <2> QED
    BY <1>u, <2>1, <2>2
<1>9. CASE Sti
  <2>1. at = "sti" /\ UNCHANGED <<operands, served, warned>>
        /\ \/ at' = "uninit" /\ status' = status
           \/ at' = "over" /\ status' \in {"INT", "TERM"}
    BY <1>9, <1>m DEF Sti, Suspended, Ended, handled_signals
  <2>2. CASE at' = "over"
    BY <1>e, <2>1, <2>2
  <2>3. CASE at' = "uninit"
    <3>1. Produced /\ Produced' /\ status' = status
      BY <2>1, <2>3 DEF Produced
    <3> QED
      BY <1>u, <2>1, <2>3, <3>1
  <2> QED
    BY <2>1, <2>2, <2>3
<1>10. CASE Exit
  <2>1. /\ at = "end" /\ at' = "over" /\ served' = served
        /\ status' = IF warned THEN "EX_WARN" ELSE "EX_OK"
    BY <1>10 DEF Exit, Ended
  <2>2. ~ warned => served = all
    <3>1. left = <<>>
      BY <1>0, <2>1 DEF Produced
    <3>2. served \o <<>> = served
      BY <1>t
    <3> HIDE DEF left
    <3> QED
      BY <1>0, <2>1, <3>1, <3>2
  <2> QED
    BY <1>k, <2>1, <2>2
<1>11. CASE Kill
  <2>1. at # "over" /\ UNCHANGED <<operands, served, warned>>
        /\ \/ pending' \in {pending \cup {"INT"}, pending \cup {"TERM"}} /\ UNCHANGED <<at, status>>
           \/ at' = "over" /\ status' \in {"INT", "TERM"}
    BY <1>11, <1>m DEF Kill, Ended, Running
  <2>2. CASE at' = "over"
    BY <1>e, <2>1, <2>2
  <2>3. CASE at' # "over"
    <3>1. "USR2" \in pending' <=> "USR2" \in pending
      BY <2>1, <2>3
    <3>2. Produced' = Produced /\ UNCHANGED <<at, status>>
      BY <2>1, <2>3, <3>1 DEF Produced
    <3> QED
      BY <1>0, <1>a, <1>h, <2>1, <3>2 DEF ServeInv, all
  <2> QED
    BY <2>2, <2>3
<1>12. CASE JobDone
  <2>1. /\ UNCHANGED <<at, status, operands, warned>> /\ "USR2" \in pending' /\ status = "running"
        /\ \A t \in SubThreads : thread[t] = "running"
        /\ served' = IF operands = <<>> THEN served ELSE Append(served, Head(operands))
    BY <1>12 DEF JobDone, subUnchanged, Serve, FromStdin, Running
  <2>2. at = "halt" /\ "USR2" \notin pending
    <3>1. PICK t \in SubThreads : thread[t] = "running"
      BY <2>1, JobAssumption
    <3> QED
      BY <1>m, <2>1, <3>1
  <2>3. ~ Produced /\ Produced'
    BY <2>1, <2>2 DEF Produced
  <2>4. served' \o left' = served \o left
    <3>1. CASE operands = <<>>
      BY <2>1, <3>1
    <3>2. CASE operands # <<>>
      <4>1. left = operands /\ left' = Tail(operands) /\ served' = Append(served, Head(operands))
        BY <2>1, <2>3, <3>2
      <4>2. Append(served, Head(operands)) \o Tail(operands) = served \o operands
        BY <1>t, <3>2, Moved
      <4> HIDE DEF left
      <4> QED
        BY <4>1, <4>2
    <3> QED
      BY <3>1, <3>2
  <2> HIDE DEF left
  <2> QED
    BY <1>0, <1>k, <2>1, <2>2, <2>4
<1>13. CASE \E t \in SubThreads : ThreadFails(t) \/ Thread(t)
  <2>1. PICK t \in SubThreads : ThreadFails(t) \/ Thread(t)
    BY <1>13
  <2>2. tpending[t] \subseteq blocked_signals
    BY DEF JobInv, BailoutInv
  <2>3. /\ UNCHANGED <<at, status, operands, warned, served>>
        /\ pending \subseteq pending' /\ pending' \subseteq pending \cup {"USR1"} \cup tpending[t]
    BY <2>1 DEF ThreadFails, Thread, LockStderr, Promote, RaiseUsr1, subUnchanged
  <2>4. "USR2" \in pending' <=> "USR2" \in pending
    BY <2>2, <2>3 DEF blocked_signals
  <2>5. Produced' = Produced
    BY <2>3, <2>4 DEF Produced
  <2> QED
    BY <1>0, <1>a, <1>h, <2>3, <2>5 DEF ServeInv, all
<1>14. CASE Over \/ UNCHANGED vars
  <2>1. UNCHANGED <<at, status, operands, warned, served, pending>>
    BY <1>14 DEF Over, vars, sigVars
  <2>2. Produced' = Produced
    BY <2>1 DEF Produced
  <2> QED
    BY <1>0, <1>a, <1>h, <2>1, <2>2 DEF ServeInv, all
<1> QED
  BY <1>1, <1>2, <1>3, <1>4, <1>5, <1>6, <1>7, <1>8, <1>9, <1>10, <1>11, <1>12, <1>13, <1>14
  DEF Next, Main, MainEnds

(***************************************************************************)
(* The theorems.                                                           *)
(***************************************************************************)
THEOREM JobInvariant == Spec => []JobInv
<1>1. Init => JobInv
  BY InitJobInv
<1>2. JobInv /\ [Next]_vars => JobInv'
  BY MainInvStep, ThreadInvStep, BailoutInvStep, PipeToldStep, FileInvStep, LossInvStep DEF JobInv
<1> QED
  BY <1>1, <1>2, PTL DEF Spec

(* However the process ends, no output file is left that is not complete:  *)
(* the only one that may be has a name in opathn, which only a completed   *)
(* job and cleanup() clear.                                                *)
THEOREM NoPartialOutputHolds == Spec => []NoPartialOutput
<1>1. JobInv => NoPartialOutput
  BY DEF JobInv, MainInv, FileInv, NoPartialOutput
<1> QED
  BY <1>1, JobInvariant, PTL

(* The data of every original file is somewhere, whole, at every moment:   *)
(* the input file is removed only when another file has its data.          *)
THEOREM NothingLostHolds == Spec => []NothingLost
<1>1. JobInv => NothingLost
  BY DEF JobInv, FileInv, LossInv, InPlace, Survives, NothingLost
<1> QED
  BY <1>1, JobInvariant, PTL

(* A write() that fails with SIGPIPE or SIGXFSZ in a thread of the job is  *)
(* never hidden behind an exit status, whatever other threads do.          *)
THEOREM PipeToldHolds == Spec => []PipeTold
<1>1. JobInv => PipeTold
  BY DEF JobInv
<1> QED
  BY <1>1, JobInvariant, PTL
LEMMA MoreInvariant == Spec => [](TypeInv /\ ServeInv)
<1>1. Init => TypeInv /\ ServeInv
  BY InitMore
<1>2. JobInv /\ TypeInv /\ ServeInv /\ [Next]_vars => TypeInv' /\ ServeInv'
  BY TypeInvStep, ServeInvStep
<1> QED
  BY <1>1, <1>2, JobInvariant, PTL DEF Spec

(* The variables have their types; the signals are masked where the code   *)
(* is between cli() and sti(); threads exist only while they are waited    *)
(* for.                                                                    *)
THEOREM JobTypeOK == Spec => []TypeOK
<1>1. JobInv /\ TypeInv => TypeOK
  <2> SUFFICES ASSUME JobInv, TypeInv PROVE TypeOK
    OBVIOUS
  <2>1. tpending \in [SubThreads \cup {"main"} -> SUBSET blocked_signals]
    BY DEF JobInv, BailoutInv
  <2> QED
    BY <2>1 DEF JobInv, MainInv, ThreadInv, BailoutInv, FileInv, TypeInv, TypeOK
<1> QED
  BY <1>1, JobInvariant, MoreInvariant, PTL

(* Status 0 tells that every operand of the command line, and nothing      *)
(* else, was served, in order: the loop over the arguments finds exactly   *)
(* the operands, and the main thread serves the first that is left, or     *)
(* keeps a warning in mind.                                                *)
THEOREM StatusTellsHolds == Spec => []StatusTells
<1>1. TypeInv /\ ServeInv => StatusTells
  BY DEF TypeInv, ServeInv, StatusTells, Args
<1> QED
  BY <1>1, MoreInvariant, PTL
=============================================================================

------------------------------ MODULE Options ------------------------------
(***************************************************************************)
(* main.c: the command line.  opts_setup() turns the arguments (those of   *)
(* the environment first) into options and leaves the operands.            *)
(*                                                                         *)
(* A text, and so the name of a file, is the sequence of its parts between *)
(* dots: <<"a", "bz2">> is a.bz2.  An argument is an operand, "--", a long *)
(* option or a cluster of short ones, of which -n and -m take the rest of  *)
(* the argument (attached) or the next argument as a number.               *)
(***************************************************************************)
EXTENDS Integers, SequencesExt

CONSTANTS
  Number,       \* xstrtol(): the values of the texts that are numbers
  mx_worker,    \* the most threads the system allows
  num_online    \* number of online processors

ASSUME OptionsAssumption ==
  /\ \A text \in DOMAIN Number : Number[text] \in Nat
  /\ mx_worker \in Nat \ {0} /\ num_online \in Nat \ {0}

(***************************************************************************)
(* Arguments.                                                              *)
(***************************************************************************)
Operand(text) == [kind |-> "operand", text |-> text]
DashDash == [kind |-> "--", text |-> <<"--">>]
Long(name) == [kind |-> "long", name |-> name, text |-> <<"--long">>]
Short(letters, attached) ==
  [kind |-> "short", letters |-> letters, attached |-> attached, text |-> <<"-short">>]

(* What is an argument.  None that begins with "-" is the number of        *)
(* threads or the amount of memory, since both are at least one.           *)
IsArgument(arg) ==
  \/ arg.kind = "operand" /\ arg = Operand(arg.text)
  \/ arg = DashDash
  \/ arg.kind = "long" /\ arg = Long(arg.name)
  \/ /\ arg.kind = "short" /\ arg = Short(arg.letters, arg.attached)
     /\ arg.letters \in Seq(STRING)

ASSUME NumberAssumption ==
  {DashDash.text, Long("help").text, Short(<<>>, <<>>).text} \cap DOMAIN Number = {}

Digits == <<"1", "2", "3", "4", "5", "6", "7", "8", "9">>

(* The short option that does what a long one does.                        *)
LongOption ==
  [stdout |-> "c", test |-> "t", decompress |-> "d", compress |-> "z",
   fast |-> "1", best |-> "9", force |-> "f", keep |-> "k", small |-> "s",
   sequential |-> "u", verbose |-> "v", quiet |-> "q", exponential |-> "q",
   help |-> "h", license |-> "V", version |-> "V"]

(***************************************************************************)
(* Names of files.                                                         *)
(***************************************************************************)
CompressedSuffix == {"bz2", "tbz2", "tbz", "tz2"}

(* suffix_xform(name, 0)                                                   *)
HasCompressedSuffix(name) == Last(name) \in CompressedSuffix

(* suffix_xform(name, &tmp)                                                *)
Decompressed(name) ==
  CASE Last(name) = "bz2"                     -> Front(name)
    [] Last(name) \in {"tbz2", "tbz", "tz2"}  -> Append(Front(name), "tar")
    [] OTHER                                  -> Append(name, "out")

(* The name of the output file in output_init().                           *)
OutputName(name, decompress) ==
  IF decompress THEN Decompressed(name) ELSE Append(name, "bz2")

(***************************************************************************)
(* The loop over the arguments.  args_state is the code's, with "fail" for *)
(* a call of fail(); wants is the option that waits for its argument.      *)
(***************************************************************************)
OutModes == {"stdout", "discard", "regf"}

Defaults(pname) ==
  [outmode |-> IF pname = "bzcat" THEN "stdout" ELSE "regf",
   decompress |-> pname \in {"bunzip2", "bzcat"},
   keep |-> FALSE, force |-> FALSE, ultra |-> FALSE, bs100k |-> 9, num_worker |-> 0,
   operands |-> <<>>, args_state |-> "continue", wants |-> "nothing"]

Fail(o) == [o EXCEPT !.args_state = "fail"]

opts_outmode(o, ch) ==
  IF o.outmode = (IF ch = "c" THEN "discard" ELSE "stdout") THEN Fail(o)
  ELSE IF ch = "c" THEN [o EXCEPT !.outmode = "stdout"]
  ELSE [o EXCEPT !.outmode = "discard", !.decompress = TRUE]

opts_decompress(o, ch) ==
  [o EXCEPT !.decompress = (ch = "d"),
            !.outmode = IF @ = "discard" THEN "regf" ELSE @]

(* The argument of -n or -m.                                               *)
Numeric(o, ch, text) ==
  IF text \notin DOMAIN Number \/ Number[text] < 1 \/ (ch = "n" /\ Number[text] > mx_worker)
  THEN Fail(o)
  ELSE [o EXCEPT !.wants = "nothing", !.num_worker = IF ch = "n" THEN Number[text] ELSE @]

(* One letter of a cluster, or what a long option stands for.              *)
ShortOption(o, ch, attached) ==
  IF o.args_state # "continue" THEN o
  ELSE CASE ch \in ToSet(Digits)   -> [o EXCEPT !.bs100k = CHOOSE i \in 1 .. 9 : Digits[i] = ch]
         [] ch \in {"c", "t"}      -> opts_outmode(o, ch)
         [] ch \in {"d", "z"}      -> opts_decompress(o, ch)
         [] ch = "f"               -> [o EXCEPT !.force = TRUE]
         [] ch = "k"               -> [o EXCEPT !.keep = TRUE]
         [] ch = "u"               -> [o EXCEPT !.ultra = TRUE]
         [] ch \in {"s", "v", "S", "q"} -> o
         [] ch = "h"               -> [o EXCEPT !.args_state = "usage"]
         [] ch \in {"L", "V"}      -> [o EXCEPT !.args_state = "version"]
         [] ch \in {"n", "m"}      -> IF attached = <<>> THEN [o EXCEPT !.wants = ch]
                                      ELSE Numeric(o, ch, attached)
         [] OTHER                  -> Fail(o)

(* A cluster, letter by letter.                                            *)
ShortOptions(o, letters, attached) ==
  LET after[i \in 0 .. Len(letters)] ==
        IF i = 0 THEN o ELSE ShortOption(after[i - 1], letters[i], attached)
  IN  after[Len(letters)]

(* One argument.  Options are dropped; operands are kept, and everything   *)
(* behind "--".                                                            *)
Argument(o, arg) ==
  CASE o.args_state = "stop"                      -> [o EXCEPT !.operands = Append(@, arg.text)]
    [] o.args_state \in {"usage", "version", "fail"} -> o
    [] o.args_state = "continue" /\ o.wants # "nothing" -> Numeric(o, o.wants, arg.text)
    [] OTHER ->
         CASE arg.kind = "operand" -> [o EXCEPT !.operands = Append(@, arg.text)]
           [] arg.kind = "--"      -> [o EXCEPT !.args_state = "stop"]
           [] arg.kind = "long"    ->
                IF arg.name \in DOMAIN LongOption
                THEN ShortOption(o, LongOption[arg.name], <<>>) ELSE Fail(o)
           [] arg.kind = "short"   -> ShortOptions(o, arg.letters, arg.attached)

(* The loop: after[i] is what the first i arguments make of the defaults.  *)
Parsed(pname, args) ==
  LET after[i \in 0 .. Len(args)] ==
        IF i = 0 THEN Defaults(pname) ELSE Argument(after[i - 1], args[i])
  IN  after[Len(args)]

(* "Finalize options."                                                     *)
Finished(o) ==
  LET filter == o.outmode = "regf" /\ o.operands = <<>> IN
    [outmode |-> IF filter THEN "stdout" ELSE o.outmode,
     decompress |-> o.decompress, keep |-> o.keep, force |-> o.force,
     ultra |-> o.ultra, bs100k |-> o.bs100k,
     num_worker |-> IF o.num_worker = 0 THEN Min({mx_worker, num_online}) ELSE o.num_worker,
     operands |-> o.operands, args_state |-> o.args_state]

(* opts_setup() behind the loop over the arguments.                        *)
opts_setup(o, stdin_tty, stdout_tty) ==
  LET f == Finished(o)
  IN  IF o.args_state \in {"usage", "version", "fail"} THEN o
      ELSE IF \/ o.wants # "nothing"
              \/ f.decompress /\ f.operands = <<>> /\ stdin_tty
              \/ ~ f.decompress /\ f.outmode = "stdout" /\ stdout_tty
           THEN Fail(f) ELSE f
=============================================================================

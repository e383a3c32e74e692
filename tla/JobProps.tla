------------------------------ MODULE JobProps ------------------------------
(***************************************************************************)
(* What must hold of the process around the jobs (module Job).             *)
(***************************************************************************)
EXTENDS Job

Signals == handled_signals \cup blocked_signals
Statuses == {"running", "EX_OK", "EX_WARN", "EX_FAIL"} \cup Signals
Controls == {"opts", "input", "output", "work", "halt", "close", "rm", "sti", "uninit", "end",
             "over"}
ThreadStates == {"idle", "running", "failing", "promote", "raise", "gone", "done"}

(* The variables have their types.  The signals are masked exactly where   *)
(* the code is between cli() and sti(), and there is an output file only   *)
(* there; threads of the job exist only while the main thread waits.       *)
TypeOK ==
  /\ at \in Controls /\ status \in Statuses /\ (at = "over" <=> status # "running")
  /\ outmode \in OutModes /\ decompress \in BOOLEAN /\ keep \in BOOLEAN /\ force \in BOOLEAN
  /\ warned \in BOOLEAN /\ masked \in BOOLEAN
  /\ ignored \subseteq blocked_signals /\ delivered \subseteq handled_signals
  /\ pending \subseteq Signals
  /\ tpending \in [SubThreads \cup {"main"} -> SUBSET blocked_signals]
  /\ thread \in [SubThreads -> ThreadStates] /\ stderr_lock \in SubThreads \cup {NULL}
  /\ at # "over" => (masked <=> at \in {"work", "halt", "close", "rm", "sti"})
  /\ opathn \subseteq DOMAIN fs
  /\ opathn # {} => at \in {"work", "halt", "close", "over"}
  /\ at \notin {"halt", "over"} => \A t \in SubThreads : thread[t] = "idle"

(***************************************************************************)
(* Files.                                                                  *)
(***************************************************************************)
(* However the process ends, by itself or by a signal, in whatever thread  *)
(* an error occurs and whenever a signal arrives, it leaves no output file *)
(* that is not complete.                                                   *)
NoPartialOutput == at = "over" => \A n \in DOMAIN fs : fs[n].whole

(* The data of every file survives, at every moment: in the file itself or *)
(* in a complete output file.  With -k, -c or -t it stays where it is.     *)
(* (With -f existing output files are removed.)                            *)
NothingLost ==
  ~ force => \A f \in original :
    /\ \E n \in DOMAIN fs : fs[n].data = f /\ fs[n].whole
    /\ keep \/ outmode # "regf" => f \in DOMAIN fs /\ fs[f].data = f

(***************************************************************************)
(* The end of the process.                                                 *)
(***************************************************************************)
(* The operands of a command line: what does not start with "-" and is not *)
(* the argument of -n or -m, and everything behind "--".                   *)
WantsNumber(arg) ==
  arg.kind = "short" /\ arg.attached = <<>> /\ ToSet(arg.letters) \cap {"n", "m"} # {}
EndsOptions(args, i) == args[i] = DashDash /\ (i = 1 \/ ~ WantsNumber(args[i - 1]))
IsOperand(args, i) ==
  \/ \E j \in 1 .. i - 1 : EndsOptions(args, j)
  \/ args[i].kind = "operand" /\ (i = 1 \/ ~ WantsNumber(args[i - 1]))
OperandsOf(args) ==
  LET among[i \in 0 .. Len(args)] ==   \* the first i arguments
        IF i = 0 THEN <<>>
        ELSE IF IsOperand(args, i) THEN Append(among[i - 1], args[i].text) ELSE among[i - 1]
  IN  among[Len(args)]
AsksHelp(arg) ==
  \/ arg.kind = "long" /\ arg.name \in {"help", "license", "version"}
  \/ arg.kind = "short" /\ ToSet(arg.letters) \cap {"h", "L", "V"} # {}
HelpAsked == \E i \in 1 .. Len(cmdline[2]) : AsksHelp(cmdline[2][i])

(* Exit status 0 tells that the complete output of every operand of the    *)
(* command line was produced, in this order; and the signals between the   *)
(* threads never end the process.                                          *)
StatusTells ==
  /\ status = "EX_OK" => served = OperandsOf(cmdline[2]) \/ HelpAsked
  /\ status \notin {"USR1", "USR2"}

(* If the process fails because of a thread whose write() was answered     *)
(* with SIGPIPE or SIGXFSZ, it ends by such a signal.                      *)
PipeTold ==
  status = "EX_FAIL" /\ stderr_lock # NULL => tpending[stderr_lock] = {}

(* A process that was told by SIGINT or SIGTERM to stop, and has begun to  *)
(* handle the signal, does not go on to its normal end.                    *)
SignalHonoured == status \in {"EX_OK", "EX_WARN"} => delivered \cap {"INT", "TERM"} = {}

(* The process comes to its end, in particular after a fatal error in one  *)
(* thread while others go on, wait for the lock of stderr or fail too.     *)
Termination == <>(at = "over")
=============================================================================

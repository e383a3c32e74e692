-------------------------------- MODULE Job --------------------------------
(***************************************************************************)
(* main.c and signals.c: the process around the jobs.                      *)
(*                                                                         *)
(*   - the main thread takes the operands one after the other: it opens    *)
(*     input and output, starts the threads of the job, waits for a signal *)
(*     (halt()), completes the output and removes the input;               *)
(*   - the threads of the job report its end by SIGUSR2 and a fatal error  *)
(*     by SIGUSR1, after they have promoted to the process any SIGPIPE or  *)
(*     SIGXFSZ that their write() was answered with;                       *)
(*   - SIGINT and SIGTERM may come from outside at any time.  While there  *)
(*     is an output file the four signals are blocked (cli() to sti()) and *)
(*     are delivered in sigsuspend() only.                                 *)
(*                                                                         *)
(* What the job does with the data is in the modules Compression,          *)
(* Expansion and Copy: here it ends or one of its threads fails.           *)
(***************************************************************************)
EXTENDS Options

CONSTANTS
  CommandLines,   \* <<pname, args>>: what the program is started with
  Disks,          \* file systems it may be started on
  SubThreads,     \* the threads of a job
  Writers,        \* those of them that write to the output
  NULL            \* no thread

ASSUME JobAssumption ==
  /\ IsFiniteSet(SubThreads) /\ Writers \subseteq SubThreads
  /\ SubThreads # {} /\ "main" \notin SubThreads /\ NULL \notin SubThreads
  /\ \A c \in CommandLines :
       Len(c[2]) \in Nat /\ \A i \in 1 .. Len(c[2]) : IsArgument(c[2][i])
  /\ \A d \in Disks : /\ d = [f \in DOMAIN d |-> d[f]]
                      /\ \A f \in DOMAIN d : d[f].data = f /\ d[f].whole

handled_signals == {"USR1", "USR2", "INT", "TERM"}
blocked_signals == {"PIPE", "XFSZ"}

VARIABLES
  at,             \* control state of the main thread
  status,         \* how the process ended, or "running"
  cmdline,        \* the command line
  outmode, decompress, keep, force, operands, \* as in main.c
  warned,         \* as in main.c
  opathn,         \* the name of the current output file, if there is one
  fs,             \* the files there are, by name
  original,       \* the names of the files there were at the start
  served,         \* history: the operands whose output is complete
  ignored,        \* signals with inherited SIG_IGN
  masked,         \* the main thread blocks handled_signals
  pending,        \* signals pending for the process
  tpending,       \* signals pending for one thread
  delivered,      \* history: the signals that signal_handler() was called for
  thread,         \* control state of each thread of the job
  stderr_lock     \* the thread of the job that holds the lock of stderr

optVars == <<cmdline, outmode, decompress, keep, force, original, ignored>>
fileVars == <<fs, opathn>>
sigVars == <<pending, tpending, delivered>>
threadVars == <<thread, stderr_lock>>
vars == <<at, status, optVars, operands, warned, fileVars, served, masked, sigVars,
          threadVars>>

(* A file: the original file whose data it holds, whether this is in       *)
(* bzip2 format, whether all of it is there, whether it is a regular file  *)
(* and whether it has other links.                                         *)
File(data, packed, whole) ==
  [data |-> data, packed |-> packed, whole |-> whole, regular |-> TRUE, linked |-> FALSE]

Init ==
  /\ at = "opts" /\ status = "running"
  /\ cmdline \in CommandLines
  /\ outmode = "regf" /\ decompress = FALSE /\ keep = FALSE /\ force = FALSE
  /\ operands = <<>> /\ warned = FALSE /\ opathn = {}
  /\ fs \in Disks /\ original = DOMAIN fs
  /\ served = <<>>
  /\ ignored \in SUBSET blocked_signals
  /\ masked = FALSE /\ pending = {}
  /\ tpending = [t \in SubThreads \cup {"main"} |-> {}]
  /\ delivered = {}
  /\ thread = [t \in SubThreads |-> "idle"] /\ stderr_lock = NULL

(***************************************************************************)
(* Files and the end of the process.                                       *)
(***************************************************************************)
Without(files, names) == [n \in DOMAIN files \ names |-> files[n]]

With(files, name, file) ==
  [n \in DOMAIN files \cup {name} |-> IF n = name THEN file ELSE files[n]]

(* cleanup(): remove the current output file, if any.                      *)
cleanup ==
  /\ fs' = Without(fs, opathn)
  /\ opathn' = {}

(* Whether the input is an operand or the standard input.                  *)
FromStdin == operands = <<>>

Ended(how) == at' = "over" /\ status' = how

(* bailout() in the main thread, for which the signals sigs have just been *)
(* generated: unblocked, SIGPIPE or SIGXFSZ is what the process ends by.   *)
MainBailout(sigs) ==
  LET fatal == (pending \cup tpending["main"] \cup sigs) \cap (blocked_signals \ ignored)
  IN  /\ cleanup
      /\ IF fatal = {} THEN Ended("EX_FAIL") ELSE \E s \in fatal : Ended(s)
      /\ UNCHANGED <<optVars, operands, warned, served, masked, sigVars, threadVars>>

(* A failed allocation or system call: fail(), failx().                    *)
MainFails ==
  /\ \/ at \in {"output", "work", "close", "uninit"}
     \/ at = "input" /\ ~ FromStdin
     \/ at = "end" /\ outmode = "stdout"
  /\ MainBailout({})

(***************************************************************************)
(* The main thread.                                                        *)
(***************************************************************************)
OptsSetup ==
  /\ at = "opts"
  /\ \E args \in {Parsed(cmdline[1], cmdline[2])}, stdin_tty, stdout_tty \in BOOLEAN :
       \E o \in {opts_setup(args, stdin_tty, stdout_tty)} :
         /\ outmode' = o.outmode /\ decompress' = o.decompress
         /\ keep' = o.keep /\ force' = o.force
         /\ operands' = o.operands
         /\ CASE o.args_state = "fail"                 -> Ended("EX_FAIL")
              [] o.args_state \in {"usage", "version"} -> Ended("EX_OK")
              [] OTHER                                 -> at' = "input" /\ UNCHANGED status
  /\ UNCHANGED <<cmdline, original, ignored, warned, fileVars, served, masked, sigVars,
                 threadVars>>

(* Mutant of Skipped: no warning.                                          *)
Skipped_Silently == UNCHANGED warned

(* warn(): the operand will not be served.                                 *)
Skipped == warned' = TRUE

NextOperand ==
  /\ operands' = IF FromStdin THEN <<>> ELSE Tail(operands)
  /\ at' = IF operands' = <<>> THEN "end" ELSE "input"

(* What input_init() asks of a file before it opens it.                    *)
Acceptable(name) ==
  /\ ~ force /\ outmode = "regf" => fs[name].regular /\ (keep \/ ~ fs[name].linked)
  /\ decompress \/ ~ HasCompressedSuffix(name)

InputOpened ==
  /\ at = "input"
  /\ ~ FromStdin => Head(operands) \in DOMAIN fs /\ Acceptable(Head(operands))
  /\ at' = "output"
  /\ UNCHANGED <<status, optVars, operands, warned, fileVars, served, masked, sigVars,
                 threadVars>>

(* The file is not there or not acceptable, or a system call fails.        *)
InputSkipped ==
  /\ at = "input" /\ ~ FromStdin
  /\ Skipped
  /\ NextOperand
  /\ UNCHANGED <<status, optVars, fileVars, served, masked, sigVars, threadVars>>

tmp == OutputName(Head(operands), decompress)

(* unlink(tmp) with -f.                                                    *)
Cleared == IF force THEN Without(fs, {tmp}) ELSE fs

(* Mutant of OutputCreated: the file is opened without O_EXCL.             *)
OutputCreated_Truncates ==
  /\ at = "output" /\ outmode = "regf"
  /\ fs' = With(fs, tmp, File(fs[Head(operands)].data, ~ decompress, FALSE))
  /\ opathn' = {tmp}
  /\ masked' = TRUE
  /\ at' = "work"
  /\ UNCHANGED <<status, optVars, operands, warned, served, sigVars, threadVars>>

(* cli(), and output_init() opens the output file.                         *)
OutputCreated ==
  /\ at = "output" /\ outmode = "regf"
  /\ tmp \notin DOMAIN Cleared
  /\ fs' = With(Cleared, tmp, File(fs[Head(operands)].data, ~ decompress, FALSE))
  /\ opathn' = {tmp}
  /\ masked' = TRUE
  /\ at' = "work"
  /\ UNCHANGED <<status, optVars, operands, warned, served, sigVars, threadVars>>

(* ... or cannot, because the file exists or for another reason.           *)
OutputSkipped ==
  /\ at = "output" /\ outmode = "regf"
  /\ fs' \in {fs, Cleared}
  /\ Skipped
  /\ masked' = TRUE
  /\ at' = "sti"
  /\ UNCHANGED <<status, optVars, operands, opathn, served, sigVars, threadVars>>

OutputStream ==
  /\ at = "output" /\ outmode # "regf"
  /\ masked' = TRUE
  /\ at' = "work"
  /\ UNCHANGED <<status, optVars, operands, warned, fileVars, served, sigVars,
                 threadVars>>

(* What the first four bytes of the input say; that of the standard input  *)
(* may be anything.                                                        *)
Packed == IF FromStdin THEN BOOLEAN ELSE {fs[Head(operands)].packed}

Copies == force /\ outmode = "stdout"

(* work(): schedule() or copy() start the threads of the job.              *)
Work ==
  /\ at = "work"
  /\ decompress => TRUE \in Packed \/ Copies
  /\ thread' = [t \in SubThreads |-> "running"]
  /\ at' = "halt"
  /\ UNCHANGED <<status, optVars, operands, warned, fileVars, served, masked, sigVars,
                 stderr_lock>>

NotBzip2 == at = "work" /\ decompress /\ FALSE \in Packed /\ ~ Copies /\ MainBailout({})

(* The header is written before copy() starts: SIGPIPE or SIGXFSZ may come *)
(* with the error.                                                         *)
HeaderNotWritten ==
  /\ at = "work" /\ decompress /\ FALSE \in Packed /\ Copies
  /\ \E s \in blocked_signals \ ignored : MainBailout({s})

(* halt(): sigsuspend() delivers all signals that are pending; the handler *)
(* that returns last has set caught_index.                                 *)
Suspended == pending \cap handled_signals

Woken ==
  /\ at = "halt"
  /\ delivered' = delivered \cup Suspended
  /\ pending' = pending \ Suspended

(* Mutant of HaltTerminates: the output file stays.                        *)
HaltTerminates_NoCleanup ==
  /\ \E s \in Suspended \cap {"INT", "TERM"} : Ended(s)
  /\ Woken
  /\ UNCHANGED <<optVars, operands, warned, fileVars, served, masked, tpending, threadVars>>

(* SIGINT or SIGTERM: cleanup() and terminate().                           *)
HaltTerminates ==
  /\ \E s \in Suspended \cap {"INT", "TERM"} : Ended(s)
  /\ Woken
  /\ cleanup
  /\ UNCHANGED <<optVars, operands, warned, served, masked, tpending, threadVars>>

(* SIGUSR1: a thread of the job has failed, bailout().                     *)
HaltFails == at = "halt" /\ "USR1" \in Suspended /\ MainBailout({})

(* Mutant of HaltReturns: the threads are not joined.                      *)
HaltReturns_NoJoin ==
  /\ "USR2" \in Suspended
  /\ Woken
  /\ at' = IF outmode = "regf" THEN "close" ELSE "sti"
  /\ UNCHANGED <<status, optVars, operands, warned, fileVars, served, masked, tpending,
                 threadVars>>

(* SIGUSR2: the job is done; its threads are joined.                       *)
HaltReturns ==
  /\ "USR2" \in Suspended
  /\ Woken
  /\ at' = IF outmode = "regf" THEN "close" ELSE "sti"
  /\ thread' = [t \in SubThreads |-> "idle"]
  /\ UNCHANGED <<status, optVars, operands, warned, fileVars, served, masked, tpending,
                 stderr_lock>>

Serve == served' = IF FromStdin THEN served ELSE Append(served, Head(operands))

(* output_regf_uninit(); what it restores of owner, mode and times may     *)
(* fail with a warning.                                                    *)
OutputClosed ==
  /\ at = "close"
  /\ warned' \in {warned, TRUE}
  /\ opathn' = {}
  /\ at' = IF keep THEN "sti" ELSE "rm"
  /\ UNCHANGED <<status, optVars, operands, fs, served, masked, sigVars, threadVars>>

(* input_oprnd_rm()                                                        *)
InputRemoved ==
  /\ at = "rm"
  /\ \/ fs' = Without(fs, {Head(operands)}) /\ UNCHANGED warned
     \/ UNCHANGED fs /\ warned' = TRUE
  /\ at' = "sti"
  /\ UNCHANGED <<status, optVars, operands, opathn, served, masked, sigVars, threadVars>>

(* sti(): default actions, then the signals are unblocked.                 *)
Sti ==
  /\ at = "sti"
  /\ masked' = FALSE
  /\ IF Suspended = {} THEN at' = "uninit" /\ UNCHANGED status
                       ELSE \E s \in Suspended : Ended(s)
  /\ UNCHANGED <<optVars, operands, warned, fileVars, served, sigVars, threadVars>>

(* input_uninit() and the next operand.                                    *)
InputClosed ==
  /\ at = "uninit"
  /\ NextOperand
  /\ UNCHANGED <<status, optVars, warned, fileVars, served, masked, sigVars, threadVars>>

Exit ==
  /\ at = "end"
  /\ Ended(IF warned THEN "EX_WARN" ELSE "EX_OK")
  /\ UNCHANGED <<optVars, operands, warned, fileVars, served, masked, sigVars, threadVars>>

Main ==
  \/ OptsSetup \/ InputOpened \/ InputSkipped
  \/ OutputCreated \/ OutputSkipped \/ OutputStream
  \/ Work \/ NotBzip2 \/ HeaderNotWritten
  \/ HaltTerminates \/ HaltFails \/ HaltReturns
  \/ OutputClosed \/ InputRemoved \/ Sti \/ InputClosed \/ Exit

(***************************************************************************)
(* The threads of the job.                                                 *)
(***************************************************************************)
subUnchanged == <<at, status, optVars, operands, warned, opathn, masked, delivered>>

Running == status = "running"

(* A fatal error in thread t; one of write() may come with a signal to the *)
(* thread.                                                                 *)
ThreadFails(t) ==
  /\ Running /\ thread[t] = "running"
  /\ thread' = [thread EXCEPT ![t] = "failing"]
  /\ \/ UNCHANGED tpending
     \/ /\ t \in Writers
        /\ \E s \in blocked_signals \ ignored :
             tpending' = [tpending EXCEPT ![t] = @ \cup {s}]
  /\ UNCHANGED <<subUnchanged, fs, served, pending, stderr_lock>>

(* Mutant of LockStderr: SIGUSR1 is raised before the pending signals are  *)
(* promoted.                                                               *)
LockStderr_RaisesFirst(t) ==
  /\ Running /\ thread[t] = "failing" /\ stderr_lock = NULL
  /\ stderr_lock' = t
  /\ thread' = [thread EXCEPT ![t] = "promote"]
  /\ pending' = pending \cup {"USR1"}
  /\ UNCHANGED <<subUnchanged, fs, served, tpending>>

(* fail() and its kin keep the lock of stderr when they do not return.     *)
LockStderr(t) ==
  /\ Running /\ thread[t] = "failing" /\ stderr_lock = NULL
  /\ stderr_lock' = t
  /\ thread' = [thread EXCEPT ![t] = "promote"]
  /\ UNCHANGED <<subUnchanged, fs, served, pending, tpending>>

(* bailout() in a thread of the job: promote() ...                         *)
Promote(t) ==
  /\ Running /\ thread[t] = "promote"
  /\ pending' = pending \cup tpending[t]
  /\ thread' = [thread EXCEPT ![t] = "raise"]
  /\ UNCHANGED <<subUnchanged, fs, served, tpending, stderr_lock>>

(* Mutant of RaiseUsr1: not after a promoted signal.                       *)
RaiseUsr1_UnlessPromoted(t) ==
  /\ Running /\ thread[t] = "raise"
  /\ pending' = IF tpending[t] = {} THEN pending \cup {"USR1"} ELSE pending
  /\ thread' = [thread EXCEPT ![t] = "gone"]
  /\ UNCHANGED <<subUnchanged, fs, served, tpending, stderr_lock>>

(* ... and SIGUSR1.                                                        *)
RaiseUsr1(t) ==
  /\ Running /\ thread[t] = "raise"
  /\ pending' = pending \cup {"USR1"}
  /\ thread' = [thread EXCEPT ![t] = "gone"]
  /\ UNCHANGED <<subUnchanged, fs, served, tpending, stderr_lock>>

(* The job comes to its end, which it does not if a thread has failed: its *)
(* output is complete, and SIGUSR2 is raised.                              *)
JobDone ==
  /\ Running /\ \A t \in SubThreads : thread[t] = "running"
  /\ fs' = [n \in DOMAIN fs |->
               IF n \in opathn THEN File(fs[n].data, fs[n].packed, TRUE) ELSE fs[n]]
  /\ Serve
  /\ pending' = pending \cup {"USR2"}
  /\ thread' = [t \in SubThreads |-> "done"]
  /\ UNCHANGED <<subUnchanged, tpending, stderr_lock>>

Thread(t) == LockStderr(t) \/ Promote(t) \/ RaiseUsr1(t)

(***************************************************************************)
(* The outside: kill() by somebody else.                                   *)
(***************************************************************************)
Kill ==
  /\ Running
  /\ \E s \in {"INT", "TERM"} :
       IF masked THEN pending' = pending \cup {s} /\ UNCHANGED <<at, status>>
                 ELSE Ended(s) /\ UNCHANGED pending
  /\ UNCHANGED <<optVars, operands, warned, fileVars, served, masked, tpending, delivered,
                 threadVars>>

Over == at = "over" /\ UNCHANGED vars

Next ==
  \/ Main \/ MainFails \/ JobDone \/ Kill \/ Over
  \/ \E t \in SubThreads : ThreadFails(t) \/ Thread(t)

Spec == Init /\ [][Next]_vars

(* The main thread and the threads of the job run; the job ends (which the *)
(* modules Compression, Expansion and Copy are about) unless it fails.     *)
Fairness == WF_vars(Main) /\ WF_vars(JobDone) /\ \A t \in SubThreads : WF_vars(Thread(t))

FairSpec == Spec /\ Fairness
=============================================================================

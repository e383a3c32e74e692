# lbzip2 in TLA+

A formal model of lbzip2, the multi-threaded bzip2 compressor: TLA+ modules
translated from the C sources (`src/src/*.c`), TLC configurations that check
them on small instances, and TLAPS proofs that hold for every value of the
parameters.

## 1. The system

lbzip2 reads a file in large buffers, works on blocks in any order on several
threads, and must write a stream that looks as if one thread had done it.

| part | source | state it keeps | operations |
|---|---|---|---|
| machinery | `process.c`, `process.h` | slots and units (`in_slots`, `out_slots`, `work_units`), `eof`, `next_task`, `output_q`, `finish`, `request_close`; three mutexes with one condition variable each | source thread, sink thread, worker loop, `sched_lock`/`sched_unlock`, `source_release_buffer`, `source_close`, `sink_write_buffer`, start and shutdown in `primary_thread` |
| compression job | `compress.c` | `coll_q`, `trans_q`, `reord_q`, `order`, `next_id`, `combined_crc`, `collect_token`, `unfinished_work` | tasks collect, collect_seq, transmit, reorder; callbacks `on_input_avail`, `on_write_complete`, `can_terminate`, `init`, `uninit` |
| priority queue | `process.h`, `up_heap`/`down_heap` in `process.c` | array and size | `enqueue`, `dequeue`, `peek` |
| deque | `process.h` | ring array, `size`, `modulus`, `head` | `shift`, `unshift`, `push`, `pop`, `dq_get`, `dq_set` |
| copying (`-dcf`) | `copy()` in `process.c` | the machinery's, plus the signal it raises | two callbacks and `copy_terminate` |
| expansion job | `expand.c` | input list, `scan_q`, `retr_q`, `emit_q`, `unord_q`, `order_q`, `reord_q`, the parser's bit stream | tasks reorder, parse, emit, retrieve, scan; callbacks |
| parser and scanner | `parse.c`, `scantab.h` | state of the parser, two automata over the bit stream | `parse`, `scan`, `bits_need` and its kin |
| command line | `main.c` | options, list of operands | `opts_setup`, `suffix_xform` |
| operands | `main.c` | `ispec`, `ospec`, `warned`, the path to remove on failure | loop over the files: opening, completing, removing, cleaning up |
| signals | `signals.c` | signal masks, pending and caught signals, the lock of stderr | `cli`, `sti`, `halt`, `promote`, `bailout`, `terminate` |
| block encoder | `encode.c`, `divbwt.c` | one block: run-length coder, text, trees, selectors | `collect`, `encode`, `transmit`; `divbwt` |
| block decoder | `decode.c` | one block: trees, lists of characters, text, suspended output | `retrieve`, `decode`, `emit` |

The parts meet as follows. The main thread takes one operand after the other,
opens its files and starts a job; then it waits for a signal: SIGUSR2 says that
the job is over, SIGUSR1 that a thread has failed. A *job* is a table of tasks (`ready`, `run`) in
order of priority with callbacks. The source thread calls `on_block` with
each buffer; the sink thread calls `on_written` when a block is out. Both, and
every task, enter the one scheduler monitor (`sched_mutex`). Whoever leaves
it calls `select_task()` and signals one waiter. `in_slots` limits buffers
that are read but not released, `out_slots` blocks that are transmitted but
not written, `work_units` blocks in work: these three counters are the flow
control of the whole program.

What is hard here: the order in which blocks complete is arbitrary; a
worker's guard is evaluated by another thread and cached; one signal per
change must be enough; slots are scarce, and blocks that ran ahead may
hold what the next block needs; the end of the job is inferred from
counters; static variables survive from one file to the next. Around the
jobs: any system call may fail and any signal may come while there is half an
output file, and threads may fail while the main thread waits. Inside a block:
every stage may be suspended at the end of its buffer and has to go on from
there, and sizes are announced before the bits that they count are made.

What makes each part correct:

* machinery: no lost wakeup, no stale task, no slot lost or returned twice,
  and termination;
* compression: every byte of the input in one place and, in the end, in one
  block; blocks written in order; the CRC combined in that order; the output
  side never starves; nothing left behind for the next file;
* priority queue: the head is a least element, nothing is lost;
* deque: a sequence, whatever the head and the wrap of the indices;
* copying: output equals input; the final signal is raised exactly once;
* expansion: the output and the verdict of a decoder that does not guess, in
  the presence of block magics that turn out to be false, of damage, and of
  input that ends or goes on after the stream; one master of the parser's
  position; input released neither too early nor never;
* parser and scanner: exactly the files that are whole are accepted, wherever
  they are cut into buffers; a header is found at any bit;
* command line, operands, signals: no partial output left, no data lost, an
  exit status that tells the truth, an end;
* block codec: what is decoded is what was encoded, sizes as announced, codes as
  short as they can be, no word read that is not there.

## 2. The modules

| module | models | based on |
|---|---|---|
| `PQueue` | positions; the queues as sorted sequences | |
| `Process` | the machinery | `PQueue` |
| `Compression` | the compression job | `Process` |
| `OrderedOutput` | abstract: a stream of consecutive blocks, closed by a matching trailer | |
| `CompressionProps` | invariants, refinement and liveness of compression | `Compression`, instantiates `OrderedOutput` |
| `Copy`, `CopyProps` | the copying job and its properties | `Process`, instantiates `OrderedOutput` |
| `Heap` | the binary heap, one loop iteration per step | `PQueue`, instantiates `PriorityQueue` |
| `PriorityQueue` | abstract: one queue of `PQueue` | `PQueue` |
| `Deque` | the ring buffer on unsigned integers | instantiates `Sequence` |
| `Sequence` | abstract: a bounded sequence | |
| `Bitstream` | what a compressed stream contains, and `parse()`, `scan()`, `retrieve()` as operators on it | `PQueue` |
| `Expansion` | the decompression job | `Process`, `Bitstream` |
| `SequentialDecoder` | abstract: a decoder that does one block after the other and judges the file | `Bitstream` |
| `ExpansionProps` | invariants, refinement and liveness of expansion | `Expansion`, instantiates `SequentialDecoder` |
| `Container` | what a compressed file is, bit by bit, and what of it is valid | |
| `Scanner` | the bitstream, `scan()` and the automata of `scantab.h` | |
| `Parser`, `ParserProps` | `parse()`, one turn of its loop per step; its properties | `Container`, `Scanner` |
| `Options` | the command line and the names of files | |
| `Job`, `JobProps` | the main thread, the threads of a job as it sees them, signals; properties | `Options` |
| `Bwt` | the Burrows-Wheeler transform: types of suffixes, induced order, inverse | `Util` |
| `PrefixCode` | trees, selectors, Huffman's algorithm, package-merge | `Util` |
| `BlockEncoder` | `collect()`, `encode()`, `transmit()` | `Bwt`, `PrefixCode` |
| `BlockDecoder` | `retrieve()`, from one `NEED` to the next, and `make_tree()` | |
| `BlockEmitter` | `decode()` and `emit()` | |
| `BlockCodec`, `BlockProps` | a block on its way through all of them; properties | `BlockEncoder`, instantiates `BlockDecoder`, `BlockEmitter` |
| `Util` | operators that these share | |
| `MC...` | constants for TLC | |
| `ExpansionInv` | the inductive invariants of `Expansion` that its safety properties and its refinement follow from | `ExpansionProps`, `PQueueProofs` |
| `...Proofs` | proofs: `PQueue`, `Compression`, `Expansion` (and `Output`, which builds on it), `Heap`, `Deque`, `Job`, `Copy` | |

`Heap` and `Deque` justify the data structures that `Process`, `Compression` and
`Expansion` use in abstract form: `Heap` implements the sorted sequences of
`PQueue`, `Deque` the sequence that `output_q` is.

### Correspondence

*Threads and monitors.* One action is one critical section together with the
private computation before it. A task ends with the monitor held
(`BackInLoop`), so the worker owns `sched_mutex` in the variable of that name
until it sleeps, exits or leaves the monitor inside its next task; everyone
else needs `MonitorFree`. `source_mutex` and `sink_mutex` are held for a single
step only and need no variable. `sched_unlock()` is `SchedUnlock`: it is given
the newly selected task and the stop condition, and chooses any one waiter
to signal. `pthread_cond_wait` may return unsignalled when `SpuriousWakeups` is
set.

*Data.* A block is the interval of input bytes it encodes; a buffer is the
interval it holds. How many bytes `collect()` takes before the encoder is
full depends on the data, so it is chosen: any number short of the whole
buffer (at least one for a new encoder), or all of it. With `ultra` the
encoder may be full at once when it resumes an unfinished block. The CRC is
the list of blocks combined in it, in order; so equal lists means an equal
CRC, and a wrong order shows.

*Compressed data.* A stream is described by its blocks: where each begins and
ends in units of 16 bits, how far `retrieve()` reads to have it, how many output
buffers it fills, what is wrong with it if anything. `bogus` patterns look like
blocks to the scanner and to the retriever, but the parser never meets them.
`parse()`, `scan()` and `retrieve()` are functions of that description, of the
position and of how much input there is; they stop where the code stops, at
the end of an input buffer, and resume from there. A position is the pair of
the code (how far the stream is consumed, which word is loaded next), because
the two tell apart whether a buffer is still needed. A retriever that meets
damage stops where its call began or at the end of the block. Blocks begin and
end at units, where the code has bits: that changes how many words are loaded
by at most one, and `need` covers both cases.

*Input blocks.* `ref_count` has an entry for each buffer that is not freed;
`input_q` and each worker that reads from a buffer hold a reference, as in
`attach()`, `detach()` and `advance()`.

*Failure.* A worker that calls `failf()` disappears with the monitor locked
(`Fail`); the sink may go on writing what it has until the main thread ends the
process (`Killed`). An assertion that fails in a predicate stops the process at
once: `select_task()` then yields `Abort`.

*The process.* In `Job` one action is what the main thread does from one system
call that matters to the next: `at` says where it is. The file system maps
names to files; a file has the name of the file its data came from, whether
it is compressed (`packed`) and whether it is complete (`whole`). A name is the
sequence of its parts between dots, which is what `suffix_xform()` looks at. A
job is a set of threads that end together (`JobDone`) or fail one by one
(`ThreadFails`, then the steps of `bailout()`: the lock of stderr, `promote()`,
`xraise()`). Signals are pending for the process or for a thread; while they
are blocked only `sigsuspend()` delivers them, any number at once, and the order
of the handlers is chosen (`caught_index` is the last). The last step of a death
by signal is a value of `status`. Assumed: messages can be written to stderr;
`unlink()` in the clean-up succeeds; signals from outside are SIGINT and SIGTERM,
not SIGKILL; neither was ignored when the program was started.

*Files and headers.* In `Parser` a file has streams, these have blocks, and the
bits of header, magic, CRC and trailer are the true ones; the body of a block
is opaque and is taken from the bitstream in one step, possibly with one more
word than the parser has asked for, as a retriever does. Files are cut by
bytes, or one bit of a field is flipped. `big_dfa`, the table for whole
bytes, is modelled as eight steps of `mini_dfa`.

*Blocks.* The encoder and the decoder are operators on sequences; an encoder or
decoder is the record of the fields of its `struct`, and an operator is one
function, one state of its automaton or one loop. `BlockCodec` passes one block
through them and cuts input, bits and output into buffers, so that every
resumption happens. A CRC is the sequence of the characters that were hashed.
The constants are scaled down (`Codec.cfg`: groups of 4 symbols, codes of 4 bits,
runs of 6, blocks of 16, an alphabet of 32); the code depends on their
relations, which are the assumptions of the modules. `sssort()` and `trsort()`,
which sort the B* suffixes, are modelled by what they are for; their place in
the array and the two passes that induce the rest are those of the code. The
header of a block is in `Parser`; here its bits are left out but counted.
Randomized blocks, which the encoder does not make, come from flipping the first
bit; damaged ones from flipping any other or from leaving out words.

*Control.* The names of actions are those of the C functions in capitals
(`DoCollect`, `DoTransmit`, `OnInputAvail`, ...), a function that leaves and
re-enters the monitor is split there (`DoCollect`, `CollectPart`/`CollectAll`,
`Encoded`). Predicates keep their names (`can_collect`, ...). `SelectTask` is
the order of `task_list`.

*Mutants.* Definitions commented "Mutant of ..." are deliberately wrong variants
of the definition that follows. They are not used by any specification; put
in the place of the right one they show that a property would notice the
mistake.

## 3. The runs

| run | question | instance |
|---|---|---|
| `compress_parallel` | Are slots and units conserved, is every byte in exactly one place, do positions and `next` links follow the bytes, is no waiter forgotten and does the output not starve; is the output an ordered stream with a matching trailer; does the program end? | 2 workers, 2 in, 3 out, buffers of 2 bytes, inputs of 0, 3 and 8 bytes, spurious wakeups, fair scheduling |
| `compress_ultra` | The same output with `-u`: the token and the unfinished block; is nothing left at exit? | 2 workers, 3 in, 3 out, 0, 3 and 5 bytes |
| `heap` | Do the loops of the heap keep its head least, keep all elements, and deliver them like `PQueue`? | 6 elements, 6 places: three levels, a node with one child |
| `deque` | Is the ring buffer a sequence? | rings of 1 to 4 places, unsigned integers modulo 8, all initial contents |
| `expand_parallel` | Is there one master, is the input kept while it is needed, are resources conserved, do the other queues than `unord_q` have the room that `init()` gives them; does a reader see what a decoder without speculation would produce, damaged files included; does the program end? | 2 workers, 3 in, 3 out; twelve streams of one to three blocks in one to four buffers, spurious wakeups, fair scheduling |
| `expand_stale` (violation) | Is the assertion in `can_attach()` right? | 2 workers, 3 in, 3 out; a false pattern in a block of three buffers |
| `expand_unord` (violation) | Has `unord_q` room for the patterns that are found? | 2 workers, 2 in, 4 out (what `--small` gives them); a block of eight buffers with four false patterns |
| `expand_halt` (violation) | Do the reserves suffice when patterns are false? | 3 workers, 2 in, 6 out (what `--small` gives them) |
| `copy` | Is the input copied, are slots balanced across the wrap, is the signal raised once and the main thread released? | the two slots of `copy()`, files of 0 to 5 buffers, fair scheduling |
| `codec` | Is what is decoded what was encoded, are sizes as announced, are codes optimal, does `retrieve()` stay within its input? Are exactly the valid files accepted, with the right headers and end? Does the scanner find the first header? | all inputs of one to five characters out of three, and longer ones; each damaged block in two of them, at every bit and word. Files of one to three streams, with seven tails, cut at every byte, with flipped bits in each field; buffers of 1, 2 and all words |
| `job` | Is no partial output left, nothing lost, does the exit status tell the truth, is SIGPIPE told, does the process end? | fifteen command lines on four disks; three threads, of which one writes; every system call may fail, SIGINT and SIGTERM at any time; fair scheduling |
| `job_signal` (violation) | Does a process that has caught SIGTERM end by it? | as `job` |

*Bounds.* The interleavings that matter need two workers, a buffer that is
split (two bytes), and more blocks than there are slots of each kind, so that
blocks run ahead and wait: four to eight bytes with buffers of two give up to
eight blocks against two or three slots. More workers add symmetric
copies of the same races. The end of the input at, before and after a buffer
boundary is included (the lengths 0, odd and even). For the heap, three levels
with an incomplete last one contain every case of the loops; for the deque,
every position of the head of every small ring and all wraps occur.

For expansion the streams are chosen by what can happen at their seams: a
header inside a buffer and across two, a block that ends in the next buffer or
two buffers later, a header that ends with its buffer, a file that ends with a full buffer or with padding,
garbage and a false pattern behind the trailer, a pattern that cannot be
retrieved, and each way for a file to be damaged (`MCExpansion` says which
stream is which). Buffers of 16 units hold a header and little more, so that
every block is met by parser, scanner and retriever in all orders. `Guessed`
leads to the failing assertion; until it fails all properties hold there too,
and `Termination` counts the abort as an end.

`codec` checks the block codec and the parser in one run; they share no state
(`MCCodec`: while one works the other rests). For the parser, the bodies have lengths that make the next header begin at
different bits of a word, so that `bits_align()` and the state that the scanner
starts from differ. In front of a header there is each proper part of the
pattern, which is where an automaton goes wrong. For the block codec, the
lengths are those at which something ends: a run of one to nine characters, a
run at the last place of a block, one tree and several, one bitmap and two.
A search among all profiles of code lengths is the reference for optimality.
For the process, the disks have what an operand may stumble over: a second
link, something that is not a regular file, a name that is taken, two archives
of the same name; the command lines have every option that changes the control
flow, and operands that come twice.

*Fairness.* `FairSpec` assumes weak fairness of each thread as a whole: the
operating system eventually runs a thread that can take a step, and a thread
that is blocked on a mutex gets it because no one holds it for ever. No
fairness is assumed of the choice which waiter a signal wakes, nor of any
single task. Waits may end without a signal, but a worker that is woken for
nothing for ever could keep others from the monitor under so weak a
fairness; therefore `Termination` of compression and expansion excludes
behaviours with infinitely many such wakeups (`[]<><<Spurious>>_vars`). In `Job`
the main thread and each thread in `bailout()` are fair, and so is the end of
the job, which the other models justify; failures and signals from outside are
not: they may never come.

*Observations.* The clause on `out_slots` in `can_terminate` is what makes the
last worker wait until the sink has written everything. `copy()` lets
`out_slots` drop to -1 (mod 2^32): the buffer is released before the slot is
counted, so the source can fill it again first. The model shows that this is
harmless: the count recovers, the queue never holds more than it was
allocated for, and the end is recognised once. Raising SIGUSR2 before the
sink is done would still be safe, since `uninit_io()` drains the sink.

`find_best_tree()` adds the costs of a group by all trees in fields of ten bits;
its comment says that codes have at most 20 bits, but the trees it uses are those
of `make_code_lengths()`, which may be as high as 30. The carry disturbs the
choice of a tree, never the correctness of the block; `PrefixCode` assumes
fields that are wide enough.

The manual page says that a process whose write was answered with SIGPIPE or
SIGXFSZ ends by that signal. That is so for the thread that fails first
(`PipeTold`); if another thread fails before it, the process ends with its
failure status instead.

*Findings.* Four statements claim more than the code keeps. The first three concern
false patterns, which a file may contain (48 bits of magic inside a block, as in a
compressed file that is compressed again).

* `expand_stale`: a retriever works on a false pattern at the end of a buffer
  while the master, retrieving the real block around it, passes that buffer and
  the next. `advance()` drops the jobs in `retr_q`, but this one is in a worker's
  hands; `do_retrieve()` then queues it at a place that has been released, and the
  assertion in `can_attach()` ends the process. The input is sound. `parse.c` says
  that the worst such a pattern can do is to waste resources.
* `expand_halt`: the same kind of pattern, retrieved before the parser passed it,
  waits in `emit_q` with a position before the block that is expected next. It
  is the head of the queue, `can_emit()` looks no further, and it is not the block
  that may use the last two output slots; these stay free for ever if the other
  slots are held by later chunks. On streams without false patterns
  `NeverStuck` holds.
* `expand_unord`: `init()` gives `unord_q` room for as many patterns as speculation
  can have work units and output slots at a time. But `advance()` drops the retrieve jobs
  that the master has overtaken and gives their units back, while the entries of
  their patterns stay in `unord_q` until `do_parse()` passes them, at the end of the
  real block. Scanners use the units again, and `enqueue()`, which checks nothing,
  writes behind the end of the array. `process.h` says that it inserts into a
  non-full queue. Two workers, the slots of `--small` and one block with four
  false patterns suffice. The block has eight buffers; with `--small` a buffer is 32 KiB,
  so a real block may have more than twenty.
* `job_signal`: `sigsuspend()` may deliver several pending signals at once; each
  handler sets `caught_index`, and `halt()` sees the last value only. If SIGTERM
  comes together with SIGUSR2 and its handler is not the last to return, it is
  forgotten: the process completes the file, takes the next operand and ends
  with status 0. The manual says that `lbzip2` exits by re-raising one of the
  received signals.

## 4. What is proved

All proofs are for arbitrary values of the constants, under the assumptions
named in the modules: `ProcessAssumption` (finitely many workers, positive slots
and buffer size), `CompressionAssumption` (at least one worker), `ExpansionAssumption` (the same, an even
number of units per buffer, and streams that are well formed, `StreamOK`: blocks
follow each other, with room for the headers between them, no two patterns share a
base, and a block that can be decoded is in the file) with `NullAssumption` (`NULL` is
neither a number nor an input block),
`CopyAssumption` (no workers, not more input slots than output slots - the code
has two of each - and a counter that can tell twice as many apart),
`JobAssumption` (finitely many threads, at least one; the files that are there at
the start hold their own data and are complete; a command line is a list of
arguments) with `NumberAssumption` (no text that begins with `-` is a number
that `-n` or `-m` accepts).

* `TypeCorrect`, `SchedulerFresh` (`CompressionProofs`): types, and
  `next_task = SelectTask` whenever a thread can look. The inductive invariant
  is `TypeInv`: both together with `InHand` (a worker between two steps of a task
  has the blocks that task works on) and `ReadSoFar` (the source has not read
  beyond the file). They depend on each other: that a count of slots does not
  drop below zero follows from the guard of the task the worker runs, which
  it knows through `next_task` only.
* `NoForgottenWorker` (`CompressionProofs`): no lost wakeup. It is inductive on
  top of `TypeInv`: every step that makes a task ready or the job finished either
  wakes a waiter or leaves its worker inside the loop.
* `Resources` (`CompressionProofs`): work units, input slots and output slots
  are conserved. The argument is an equation per resource (`AllWorkUnits`,
  `AllOutSlots`, `AllInSlots`) that no step changes. For the work units it needs
  `TokenInv`: while a worker collects sequentially the token is taken and
  nothing is parked, so parking a block never overwrites another.
* `Ordered`, `BytesOnce`, `Positions`, `Successor`, `EndsClean` (`CompressionProofs`): the
  compressor implements `OrderedOutput`. The step of the sink that writes a block maps to
  `Emit`, the step of the primary thread that joins the sink to `Close`, every
  other one to a stutter. The inductive invariant `OrderInv` has these parts:
  - `DataInv`, about the set of work blocks and the set of input blocks in
    flight, wherever they are. All that they, the next position to be written
    and the next buffer to be delivered say of the byte at a position agrees
    (`Agree`); the rest of an input buffer is one block and is the last
    of its buffer (`Rests`, `Latest`); an encoder has bytes unless it stands at its first input
    block (`Filled`); nothing starts inside a work block (`Apart`) or
    before the position to be written (`NotBehind`); each position that is waited for
    is that of a block, or of the next buffer (`Linked`); and no byte is missing
    (`Held`). A step of the job takes an input block, grows a block, splits a rest
    off, retires the next block or adds a buffer; for each there is a lemma on sets.
  - `PlaceInv`: the queues are sorted and no block is in two places.
  - `EncoderInv`, `UltraInv`: a worker that collects stands at its own input block;
    with `--sequential` all work comes before all input and the parked
    encoder is the last, which is why it may go on with the next input block.
  - `SourceInv`, `Emits`, `OutputInv`: what was read is what was delivered and
    one buffer; what was put out are consecutive blocks, of which the sink has
    written some, has one in hand, and the rest to come.
  - `EndInv`: once a worker has found the job finished it is. It rests on the
    conservation of units and slots: all are free only if nothing is in flight.
    With nothing in flight, `Linked` and `Agree` say that the blocks cover the file.

  That sorting keeps `PlaceInv` rests on what the macro `enqueue()` finds
  (`PlaceSplits`): the least place whose element is not before the new one.
* `NeverStarves`, `UnitForNext` (`CompressionProofs`): what keeps the pipeline from
  stalling, on top of `OrderInv`. With no output slot left, the one that
  `TRANSM_THRESH` kept back has gone to the block whose turn it is (`SlotInv`); with no work unit
  left, a block before the first input block has one (`UnitInv`).

* `ExpansionFresh`, `ExpansionConserves` (`ExpansionProofs`): the decompressor acts on
  no stale decision, and loses or makes up no work unit, output slot or input
  slot, whatever the streams (the proof assumes nothing of what `parse()`,
  `retrieve()` and `scan()` return). `CountInv` joins both, since a count is
  decremented on the word of `next_task`; each action is shown to give back what its
  worker had (`Balanced`). `InputInv` adds that every buffer that is
  delivered contains something, so the offset it is known by is new.
* `ExpansionOneMaster`, `ExpansionKeepsInput` (`ExpansionProofs`): one master, and the
  input is there for everyone who goes on. `MasterInv` (module `ExpansionInv`) was checked with TLC
  before it was proved. Each part is needed by the others:
  - `SourceSteady`, `Chain`: the input blocks follow each other from `head_offs` to
    `tail_offs`, and all but the last are full, so that a header lies in at most two;
  - `Held`, `Referred`, `InputInHand`: who reads, reads from a block that is kept or
    has been passed, where its bitstream stands; `ref_count` counts exactly
    `input_q` and these readers. So a block is freed when the last of them leaves;
  - `ParserPlaced`: the parser stands in the first block that is kept, and has not
    loaded more than the header of the next block of the stream;
  - `Retrievers`: no two jobs on one pattern; each job is either on a pattern in `unord_q` that
    the parser has not come to, with the entry to which it is linked, or was judged:
    then its base is behind the parser and it knows whether it is a block
    (`Pending`, `Judged`). An entry in `unord_q` that is a block of the stream is ahead of the
    parser and complete, or has a job (`PatternOK`), which is why the parser can
    hand over to it;
  - `Mastered`: of the parser's token, a worker in `parse()` and a job on a block that
    the parser has come to there is exactly one, and it stands at `parser_bs`;
  - `Scanners`: each input block has one scanner or place in `scan_q`, and all patterns found in it are behind
    this; hence no pattern is found twice, which `OnePerPattern` needs;
  - `Finished`: when parsing is over all of this is empty for good.

  What is not claimed is as telling: a job on a false pattern may stand behind `head_offs`
  (`expand_stale`), and a false pattern in `unord_q` need not have a job (`expand_unord`).
* `ExpansionQueuesFit` (`OutputProofs`): `input_q`, `scan_q` and `order_q` fit. On top of
  `MasterInv`, `ChunkInv` follows a pattern from its job to its last chunk: a block in
  `order_q` has a job, is in `emit_q`, in the hands of a worker who decodes or emits, or its last chunk is
  in `reord_q`; so the blocks in `order_q`, which are distinct, can be counted by
  units and slots. The same must be known of a block that has been retrieved before the parser
  has come to it (`ReadAhead`), since `do_reorder()` could otherwise have thrown it away. It
  could not, because a chunk is rejected only if it is before all that is expected, or
  parsing is over, and the parser is not beyond a block that is in `unord_q`.
* `ExpansionExitClean` (`OutputProofs`): `EndInv` says that no worker has left its loop before the
  job was finished. From then on all units and slots are free, which by the conservation
  laws leaves nothing in a queue or in a worker's hands (`Ended`), and nothing is
  done any more (`EndStays`).
* `ExpansionImplementsDecoder` (`OutputProofs`): expansion implements `SequentialDecoder`.
  `SinkWrite` maps to the decoder's `Write`, `JoinSink` to `Succeed`, the end of the process by
  a failure (`Killed`) to `GiveUp`, every other step to a stutter. `FaithInv` adds to the
  invariants above:
  - `OutInv`, the core: what is written, in the sink's hands and in `output_q` are in order
    exactly the chunks of the blocks that the parser has come to, up to the one that
    `order_q` names first, and none of them is damaged. `parse()` adds a block to what has come
    and to `order_q` at once, `do_reorder()` moves the border when it sends a chunk; a false pattern is
    never in `order_q`, so nothing of it is sent, and a block that was read ahead is
    there before `do_reorder()` may give it up;
  - `ParseInv`: the parser of a sound file stands in a header or behind the last block, also
    after it was moved to where a job that read ahead has ended; it is done only at the
    end of a file whose headers are intact;
  - `ReadInv`: who finds the input at an end has been given all of it, so what the
    parser cannot read is not there;
  - `FailInv`: whoever calls `failf()` does so about a file that is not sound.

  When the job ends, `ParseInv` says that the parser has come to every block, `EndInv` that `order_q`
  is empty and the sink idle; so all chunks are written.
* `CompressionNeverStuck` (`CompressionProofs`): no state of the compressor has every thread
  waiting (`AllAsleep`), a safety property that its liveness needs. Were there such a state,
  no task would be ready (`NoLostWakeup`) and the sink would have nothing to write (`SleepInv`).
  Some block stands at the position to be written (`Linked`). It is not reordered, or
  `can_reorder` held; not encoded, as `SlotInv` says that a slot is then free and `can_transmit`
  lets this block have it; not parked, as only `--sequential` parks (`UltraOnly`) and a parked block goes on
  with the next input or at its end; not an input block, as `UnitInv` says that a unit is then free. So no
  block is there and the next buffer would be the one; the source, which has all input slots, does not
  sleep; at the end of the input all units and slots are free and the workers would not wait.
* `CopyNeverStuck` (`CopyProofs`): the same of `copy()`: a reader without a slot
  has a writer that will return one, and once nothing is left to write the main thread has its SIGUSR2.
  The decompressor has no such theorem, since `expand_halt` shows how it comes to stand still.
* `HeapHead`, `HeapContents`, `HeapInRange` (`HeapProofs`): the head of the heap is a
  least element, the loops lose nothing, no index leaves the array. The
  invariant `Order` says that the tree is ordered away from the hole, and how the
  hole's neighbours and the element in hand are related; that an ordered
  tree has its least element at the root is by well-foundedness of `<`.
* `HeapImplementsPQueue` (`HeapProofs`): the heap implements `PriorityQueue`. The queue that
  it stands for is its contents by position (`ByPosition`: behind each the elements that
  precede it). It has one place for each element because elements are distinct and their order
  is linear; the head of the heap is its first; adding an element shifts what is behind it, and a
  turn of a loop, which only moves the hole, does not change it.
* `DequeIsSequence`, `DequeInRange` (`DequeProofs`): the ring buffer implements a
  sequence: each operation maps to the abstract one, by the value of the
  index (`PlaceValue`) and because no two elements share a place.

* `SlotsBalanceHolds`, `RaisedOnceHolds`, `CopyIsOrdered` (`CopyProofs`): the copying
  job, with its counter that wraps. The invariant `CopyInv` has three parts:
  `ThreadInv` (what the two threads have in hand); `SlotInv` (the free *input*
  slots and what is on its way add up, which is why `out_slots` wraps by one at
  most, and SIGUSR2 has been raised exactly if nothing is on its way and
  nothing will be); `ChainInv` (what is written, being written, queued and being
  pushed are consecutive intervals, from which each write maps to a step of
  `OrderedOutput` and the end to its trailer).
* `NoPartialOutputHolds`, `NothingLostHolds`, `PipeToldHolds` (`JobProofs`): the
  process, for any command lines, any file system, any number of threads, any
  failures and signals. `JobInv` is needed because each property depends on the
  others' parts: `MainInv` relates the place of the main thread to the mask and
  the output file; `ThreadInv` says that SIGUSR2 is pending only if all threads
  are done; `BailoutInv` that at most one thread is in `bailout()` and that SIGUSR1
  comes after what it has promoted; `FileInv` that only the current output file
  is incomplete and that it is complete once SIGUSR2 is pending; `LossInv` that the data
  of each operand is in its own file, or in the output file that has just been
  completed, until the input is removed.
* `JobTypeOK`, `StatusTellsHolds` (`JobProofs`): what the loops over the arguments and over the
  letters of a cluster yield for every list. `Parsed` and `ShortOptions` are recursive functions, and
  the library's induction cannot be used (see below); `Induction` is instead
  about a set of natural numbers, whose least missing member would follow one that is not missing.
  `ParseInv` says of the first *i* arguments what options they leave, and that the
  operands kept are those that `OperandsOf`, an independent definition, finds among them: an
  argument is one unless it begins with `-`, is the number that the option before it waits for, or
  stands behind `--` in its place. `ServeInv` says that what was served, followed by what
  the main thread has left, is this list unless a warning was given; so status 0 means all of it.

Only model-checked:

* liveness and fairness, which are out of the prover's reach;
* what recursive operators compute, which needs induction over data, and which no
  module with a theorem may reach: the block codec (`RoundTrip`, `SizesExact`, `CodesOptimal`,
  `RetrieverInBounds`), the parser on all files (`ParsesFormat`) and the scanner's automata on all
  bit strings (`ScanFinds`).

## 5. Not modelled

* `sssort()` and `trsort()` in `divbwt.c`: sorting in place with several
  algorithms that switch at sizes far beyond what TLC can enumerate; modelled
  by what they are for. The buckets and pointers that `construct_BWT()` caches are
  left out, the order of its reads and writes is not.
* `crctab.c` (a table), `timespec.c`, the progress display, allocation and its
  failure, owner, mode and times of output files, the wording of messages.
* The steps of `big_dfa` as a table: `scantab.h` has it computed from `mini_dfa`;
  the model composes eight steps.
* Parsing of numbers (a function from texts to numbers) and splitting of the
  environment variables (their words come first in the list of arguments).
* The programs under `tests/`, which are not part of lbzip2.

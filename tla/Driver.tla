------------------------------- MODULE Driver --------------------------------
(***************************************************************************)
(* The driver of the malloc project (project04 mdriver.c): it reads the    *)
(* command line and the traces, replays every trace on the malloc package  *)
(* while it checks what the package returns, measures the utilization of   *)
(* the heap and the time, and computes a score.                            *)
(*                                                                         *)
(* The package is the environment: it may place a block wherever there is  *)
(* room, and it may misbehave, which the driver is there to find.          *)
(***************************************************************************)
EXTENDS Fcyc, FiniteSetsExt

CONSTANTS
  CommandLines, \* the options main may be started with
  TraceLists,   \* the default traces: a set of sequences of files
  H,            \* words of the simulated heap
  ALIGNMENT,
  MaxFaults,    \* how often the package may misbehave
  Cycles,       \* how long a call may take
  Starts        \* values the cycle counter may have when it is started

\* A call takes fewer cycles than the two words of the counter can tell, and there are
\* default traces.
ASSUME DriverAssumption ==
  /\ Starts \subseteq Nat /\ Cycles \subseteq 0 .. Word * Word - 1
  /\ \A l \in TraceLists : l # <<>> /\ l \in Seq({l[n] : n \in DOMAIN l})

VARIABLES
  argv,         \* options still to be read
  flag,         \* what the options read so far have set
  files,        \* the trace files
  phase,        \* what the driver is doing
  t,            \* number of the trace
  line,         \* lines of the trace file read so far
  trace,        \* the trace in memory
  i,            \* operations replayed so far
  ranges,       \* list of the extents of the allocated payloads, newest first
  total,        \* sizes of the live blocks, and their maximum so far
  errors,
  stats,        \* what is known of each trace
  heap,         \* the package's live blocks, the break and the words of the heap
  faults,       \* how often the package has misbehaved
  broken        \* the operation of this trace at which it first did, 0 for none

mainVars  == <<argv, flag, files, stats>>
traceVars == <<t, line, trace, i, ranges>>
vars == <<mainVars, phase, traceVars, total, errors, heap, faults, broken, timeVars>>

NULL == -1

-----------------------------------------------------------------------------
(* The options.                                                              *)

exit == [phase EXCEPT !.at = "exit"]

\* -f and -c name the only trace; -t is ignored after them.
Option ==
  LET c == Head(argv)
  IN  /\ phase.at = "options" /\ argv # <<>> /\ argv' = Tail(argv)
      /\ CASE c = "f" -> flag' = [flag EXCEPT !.one = TRUE, !.dir = "./"]
           [] c = "c" -> flag' = [flag EXCEPT !.one = TRUE, !.dir = "./", !.onetime = TRUE]
           [] c = "t" -> flag' = IF flag.one THEN flag ELSE [flag EXCEPT !.dir = "given/"]
           [] c = "l" -> flag' = [flag EXCEPT !.libc = TRUE]
           [] c = "d0" -> flag' = [flag EXCEPT !.debug = 0]
           [] c = "D" -> flag' = [flag EXCEPT !.debug = 2]
           [] OTHER -> flag' = flag
      /\ phase' = IF c \in {"h", "?"} THEN exit ELSE phase
      /\ UNCHANGED <<files, stats, traceVars, total, errors, heap, faults, broken, timeVars>>

NoStats == [valid |-> FALSE, util |-> <<0, 1>>, secs |-> 0, broken |-> 0]

\* main, once the options have been read: libc's turn comes first.
Start ==
  /\ phase.at = "options" /\ argv = <<>>
  /\ files' = IF flag.one THEN <<files[1]>> ELSE files
  /\ phase' = [at |-> "open", package |-> IF flag.libc THEN "libc" ELSE "mm"]
  /\ stats' = [n \in DOMAIN files' |-> NoStats]
  /\ UNCHANGED <<argv, flag, traceVars, total, errors, heap, faults, broken, timeVars>>

-----------------------------------------------------------------------------
(* read_trace.                                                               *)

file == files[t]

\* The header.
OpenTrace ==
  /\ phase.at = "open"
  /\ IF file.weight \in {0, 1} /\ file.ignore_ranges \in {0, 1}
     THEN /\ phase' = [phase EXCEPT !.at = "read"]
          /\ trace' = [ops |-> <<>>, blocks |-> [x \in 0 .. file.num_ids - 1 |-> NULL],
                       block_sizes |-> [x \in 0 .. file.num_ids - 1 |-> 0],
                       rand_base |-> [x \in 0 .. file.num_ids - 1 |-> 0], max_index |-> 0]
          /\ line' = 0
     ELSE phase' = exit /\ UNCHANGED <<trace, line>>
  /\ i' = 0 /\ UNCHANGED <<mainVars, t, ranges, total, errors, heap, faults, broken, timeVars>>

\* One request.  A file that ends within one fails an assertion; the size of a free
\* stays unset.
ReadLine ==
  LET l == file.lines[line + 1]
  IN  /\ phase.at = "read" /\ line < Len(file.lines) /\ Len(trace.ops) < file.num_ops
      /\ line' = line + 1
      /\ IF l.type \notin {"a", "r", "f"} THEN phase' = exit /\ UNCHANGED trace
         ELSE /\ phase' = phase
              /\ trace' = [trace EXCEPT !.ops = Append(@, l),
                             !.max_index = IF l.type # "f" /\ l.index > @ THEN l.index ELSE @]
      /\ UNCHANGED <<mainVars, t, i, ranges, total, errors, heap, faults, broken, timeVars>>

\* The assertions behind the loop.
TraceRead ==
  /\ phase.at = "read" /\ (line = Len(file.lines) \/ Len(trace.ops) = file.num_ops)
  /\ phase' = IF trace.max_index = file.num_ids - 1 /\ Len(trace.ops) = file.num_ops
              THEN [phase EXCEPT !.at = "valid?"] ELSE exit
  /\ UNCHANGED <<mainVars, traceVars, total, errors, heap, faults, broken, timeVars>>

reinit_trace == [trace EXCEPT !.blocks = [x \in DOMAIN @ |-> NULL], !.block_sizes = [x \in DOMAIN @ |-> 0]]

-----------------------------------------------------------------------------
(* The package.                                                              *)

Junk == <<0, 0>>
Words(lo, size) == lo .. lo + size - 1
NewHeap == [live |-> {}, brk |-> 0, mem |-> [w \in 0 .. H - 1 |-> Junk]]

\* A hole that is large enough, or the end of the heap.
Room(size, live) ==
  {p \in 0 .. H - size : /\ p % ALIGNMENT = 0 /\ p < heap.brk + ALIGNMENT
                         /\ \A b \in live : Words(p, size) \cap Words(b.lo, b.size) = {}}

Max2(a, b) == IF a > b THEN a ELSE b
Placed(p, size, live, mem) ==
  [live |-> live \cup {[lo |-> p, size |-> size]}, brk |-> Max2(heap.brk, p + size), mem |-> mem]

LiveAt(p) == {b \in heap.live : b.lo = p}

\* What a correct package may answer, and what a wrong one may.
Right(p, h) == [p |-> p, heap |-> h, bad |-> FALSE]
Wrong(p, h) == [p |-> p, heap |-> h, bad |-> TRUE]
\* A word of another live block is overwritten.
Spoiled(answers) ==
  UNION {{Wrong(a.p, [a.heap EXCEPT !.mem[w] = Junk]) :
            w \in UNION {Words(b.lo, b.size) : b \in {c \in a.heap.live : c.lo # a.p}}} : a \in answers}

MallocRight(size) == {Right(p, Placed(p, size, heap.live, heap.mem)) : p \in Room(size, heap.live)}
\* Misaligned, over another block or over the end of the heap.
Misplaced(size, live, mem) ==
  {Wrong(p, [Placed(p, size, live, mem) EXCEPT !.brk = heap.brk]) :
     p \in {x \in 0 .. heap.brk : x \notin Room(size, live) \/ x + size > heap.brk}}
MallocWrong(size) ==
  Misplaced(size, heap.live, heap.mem)
  \cup {Wrong(NULL, heap)} \cup Spoiled(MallocRight(size))

FreeRight(p) == {Right(NULL, [heap EXCEPT !.live = @ \ LiveAt(p)])}

\* The words of the old block, as far as they fit.
Copied(p, old, size) ==
  LET n == IF old.size < size THEN old.size ELSE size
  IN  [w \in 0 .. H - 1 |-> IF w \in Words(p, n) THEN heap.mem[old.lo + w - p] ELSE heap.mem[w]]

ReallocRight(oldp, size) ==
  IF oldp = NULL /\ size = 0 THEN {Right(NULL, heap)}
  ELSE IF oldp = NULL THEN MallocRight(size)
  ELSE IF size = 0 THEN FreeRight(oldp)
  ELSE LET old  == CHOOSE b \in LiveAt(oldp) \cup {[lo |-> oldp, size |-> 0]} :
                     b.size > 0 \/ LiveAt(oldp) = {}
           rest == heap.live \ LiveAt(oldp)
       IN  {Right(p, Placed(p, size, rest, Copied(p, old, size))) : p \in Room(size, rest)}

ReallocWrong(oldp, size) ==
  IF size = 0 THEN {Wrong(0, a.heap) : a \in ReallocRight(oldp, 0)}
  ELSE {Wrong(NULL, heap)} \cup Misplaced(size, heap.live \ LiveAt(oldp), heap.mem)
       \cup {Wrong(a.p, [a.heap EXCEPT !.mem[a.p] = Junk]) :
               a \in IF oldp = NULL THEN {} ELSE ReallocRight(oldp, size)}

\* The right answers, and the wrong ones while the package may misbehave.
Answers(right, wrong) == right \cup (IF faults < MaxFaults THEN wrong ELSE {})

-----------------------------------------------------------------------------
(* eval_mm_valid.                                                            *)

op == trace.ops[i + 1]

\* Is a word of the block not what randomize_block wrote?  Mutant: the last word is
\* not looked at.
Garbled_short(tr, mem, index) ==
  \E k \in 0 .. tr.block_sizes[index] - 2 : mem[tr.blocks[index] + k] # <<tr.rand_base[index], k>>
Garbled(tr, mem, index) ==
  \E k \in 0 .. tr.block_sizes[index] - 1 : mem[tr.blocks[index] + k] # <<tr.rand_base[index], k>>

\* The errors check_index reports.
check_index(tr, mem, index) ==
  IF index >= 0 /\ flag.debug # 0 /\ Garbled(tr, mem, index) THEN 1 ELSE 0

\* With -D, every block is looked at before every operation.
check_all ==
  IF flag.debug # 2 THEN 0
  ELSE Cardinality({r \in DOMAIN ranges : check_index(trace, heap.mem, ranges[r].index) = 1})

\* Unless ranges are ignored, the payload must not overlap another: neither end may
\* lie in one.
Overlaps(lo, hi, list) ==
  \E r \in DOMAIN list : lo \in list[r].lo .. list[r].hi \/ hi \in list[r].lo .. list[r].hi

Unrecorded == file.ignore_ranges = 1 \/ flag.debug = 0

\* Is the new block accepted?
RangeOK(lo, size, brk, list) ==
  /\ lo % ALIGNMENT = 0 /\ lo + size <= brk
  /\ Unrecorded \/ ~Overlaps(lo, lo + size - 1, list)

add_range(lo, size, index, list) ==
  IF Unrecorded THEN list ELSE <<[lo |-> lo, hi |-> lo + size - 1, index |-> index]>> \o list

\* Mutant: the record stays on the list.
remove_range_none(lo, list) == list
remove_range(lo, list) ==
  LET first == {r \in DOMAIN list : list[r].lo = lo /\ \A s \in 1 .. r - 1 : list[s].lo # lo}
  IN  IF first = {} THEN list
      ELSE LET r == CHOOSE x \in first : TRUE
           IN  SubSeq(list, 1, r - 1) \o SubSeq(list, r + 1, Len(list))

\* The payload that was written for operation n.
randomize_block(tr, h, index, n) ==
  IF flag.debug = 0 THEN h
  ELSE [h EXCEPT !.mem = [w \in 0 .. H - 1 |->
         IF w \in Words(tr.blocks[index], tr.block_sizes[index])
         THEN <<n, w - tr.blocks[index]>> ELSE @[w]]]

Fill(tr, h, index, n) ==
  /\ trace' = [tr EXCEPT !.rand_base[index] = n]
  /\ heap' = randomize_block(tr, h, index, n)

Behaved(a) ==
  /\ faults' = IF a.bad THEN faults + 1 ELSE faults
  /\ broken' = IF a.bad /\ broken = 0 THEN i + 1 ELSE broken

Invalid == phase' = [phase EXCEPT !.at = "done"] /\ UNCHANGED <<trace, i>>

\* The heap is reset and the package initialized, which may fail.
ValidInit ==
  /\ phase = [at |-> "valid?", package |-> "mm"]
  /\ heap' = NewHeap /\ ranges' = <<>> /\ i' = 0 /\ trace' = reinit_trace
  /\ \/ phase' = [phase EXCEPT !.at = "valid"] /\ UNCHANGED <<errors, faults, stats>>
        /\ broken' = 0
     \/ /\ faults < MaxFaults /\ faults' = faults + 1 /\ errors' = errors + 1
        /\ broken' = 1 /\ phase' = [phase EXCEPT !.at = "done"] /\ UNCHANGED stats
  /\ UNCHANGED <<argv, flag, files, t, line, total, timeVars>>

ValidAlloc ==
  /\ phase.at = "valid" /\ i < Len(trace.ops) /\ op.type = "a"
  /\ \E a \in Answers(MallocRight(op.size), MallocWrong(op.size)) :
       /\ Behaved(a)
       /\ IF a.p # NULL /\ RangeOK(a.p, op.size, a.heap.brk, ranges)
          THEN /\ ranges' = add_range(a.p, op.size, op.index, ranges)
               /\ Fill([trace EXCEPT !.blocks[op.index] = a.p, !.block_sizes[op.index] = op.size],
                       a.heap, op.index, i + 1)
               /\ i' = i + 1 /\ errors' = errors + check_all /\ UNCHANGED phase
          ELSE heap' = a.heap /\ errors' = errors + check_all + 1 /\ Invalid /\ UNCHANGED ranges
  /\ UNCHANGED <<mainVars, t, line, total, timeVars>>

\* The old contents, as far as they fit, must be in the new block.
Moved(newp) ==
  [trace EXCEPT !.blocks[op.index] = newp,
                !.block_sizes[op.index] = IF op.size < @ THEN op.size ELSE @]

ValidRealloc ==
  LET before == check_all + check_index(trace, heap.mem, op.index)
      oldp   == trace.blocks[op.index]
      left   == remove_range(oldp, ranges)
  IN  /\ phase.at = "valid" /\ i < Len(trace.ops) /\ op.type = "r"
      /\ \E a \in Answers(ReallocRight(oldp, op.size), ReallocWrong(oldp, op.size)) :
           /\ Behaved(a)
           /\ IF (a.p = NULL) # (op.size = 0)
              THEN /\ heap' = a.heap /\ errors' = errors + before + 1 /\ Invalid /\ UNCHANGED ranges
              ELSE IF op.size > 0 /\ ~RangeOK(a.p, op.size, a.heap.brk, left)
              THEN /\ heap' = a.heap /\ errors' = errors + before + 1 /\ Invalid /\ ranges' = left
              ELSE /\ ranges' = IF op.size > 0 THEN add_range(a.p, op.size, op.index, left) ELSE left
                   /\ errors' = errors + before + check_index(Moved(a.p), a.heap.mem, op.index)
                   /\ Fill([Moved(a.p) EXCEPT !.block_sizes[op.index] = op.size],
                           a.heap, op.index, i + 1)
                   /\ i' = i + 1 /\ UNCHANGED phase
      /\ UNCHANGED <<mainVars, t, line, total, timeVars>>

\* Index -1 stands for free(NULL).
ValidFree ==
  LET p == IF op.index = -1 THEN NULL ELSE trace.blocks[op.index]
  IN  /\ phase.at = "valid" /\ i < Len(trace.ops) /\ op.type = "f"
      /\ errors' = errors + check_all + check_index(trace, heap.mem, op.index)
      /\ ranges' = IF op.index = -1 THEN ranges ELSE remove_range(p, ranges)
      /\ \E a \in Answers(FreeRight(p), Spoiled(FreeRight(p))) : Behaved(a) /\ heap' = a.heap
      /\ i' = i + 1 /\ UNCHANGED <<mainVars, phase, t, line, trace, total, timeVars>>

ValidEnd ==
  /\ phase.at = "valid" /\ i = Len(trace.ops)
  /\ stats' = [stats EXCEPT ![t].valid = TRUE]
  /\ phase' = [phase EXCEPT !.at = "done"]
  /\ UNCHANGED <<argv, flag, files, traceVars, total, errors, heap, faults, broken, timeVars>>

\* run_tests: with -c only one trace is replayed; only a valid one is measured.
Verdict ==
  /\ phase.at = "done" /\ phase.package = "mm"
  /\ stats' = [stats EXCEPT ![t].broken = broken]
  /\ phase' = [phase EXCEPT !.at = IF flag.onetime THEN "report"
                                   ELSE IF stats[t].valid THEN "util?" ELSE "free"]
  /\ UNCHANGED <<argv, flag, files, traceVars, total, errors, heap, faults, broken, timeVars>>

-----------------------------------------------------------------------------
(* eval_mm_util, and the replays that are timed.                             *)

\* mem_reset_brk and mm_init; libc's heap is not the simulated one.
Replay(at) ==
  /\ phase' = [phase EXCEPT !.at = at]
  /\ heap' = NewHeap /\ i' = 0 /\ trace' = reinit_trace
  /\ UNCHANGED <<mainVars, t, line, ranges, errors, faults, broken>>

\* mm_init fails, which ends the driver.
ReplayFails ==
  /\ phase.at \in {"util?", "sample?"} /\ phase.package = "mm"
  /\ faults < MaxFaults /\ faults' = faults + 1 /\ phase' = exit
  /\ UNCHANGED <<mainVars, traceVars, total, errors, heap, broken, timeVars>>

UtilInit == phase.at = "util?" /\ Replay("util") /\ total' = [now |-> 0, max |-> 0] /\ UNCHANGED timeVars

\* The only thing that is looked at: NULL where a block was asked for.
Reply ==
  CASE op.type = "a" -> Answers(MallocRight(op.size), {Wrong(NULL, heap)})
    [] op.type = "r" -> Answers(ReallocRight(trace.blocks[op.index], op.size),
                                IF op.size = 0 THEN {} ELSE {Wrong(NULL, heap)})
    [] op.type = "f" -> IF op.index < 0 THEN {Right(NULL, heap)} ELSE FreeRight(trace.blocks[op.index])

\* One operation of a replay; sizes is what the replay remembers of the sizes.
ReplayOp(sizes) ==
  /\ i < Len(trace.ops)
  /\ \E a \in Reply :
       /\ heap' = a.heap /\ faults' = IF a.bad THEN faults + 1 ELSE faults
       /\ phase' = IF a.bad THEN exit ELSE phase
       /\ trace' = IF a.bad \/ op.type = "f" THEN trace
                   ELSE [trace EXCEPT !.blocks[op.index] = a.p, !.block_sizes = sizes]
  /\ i' = i + 1 /\ UNCHANGED <<mainVars, t, line, ranges, broken, timeVars>>

\* What the operation adds to the sizes of the live blocks.  Mutant: the old size of a
\* reallocated block is not taken off.
Growth_new ==
  CASE op.type \in {"a", "r"} -> op.size
    [] op.type = "f" -> IF op.index < 0 THEN 0 ELSE -trace.block_sizes[op.index]
Growth ==
  CASE op.type = "a" -> op.size
    [] op.type = "r" -> op.size - trace.block_sizes[op.index]
    [] op.type = "f" -> IF op.index < 0 THEN 0 ELSE -trace.block_sizes[op.index]

UtilOp ==
  /\ phase.at = "util" /\ ReplayOp([trace.block_sizes EXCEPT ![op.index] = op.size])
  /\ total' = [now |-> total.now + Growth, max |-> Max2(total.now + Growth, total.max)]
  /\ UNCHANGED errors

UtilEnd ==
  /\ phase.at = "util" /\ i = Len(trace.ops)
  /\ stats' = [stats EXCEPT ![t].util = <<total.max, heap.brk>>]
  /\ phase' = [phase EXCEPT !.at = "time?"]
  /\ UNCHANGED <<argv, flag, files, traceVars, total, errors, heap, faults, broken, timeVars>>

\* fcyc.
FcycInit ==
  /\ phase.at = "time?" /\ init_sampler /\ phase' = [phase EXCEPT !.at = "sample?"]
  /\ UNCHANGED <<mainVars, traceVars, total, errors, heap, faults, broken, cyc>>

FcycStart ==
  /\ phase.at = "sample?" /\ \E n \in Starts : start_counter(n)
  /\ Replay("speed") /\ UNCHANGED total

eval_mm_speed ==
  phase = [at |-> "speed", package |-> "mm"] /\ ReplayOp(trace.block_sizes) /\ UNCHANGED <<total, errors>>
eval_libc_speed ==
  phase = [at |-> "speed", package |-> "libc"] /\ ReplayOp(trace.block_sizes) /\ UNCHANGED <<total, errors>>

\* Mutant: the sampler is set up for every sample.
FcycSample_again ==
  /\ phase.at = "speed" /\ i = Len(trace.ops)
  /\ \E c \in Cycles : Sampled(c)
  /\ phase' = [phase EXCEPT !.at = IF GoesOn(values', samplecount') THEN "time?" ELSE "free"]
  /\ UNCHANGED <<mainVars, traceVars, total, errors, heap, faults, broken>>
FcycSample ==
  /\ phase.at = "speed" /\ i = Len(trace.ops)
  /\ \E c \in Cycles : Sampled(c)
  /\ IF GoesOn(values', samplecount')
     THEN phase' = [phase EXCEPT !.at = "sample?"] /\ UNCHANGED stats
     ELSE /\ phase' = [phase EXCEPT !.at = "free"]
          /\ stats' = [stats EXCEPT ![t].secs = values'[1]]
  /\ UNCHANGED <<argv, flag, files, traceVars, total, errors, heap, faults, broken>>

\* libc is only asked not to fail.
LibcInit ==
  /\ phase = [at |-> "valid?", package |-> "libc"] /\ Replay("libc") /\ UNCHANGED <<total, timeVars>>

eval_libc_valid ==
  /\ phase.at = "libc" /\ ReplayOp(trace.block_sizes) /\ UNCHANGED total
  /\ errors' = IF faults' > faults THEN errors + 1 ELSE errors

LibcEnd ==
  /\ phase.at = "libc" /\ i = Len(trace.ops)
  /\ phase' = [phase EXCEPT !.at = "time?"]
  /\ UNCHANGED <<mainVars, traceVars, total, errors, heap, faults, broken, timeVars>>

-----------------------------------------------------------------------------
\* free_trace, and the next trace or package.  The statistics of libc are printed
\* and forgotten.
free_trace ==
  /\ phase.at = "free"
  /\ IF t < Len(files)
     THEN t' = t + 1 /\ phase' = [phase EXCEPT !.at = "open"] /\ UNCHANGED stats
     ELSE IF phase.package = "libc"
     THEN /\ t' = 1 /\ phase' = [at |-> "open", package |-> "mm"]
          /\ stats' = [n \in DOMAIN files |-> NoStats]
     ELSE t' = t /\ phase' = [phase EXCEPT !.at = "report"] /\ UNCHANGED stats
  /\ UNCHANGED <<argv, flag, files, line, trace, i, ranges, total, errors, heap, faults, broken, timeVars>>

\* The score is computed from the statistics if there were no errors and is zero
\* otherwise.
Report ==
  /\ phase.at = "report" /\ phase' = [at |-> "exit", package |-> IF errors = 0 THEN "scored" ELSE "zero"]
  /\ UNCHANGED <<mainVars, traceVars, total, errors, heap, faults, broken, timeVars>>

Init ==
  /\ argv \in CommandLines /\ files \in TraceLists
  /\ flag = [one |-> FALSE, onetime |-> FALSE, libc |-> FALSE, debug |-> 1, dir |-> "./traces/"]
  /\ phase = [at |-> "options", package |-> "none"] /\ stats = <<>>
  /\ t = 1 /\ line = 0 /\ i = 0 /\ ranges = <<>> /\ trace = [ops |-> <<>>]
  /\ total = [now |-> 0, max |-> 0] /\ errors = 0 /\ faults = 0 /\ broken = 0
  /\ heap = NewHeap /\ TimeInit

Next ==
  \/ Option \/ Start \/ OpenTrace \/ ReadLine \/ TraceRead
  \/ ValidInit \/ ValidAlloc \/ ValidRealloc \/ ValidFree \/ ValidEnd \/ Verdict
  \/ UtilInit \/ ReplayFails \/ UtilOp \/ UtilEnd
  \/ FcycInit \/ FcycStart \/ eval_mm_speed \/ eval_libc_speed \/ FcycSample
  \/ LibcInit \/ eval_libc_valid \/ LibcEnd \/ free_trace \/ Report

Spec == Init /\ [][Next]_vars /\ WF_vars(Next)

-----------------------------------------------------------------------------
(* Properties.                                                               *)

TypeOK ==
  /\ t \in DOMAIN files /\ errors \in Nat /\ faults \in 0 .. MaxFaults
  /\ i \in 0 .. Len(trace.ops) /\ heap.brk \in 0 .. H
  /\ \A r \in DOMAIN ranges : ranges[r].lo \in 0 .. ranges[r].hi /\ (phase.at = "valid" => ranges[r].hi < heap.brk)
  /\ samplecount \in 0 .. MaxSamples /\ DOMAIN values = 1 .. K

\* The size a block has after the first n operations of the trace, 0 if it is free.
SizeAfter(index, n) ==
  LET used == {j \in 1 .. n : trace.ops[j].index = index}
      last == CHOOSE j \in used : \A m \in used : m <= j
  IN  IF used = {} \/ trace.ops[last].type = "f" THEN 0 ELSE trace.ops[last].size

\* The driver never accuses a package that does its work: not even a replay that
\* frees NULL, reallocates NULL, reallocates to nothing or ignores the ranges.
NoFalseAlarm == faults = 0 => errors = 0 /\ (phase.at = "report" => \A n \in DOMAIN stats : stats[n].valid \/ flag.onetime)

\* The range list holds exactly the blocks that the operations replayed so far have
\* left allocated, each once, with the extent the driver writes to; even those of a
\* faulty package end below the break.
RangesExact ==
  /\ TypeOK
  /\ phase.at = "valid" /\ ~Unrecorded /\ faults = 0 =>
    /\ {ranges[r].index : r \in DOMAIN ranges} = {x \in DOMAIN trace.blocks : SizeAfter(x, i) > 0}
    /\ \A r, s \in DOMAIN ranges : ranges[r].index = ranges[s].index => r = s
    /\ \A r \in DOMAIN ranges :
         /\ ranges[r].lo = trace.blocks[ranges[r].index]
         /\ ranges[r].hi = ranges[r].lo + SizeAfter(ranges[r].index, i) - 1

\* With -D and recorded ranges, whatever the package does wrong before the last
\* operation of a trace is reported: a pointer that is NULL, misaligned, outside the
\* heap or inside another payload, a payload around another, lost contents and words
\* of other blocks that were overwritten.
FaultsCaught ==
  phase.at \in {"util?", "free", "report"} /\ phase.package = "mm" /\ flag.debug = 2
    /\ file.ignore_ranges = 0 /\ broken \in 1 .. Len(trace.ops) - 1 => errors > 0

\* The verdict on a package is right both ways, however many operations lie between
\* a fault and the one that shows it.
Verdicts == NoFalseAlarm /\ FaultsCaught

\* eval_mm_util knows what is allocated, and the most that ever was.
UtilExact ==
  phase.at = "util" =>
    LET live(n) == MapThenSumSet(LAMBDA x : SizeAfter(x, n), DOMAIN trace.blocks)
    IN  total.now = live(i) /\ total.max \in {live(n) : n \in 0 .. i} /\ \A n \in 0 .. i : live(n) <= total.max

\* The values are the smallest of the cycles that were really spent, in order,
\* although the counter may wrap between two readings; and what fcyc returns is their
\* minimum, confirmed K times within epsilon unless MaxSamples were not enough.
KBest ==
  LET n      == Len(elapsed)
      kept   == IF n < K THEN n ELSE K
      Below(v) == Cardinality({j \in 1 .. n : elapsed[j] < v})
  IN  /\ samplecount = n
      /\ \A j \in 1 .. kept : /\ Below(values[j]) < j
                             /\ j <= Cardinality({m \in 1 .. n : elapsed[m] <= values[j]})
      /\ phase.at = "free" /\ stats[t].secs # 0 =>
           /\ \A j \in 1 .. n : stats[t].secs <= elapsed[j]
           /\ n < MaxSamples => K <= Cardinality({j \in 1 .. n :
                                                   100 * elapsed[j] <= (100 + Epsilon) * stats[t].secs})

\* The driver comes to its end, whatever the package returns and however the samples
\* scatter.
Finishes == <>(phase.at = "exit")
=============================================================================

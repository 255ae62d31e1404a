# Formal models of the CS 24 course programs

The repository is a collection of independent C programs. This directory holds
TLA+ models of those whose logic is hard to test, the TLC configurations that
check them on small instances, and machine-checked proofs (TLAPS).
`PROJECT.json` maps every definition to the source lines it stands for and lists
the runs, mutants, findings, hazards and theorems.

## Inventory

| Component | State | Operations | Interacts with | What makes it correct |
|---|---|---|---|---|
| malloc, `project04-kweng/mm.c` | words of the heap, `last_node` | malloc, calloc, realloc, free, mm_init | memlib by calls; the driver owns payloads in the same memory | blocks tile the heap; live payloads are disjoint and intact; calls return |
| memlib, `project04-kweng/memlib.c` | `mem_brk` | mem_init, mem_sbrk, mem_reset_brk | called by mm.c and mdriver.c | the break stays inside the mapping |
| trace driver, `project04-kweng/mdriver.c` | options, the trace, the list of payload ranges, patterns, statistics | main, read_trace, eval_mm_valid, eval_mm_util, the timed replays, free_trace | calls malloc or libc; is timed by the harness | it accuses no package that works and notices one that does not; its high-water mark is exact |
| timing harness, `project04-kweng/fcyc.c`, `clock.c`, `fsecs.c` | the cycle counter in two words, the K smallest samples | start_counter, get_counter, add_sample, has_converged, fcyc | calls back into the driver | borrow between words; the least sample is returned; sampling ends |
| Subpython pool, `project05-kweng/mm.c` | `free_list`, pool bounds | mm_init, mm_malloc, mm_free | called by refs.c | values and free blocks partition the pool |
| Subpython references and collector, `refs.c`, `eval_refs.c` | `ref_table`, counts, half `f` | make_ref, incref, decref, collect_garbage | calls the pool; roots are the evaluator's globals | no dangling reference, exact counts, a collection keeps exactly what is reachable |
| Subpython evaluator, `eval.c`, `eval_list.c`, `eval_types.c`, `repl.c` | globals; references in C locals | one function per AST node | incref/decref, gc() | every new reference is released once on every path, exceptions included |
| Subpython dictionaries, `eval_dict.c` | key and value arrays, size, occupied | get, set, delete, upsize | refs.c | each key is found, once |
| Subpython scanner and parser, `grammar.l.c`, `grammar.y.c`, `parser.c` | start condition, stack of indentations, bracket depth, pushed tokens; stacks of states and values | yylex with its rules, yypush_parse, parser_parse, parser_input_wrap | the scanner pushes tokens into the parser, which allocates nodes | scanner and parser agree on depth; the tree is the one written; token texts are copied before the buffer moves on |
| Subpython tree and arena, `ast.c`, `arena.c` | blocks and how much of each is in use | ast_alloc_*, arena_malloc, arena_free | called by the parser's actions | nodes do not overlap; all are freed together |
| Subpython exceptions and REPL, `exception.c`, `repl.c` | pending exception, exit code | main, try_parse | scanner, parser, evaluator | nothing of a statement outlives it; the program ends with its input |
| Proxy listener and threads, `project07-kweng/src/proxy.c`, `client_thread.c` | descriptor table (shared), C locals of each thread | accept loop, handle_request | one detached thread per connection; kernel descriptors; peers | threads use only their own descriptors; a client gets its own response; a slow peer blocks nobody else |
| Proxy cache, `project07-kweng/src/cache.c` | queue, hash chain, size, lock | cache_insert, cache_remove, enqueue, dequeue, contains | called by send_response | queue and chain agree, size is bounded, no freed node is used |
| TeenyJVM, `project01-kweng` | file position, constant pool, methods; operand stack, locals, pc of every call | get_class, get_methods, execute, main | recursion on invokestatic; one heap block per call and result | the class read is the class written; what Java does is done; no access out of bounds, no block lost |
| TeenyBASIC compiler, `project03-kweng` | position in the file, AST, emitted code | parse, compile_ast | - | the text is parsed as written; emitted code computes the program |
| side-channel laboratory, bomb, attack laboratory, warm-up, final | - | - | - | not modelled: measurements, binaries and toys |

Hard behaviours: the allocator and the collector share raw memory with their
clients, so one stale pointer corrupts somebody else's data many calls later;
the evaluator nests arbitrarily and every path has an exception exit; the proxy's
threads interleave on a descriptor table whose numbers are reused at once; the
scanner and the parser of Subpython each keep an account of brackets and blocks
that the other never sees; and the driver must notice a fault of the allocator from
what it remembers of earlier operations.
Nothing in the repository is persistent, so there is no crash recovery.

## Modules

| Module | Models | State and actions |
|---|---|---|
| `Malloc` | project04 mm.c, memlib.c and the client in mdriver.c | `mem` is the raw memory, one entry per 8-byte word, read as header, pointer or data depending on who reads it; one action per driver operation and per step of find_fit |
| `HeapSpec` | what an allocator promises (the checks of add_range and eval_mm_valid) | `region`: the words each index owns; Allocate, Move, Release |
| `Pool` | project05 mm.c | the free list as a sequence of records, values by address; operators only |
| `Refs` | refs.c, eval_refs.c, eval_list.c and the reference traffic of eval.c | extends Pool; an action evaluates one AST node or makes one call of decref, mm_free or operate_global; `stack` holds the references in C locals of active eval_* calls, `todo` the calls still to be made, `after` what the operation does when they have returned |
| `ProxyCache` | project07 cache.c | one record per cache; operators only |
| `Proxy` | proxy.c, client_thread.c | extends ProxyCache; `fds` is the process's descriptor table, `pc[c]` the place of connection c's thread; one action per system call |
| `Dict` | eval_dict.c | one dictionary as a record (key and value arrays, size, occupied, counts owned); one action per subscript operation, any sequence of which may be called |
| `DictSpec` | what a dictionary promises | a map from key values to references, and what each operation reports |
| `BasicParser` | project03 parser.c, ast.c | the functions of the parser over a text and a position; operators only |
| `Basic` | project03 compile.c, compiler.c, and the processor as far as the emitted code uses it | extends BasicParser; each CompileStatement is one round of main's loop, which parses `text` from `file` on and adds to `code`; then `cpu` executes one instruction at a time |
| `BasicSpec` | what a TeenyBASIC program means | variables, output and the next statement; Execute runs one statement |
| `ClassFile` | project01 read_class.c | the bytes of a file, the position in it and the class built so far; one action per constant, method and attribute |
| `Jvm` | project01 jvm.c | extends ClassFile; `frames` are the nested calls of execute, one action per kind of instruction, call and return |
| `JvmSpec` | what the Java virtual machine does with the integer instructions | activations over source instructions with named jump targets |
| `Fcyc` | fcyc.c, clock.c, fsecs.c | counter and samples; operators and the steps of the measuring loop |
| `Driver` | mdriver.c | extends Fcyc; `phase` is the place in main, one action per option, line read and operation replayed; the package under test is the environment, which places blocks anywhere and may misbehave |
| `Arena` | project05 arena.c | blocks and chunks as records; operators only |
| `Grammar` | the tables and semantic actions of grammar.y.c, and ast.c | operators only; the tables are those bison wrote |
| `Frontend` | grammar.l.c, grammar.y.c, parser.c, exception.c, repl.c | extends Grammar and Arena; one action per scanner rule, token pushed, shift, reduction, allocation and step of try_parse |
| `FrontendSpec` | how a tree is written down | Render turns a tree into lines with Python's precedences, Yield reads its words off again |
| `Automaton` | the automaton in bison's tables | constant definitions only: which state can lie on which, what lies beneath a state that reduces, and TablesAssumption, what the tables satisfy |
| `MallocProofs`, `FrontendProofs`, `ProxyProofs`, `JvmProofs`, `DriverProofs`, `DictProofs`, `RefsProofs` | - | the theorems about the module each is named after |
| `RefsGraph` | - | lemmas on graphs of values and on the pool, for RefsProofs |
| `MCMalloc`, `MCRefs`, `MCProxy`, `MCDict`, `MCBasic`, `MCJvm`, `MCDriver`, `MCFrontend` | - | instances for TLC |

What the models abstract:

* Malloc: payload contents are one word value per block. The C driver ends a
  trace at the first failed allocation; the model's client goes on, so the
  behaviour after a failure is covered too. `starts` is an auxiliary variable
  (the headers in use) that no guard reads.
* Refs: the interpreted program is the environment. Integer values are abstract,
  so an index is any position or out of range. `Value` sizes are in words. The
  recursion of decref and operate_global is a list of calls, `todo`: a call puts those it
  makes in front of the rest, so the order is that of the C stack. An operation with work
  left after such calls (globals_set counts the new value after releasing the old one)
  says so in `after`, with the references its C locals hold. A failed
  assertion sets `status` to "asserted"; a copy that mm_malloc has no room for, or of a
  value that is gone, writes to or reads from NULL and sets it to "crashed"; a collection
  into a half in use, or an element stored through a pointer that is no longer that of
  the array, sets it to "corrupt". The first two end the program. After the third the
  program goes on with overwritten values, which the model does not follow; it counts as a
  violation of NoDangling, GcExact and, if a collection did it, PoolSound.
  Four things are never released: the result of a body of if or while (eval.c:289, 293,
  312), the integer that len() makes although ref_len has raised an exception (eval.c:655),
  the argument of a call of a non-identifier, which is evaluated with the exception
  pending (eval.c:671, 682), and the condition of a while whose body raised one
  (eval.c:301, 312). The auxiliary variable `leaked` records them, so that RefCountExact
  can still say by how much each count is too high. `MaxLeaks` bounds them between two
  collections, `Results` selects the singletons expressions yield. What is evaluated while an exception is
  pending is its first leaf, or the array of a list literal: everything else sees the
  exception and returns. Calls have at most one argument. `NestedGc` says whether
  gc() may be part of a larger expression, `LateGc` whether the first gc() may find
  values in the second half of the pool. Left out are strings and dictionary
  literals, and the hash of True and False, which counts a singleton that nobody
  releases (eval_types.c:55).
* Dict: a key is a reference, `ValueOf` says what it refers to, so that two
  references can be equal keys. A capacity is a member of `Capacities`, which with c
  and a larger limit has 2c; the code starts with 16, the models with any capacity above
  1. `limit` is the capacity up to which an allocation succeeds at the time of a call; it
  covers failure of either new array. A search that reads the
  word behind the array either goes on (the word is a reference to something else)
  or ends there and the dictionary is `lost`: what the program does then depends on
  the neighbouring object. Without a pending exception each call sees the state the
  last one left, as eval clears exceptions between statements (repl.c).
  dict_print, dict_len and dict_bool only read.
* Basic: the text of the assembly file is a sequence of instructions and labels.
  Memory is in words, the frame pointer of main is address 0. Registers are
  `Width` bits wide and wrap; idiv takes the double word rdx:rax and fails as the
  processor does. printf may change every register but rsp and rbp. The program to
  compile is any member of `Programs`, a text with the statements it was written
  from; a keyword, number or label is one symbol of the text. Texts end with a newline
  and have one space after THEN and GOTO, as the programs in progs/ do. Where the file
  ends before THEN, strcmp gets NULL (parser.c:195) and the compiler dies: one text of
  the run does that.
* Proxy: request parsing is a choice between its outcomes. A write transfers all
  or fails. pthread_create succeeds. A full descriptor table makes accept fail and
  main try again, which changes nothing. SIGINT ends the process and is left out.
* ProxyCache: handle_request creates a cache per request, so each cache sees one
  key, one bin and one growing buffer; contains never finds anything and
  queue_update never moves anything. `free_cache` is never called. A
  read of freed memory ends the process because the Makefile builds with the
  address sanitizer. The write lock that cache_insert keeps when an object is too
  big is taken again by the same thread, which glibc answers with an ignored error.
* ClassFile, Jvm: a byte has `B` bits, so a number has 4B and an offset 2B; tags,
  opcodes and characters take one byte whatever B is. Locals start as `Garbage`.
  Reading past the end of the file makes an assertion fail, as in the code; what the
  code does not assert (the class of a Methodref, a seek behind the end, an unknown
  opcode) is accepted. A division by zero, and the quotient that does not
  fit, end the process as the processor does. For JvmSpec only the first does: Java
  answers it with an exception, which nothing in a class of integers catches, while the
  smallest number by -1 is the smallest number again. ImplementsJava names that case,
  QuotientOverflows, as the only one in which the interpreter does something else. `overrun` stands for an access outside
  an array. The source a file was made from is carried along for the properties.
* Driver: sizes and addresses are in words. The package under test is free to return
  any place that does not overlap a live block, or to misbehave `MaxFaults` times:
  NULL, a misaligned, overlapping or too high address, contents lost or words of other
  blocks overwritten. Files are sequences of lines; one that ends early leaves the loop
  of read_trace at a failing assertion or check, as in the code. Usage and result
  tables are not printed.
* Fcyc: `Word` values per half of the counter; a sample is the cycles that passed
  between two readings. clear_cache and the compensated counters are switched off by
  fsecs and left out.
* Frontend: the input is a sequence of lines; a line is its leading whitespace, its
  lexemes and whether a newline ends it. The automaton of the regular expressions and
  flex's refilling of its buffer are abstracted to that, positions in error messages
  are left out. Pushed tokens are delivered one by one, and an action that allocates
  does so in steps of its own, so that what happens between them is visible. Evaluation
  returns, with or without an exception. Allocation of the parser stacks may fail;
  the arena's blocks are always granted.

## Runs

| Run | Configuration | Result |
|---|---|---|
| `malloc` | 3 indices, requests of 1 and 3 words, 14 heap words | HeapTiled, LiveBlocksOwned, PointersOnBlocks, OnlySecondWordGarbled, MemorySafe, CallsReturn and ImplementsHeapSpec hold (695,126 states) |
| `malloc_garbled` | several traces, two kinds of data | PayloadsIntact violated: free writes through a stale `last_node` |
| `refs_counting` | one name, lists of 1, pool of 40 words, 6 references, depth 3 (2 while a count is lost), one lost count | NoDangling, OnlyCyclesLeak, RefCountExact, PoolSound, GcExact hold (1,625,643 states) |
| `refs_nested_gc` | gc() inside expressions | NoDangling violated |
| `proxy_threads` | 2 connections, one with silent peers, 4 descriptors; one response fills its cache, the other is too long for it | FdsOwned, ReplyFaithful, RequestComplete, CacheSound, PromptServed hold (576,466 states) |
| `proxy_evict` | 1 connection whose response overflows its cache | EvictionSafe violated: use after free at the first eviction |
| `dict` | 6 keys (two equal, three colliding in the last slot, one unhashable), 2 values, capacities 4, 8 and 16 | SlotsCounted, CountsExact, EqIsEquality, ImplementsMap hold (10,162 states) |
| `dict_bounds` | as dict | ProbesInBounds violated: a probe past the last slot reads the word behind the array |
| `basic` | all programs of up to 3 out of 10 statements in two layouts and one text that is cut off, 2 variables, 3-bit words | JumpsResolve, FrameKept, ParserAdvances, ImplementsSource hold (295,226 states) |
| `jvm` | 3-bit bytes (12-bit numbers); all operators on the ends of the range, loops in both directions, every relation, recursion, overloading; one file cut at every byte or damaged | LoadFaithful, InBounds, BlocksFreed, ImplementsJava hold (26,995 states) |
| `driver` | 6 lists of traces, 13 command lines, 10 heap words, one fault, K = 2 of at most 3 samples, a counter word of 4 values | Verdicts, RangesExact, UtilExact, KBest, Finishes hold (147,532 states) |
| `frontend` | programs from all trees of one operator in another and from nested blocks, 26 inputs by hand as script and at a prompt, stacks of 8 to 20, arena blocks of 64 bytes, 3 levels of indentation | ScannerAgrees, NoStaleText, ArenaOK, Released, ParsesBack, Exits hold (46,897 states) |

Each violated property quotes a comment, an assertion or a check of the
repository (findings in `PROJECT.json`). That of `dict_bounds` shows in the
interpreter: after `d = {15: 31}`, `d[31]` is `d` itself, because the word behind
the key array is taken for the key, and `d[31] = 2` fails an assertion in deref.

More was met while modelling that has no run of its own; the models behave as the
code does in each case.

* malloc(0) gives a block of two words, and free of it clears the header of the next
  block (mm.c:220); the client therefore asks for at least one word, as the traces do.
  coalesce compares the start of the heap with `b` minus the size of `b` itself
  (mm.c:120), so that a block near the front may stay unmerged with a smaller free one
  before it; this wastes memory but keeps the heap tiled, which is what `malloc`
  checks. `last_node` survives mm_init, so the first free of a second trace may write
  into the new heap.
* Subpython: before the first collection the pool in use is all of it, and values may lie
  on both sides of halfway_point. If some lie behind it, that collection writes a free
  block over them, takes them for copied because is_pool_address holds and goes on
  (refs.c:299, 253); the comment (refs.c:33-37) knows only of two halves. refs_counting
  and the theorems leave this out; with LateGc = TRUE in MCRefs.cfg TLC shows PoolSound,
  NoDangling and GcExact violated.
* Subpython: what len() makes beside an exception, and what is evaluated while one is
  pending, is lost (eval.c:655, 671, 312). mm_malloc's NULL is unchecked in a collection
  (refs.c:259); in a pool of more than six headers what the globals reach always fits into
  a half that was free, as the proof shows.
* Driver: the overlap test looks only at the ends of the new payload (mdriver.c:494),
  so a payload around an older one is accepted; it shows later because the older block's
  pattern is overwritten, which is why Verdicts is about faults before the last operation
  and the -D option. max_index is not updated by frees, so an index that only a free
  line names is not covered by the assertion behind the loop; a failed partial match of
  fscanf passes `!= EOF`. The score may exceed its stated maximum by a point.
* TeenyJVM: the quotient and the remainder of the smallest number by -1 stop the process
  with SIGFPE (jvm.c:37, 41); idiv and irem of the specification that jvm.h cites (jvm.h:6)
  give the smallest number and 0. Without its disjunct QuotientOverflows ImplementsJava is
  violated. The class a Methodref names is not looked at, fseek past the end of the file
  succeeds, and unknown opcodes are skipped byte by byte.
* Front end: a comment is only one on a line of its own that ends in a newline; behind
  code `#` is an invalid token. An indented last line without newline gets no DEDENT and
  is a syntax error. A dedent to a level that was never entered is accepted (INDENT_ERROR
  is never pushed). FLOAT, DO, CONTINUE and BREAK are tokens without a rule. There is no
  error recovery: the rest of a statement is lost. exception_set_format truncates
  a message of 256 characters and does not free the one it replaces.
* TeenyBASIC: variable A lies where main saved the frame pointer of its caller
  (compile.c:34), so a program that assigns A returns with another one; FrameKept
  says that nothing else is lost. Its parser drops a statement silently in two cases
  that the texts of `basic` leave out: a second space after THEN or GOTO makes the next
  word empty, and a number or label at the very end of the file is taken for missing.
  A file whose last byte is an operator keeps the parser in a loop for ever, because peek
  rewinds to it (parser.c:121-129, 139-147).

### Bounds

* 14 heap words hold three blocks of the smaller and two of the larger size, so
  that splitting with and without a rest, merging on either side, exhaustion, a
  failing realloc and reuse of the block `last_node` points to all occur.
* 40 pool words leave 20 per half: the three singletons and a list with its array
  fit, one more value does not, so that the pool of a half is full soon. One lost count
  at a time lets every way of losing one meet every collection. While a count is lost
  expressions are one level shallower (`Ready`), and no second condition is evaluated under
  a pending exception (`Unwind`): it could only lose another count. The theorems hold
  for any depth and any number of lost counts. Self-containing lists, shared elements, allocation failures at
  every allocation of an expression and consecutive collections occur.
* Two connections and four descriptors are the smallest table in which a number
  closed by one thread is reused by another and in which accept and socket can
  find the table full. The cache limits keep the code's relation (a full cache
  holds at least two objects); four chunks reach eviction, one long one rejection.
* Four slots keep the code's rule (half full means doubling) and let three colliding
  keys, tombstones, a full array that cannot be doubled, and both doublings occur. Four
  of the keys fill all four slots, so that the doubling of a completely full array
  occurs too: it leaves exactly half of the new slots empty, which is the bound of
  RoomToProbe.
* Ten statements have every kind of statement and operator, operands on both sides, parentheses,
  nested IFs and a label inside an IF. Three-bit words make overflow, division by zero
  and the quotient that does not fit occur with small numbers. Two outputs
  and expressions of depth two bound the rest.
* Three-bit bytes keep all encodings of the class file apart (one or two bytes for a
  constant or variable, two for an offset, four for a number) while sums, products and
  negation wrap after a few steps. Every program of the instance ends in Java.
* Ten words hold the blocks of every trace with room to move one of them, so that a
  realloc in place and one that moves both occur; one fault at any
  operation is enough, as the verdict is about the first. A counter word of 4 values
  started at 3 or 15 wraps in the low and the high word.
* Stacks of 8 that may grow to 20 make 13 nested parentheses need two growths and 26
  exceed the limit; blocks of 64 bytes hold only a few nodes, so that the arena grows,
  fits exactly and takes a request above the block size. Three levels let one line
  leave two blocks and another enter one too many.

### Fairness

Malloc: once a library call has begun it runs on (weak fairness on the steps of
the call): the program is sequential. Proxy: weak fairness on main and on every
thread that does not wait for a peer (the kernel schedules all threads); steps
that wait for a peer are fair only for connections in `Prompt`. Jvm, Driver and
Frontend are sequential programs that never wait for anything but their input, so
weak fairness on Next is what the processor gives them. Refs, Dict, Basic
and the safety runs assume none. CHECK_DEADLOCK is off where the system may stop: a
corrupt interpreter or lost dictionary, bounded or finished programs, all
connections done.

## Proofs

`MallocProofs` proves for every set of indices, every heap size, address and data
and every set of request sizes without 0 (free of an empty block would overwrite
the next header) that Spec implies []HeapTiled, []LiveBlocksOwned,
[]PointersOnBlocks, []OnlySecondWordGarbled, []MemorySafe and ImplementsHeapSpec.

The argument: HeapTiled alone is not inductive. free writes two words into the
freed block and one through `last_node`, so the invariant must say that
`last_node` is the payload of some block of at least four words, live or not
(LastNodeOnBlock); split and coalesce read sizes through headers, so the cursor of
find_fit must be on a header (CursorOnHeader); and the call in progress must agree
with what it has allocated (CallConsistent). `IInv` is the conjunction. Lemmas
first show what `set_block`, `split`, `coalesce` and `link` do to a tiled memory,
independent of the state machine; then one lemma per action shows that it keeps
IInv. The refinement maps each index to the words of its payload; the payload of a
call in progress is not yet visible.

`FrontendProofs` proves for every set of scripts and command lines and all limits
that Spec implies []Released, and that Spec with []SizesOK (the sizes the semantic
actions ask for are natural numbers) implies []ArenaOK. Released speaks only of the
states between statements, so its
induction needs `Held`: for each thing a statement owns, the phases in which it may
exist. ArenaOK is not inductive because two chunks must also stay apart from the next
one: `Packed` adds that whatever was handed out of a block lies below its `allocated`,
which is a multiple of ALIGNMENT, and ArenaInv that a parse under way has a block.

It also proves for every input of lines of lexemes, as script and at a prompt,
and for all limits that Spec implies []ScannerAgrees, []NoStaleText and, without a
condition, []ArenaOK. yylex and the parser never see each other's numbers; that they
agree is a property of the grammar. `Automaton` makes it one of the tables: `Neighbours`
is the set of pairs of states that shifts and reductions can put on each other,
`Beneath` what can lie where below a state that reduces, both closed under the steps of
the parser (ShiftsFit, BeneathFits, ReducesFit say so). On these finite sets
TablesAssumption states that a reduction pops no more than was pushed, that it pops an
opening bracket only with its closing one on top and an INDENT only with its DEDENT
(Matched), and that a state reached by a text, a closing bracket, a DEDENT or INPUT_END
reduces without another token (Prompt). It has no parameter: TLC evaluates it for the
tables as they are, in the run `frontend`, which also evaluates ScriptsAssumption on its
inputs. The inductive invariant `Agreement`, which TLC has checked on the instance of
that run, says that the parser's stack is a path of Neighbours with a token for every
terminal (`Path`), that the levels rise, that INPUT_END is on its way or on the stack once
the input has ended (`Ending`), and in `Balanced` where the difference between the two
counts is at any moment: what is open on the stack, less one if a closing symbol lies on
top of it unreduced, plus what the lookahead and the tokens still to be pushed add, is
the scanner's number. The tokens of one rule open at most once, first, or close first and
then do neither (`Pends`). PathBeneath, by induction over the depth, carries Beneath
from pairs to stacks; NetShift, NetPop and NetGoto count what shifts and reductions
change; RuleFeeds shows of every rule of the scanner that its tokens account for what it
does to its numbers.

`ProxyProofs` proves for every set of connections, table size, header lines, chunks and
cache limits that Spec implies []FdsOwned, []RequestComplete, []ReplyFaithful and
[]CacheSound. The table is shared and numbers are reused at once, so FdsOwned needs the
converse as well: `Ledger` says that every open entry of a connection is known to its own
thread, hence a number the kernel hands out is in nobody's hands. The exchange of a
connection (`ExchangeInv`) ties what was sent and received to the place of its thread.
CacheSound needs the shape of both lists: `CacheInv` says which node each pointer of
the queue and the chain holds while nothing has been evicted, and how much of the size
each node accounts for.

`JvmProofs` proves []BlocksFreed for every set of input files, also for files no compiler
writes. `Ownership` counts the blocks from the place in the reader (`ReaderOwns`) and from
the frames (`CallsOwn`); types of the reader are needed because a damaged file must not
confuse a count with something else.

`DriverProofs` proves []KBest for every width of the counter, K, MaxSamples, Epsilon, list of
traces and behaviour of the package. KBest speaks of ranks; what is inductive (`Sampler`)
is that the values in use are ordered and that each has the rank of its index among all
samples, which the insertion of add_sample shifts by one. `CounterExact` is the lemma that
the subtraction with borrow gives the cycles that passed. `Timed` carries the result
from fcyc to the statistics of its trace. Assumed: start values are natural numbers,
a sample fits into two words, and a trace list names at least one file, as in main.

`DictProofs` proves []SlotsCounted, []CountsExact and ImplementsMap (the refinement of
DictSpec and RoomToProbe) for any keys, values, hash function and capacities above 1.
The invariant `Sound` says of the arrays that every key lies on its own probe sequence
with no empty slot before it (`Probed`), that equal values occur once (`Distinct`), that a key and
its value come together (`Paired`), and that size, occupied and the counts owned are those of
the slots (`Tallied`, `Balanced`). Probed is what makes a failed search mean absence; a
tombstone keeps it, an empty slot would not. The search itself is characterised once
(`FindFirst`), with the word behind the array as a possible end, and by a counting
argument: a search for a new slot fails only if all slots but one are taken, so that a
doubled array always has room. Doubling is a recursive function over the old slots;
its existence and its invariant (`MoveInv`: the new arrays hold the entries of the first n
slots, counted besides the old ones; `DropInv`: what the old ones have given back) are
shown with an induction over natural numbers that is derived for sets (`SetInduction`)
from the well-foundedness of <.

`RefsProofs` proves []NoDangling, []RefCountExact, []PoolSound, []OnlyCyclesLeak and GcExact
for every pool size, header size, set of names, list lengths and bounds, under the
hypothesis `Orderly`: the program calls gc() only where the evaluator holds no reference
(NestedGc = FALSE; `refs_nested_gc` shows that this is needed), for the first time
while no value lies in the second half of the pool (LateGc = FALSE), and
the pool has more than six headers. With six, the copy of True takes the rest of the half,
because a rest of one header is not split off (mm.c:86), and False finds no room. None of the five is inductive, because
they speak of the moments between operations (or, PoolSound, of the blocks only). `IInv`
speaks of every step and has two modes. Outside collections (`Evaluating`) the account of
`Pending` balances for every reference: its count is the number of places that refer to it
in values with a count, in globals and C locals (less the place an operation has vacated,
plus what it holds in `after`), the lost ones and the calls of decref in `todo`; a value
without a count is waiting for exactly one mm_free. `Shape` adds what the C functions rely on
when they use a pointer: only lists refer to arrays, each list has its own, filled up to its
size, and a list under construction is known to its frame only. During a collection (`Gathering`)
`Collected` counts for the copied values alone what has been copied and what `todo` will, and
says of both that they lie in every set that contains the globals and what its members refer
to: that makes the result exact in both directions. `Memory` holds throughout: the table is one-to-one onto
the values, blocks lie apart, and at most Header words of the pool belong to none, those
only where the last free block was copied into. IInv says nothing about a state in which
a collection has failed. That none is reached is a second invariant, `GcInv`: what is
still to be copied lies in the half that was in use and apart from what has been copied
(`Leaves`), so that the new half has room for it. One thing could still go wrong: when a
copy takes the last free block, a rest of up to a header is lost with it, and a value as
small as a header would find no room afterwards. Only None, True and False are that small,
and they are the first globals (`First`, `Sized`). The layers follow this: lemmas (`RefsGraph`) about
an account when a place is added, vacated, moved or released; about the free list; about both
together; then (`RefsProofs`) one lemma per action. OnlyCyclesLeak needs one more
argument: of the garbage that hangs off no cycle and no lost count take a value
that reaches the most; its count is positive, so another piece of such garbage refers to it
and reaches no more, hence is reached by it. TLC has checked the conditions of IInv as invariants
on two larger instances (lists of two, and lists of none and one with leaks) before it was
proved.

Only model-checked:

* CallsReturn, PromptServed, Finishes, Exits and the end of Jvm programs: liveness is out
  of the prover's reach.
* Everything about Basic (the parser, compile_ast and the evaluator of BasicSpec are
  RECURSIVE operators, which the prover does not support) and ParsesBack (so are Render
  and Yield).
* InBounds, LoadFaithful and ImplementsJava hold for what a compiler writes, not for any
  file: the proof would be one about the encoder of the instance. Verdicts,
  RangesExact and UtilExact likewise depend on traces that are well formed.
* EqIsEquality folds dict_subscr_set over every order of the entries.
* What the closure of bison's tables contains: TablesAssumption is evaluated, not proved.

## Plan

1. Done: Malloc with contract and proofs; Pool and Refs; ProxyCache and Proxy; Dict
   against a map; Basic against the meaning of a program; ClassFile and Jvm against the
   Java virtual machine; Driver with Fcyc; Frontend with Grammar and Arena; proofs about
   Proxy, Jvm, Driver, Dict and Frontend, with Automaton for what rests on the tables;
   proofs about Refs, call by call.
2. An abstract object graph that Refs implements: names to values, no counts.
3. The proxy's request parser and growable buffer.

## Not modelled

The automaton and the buffers flex generates (fixed library code that the scanner's
rules run on), calibration of the clock (mhz) and ftimer.c (not part of the driver's
build), printing, string values and dictionary literals in the evaluator, the proxy's
request parser, the side-channel laboratory (it measures a processor), the bomb and
attack laboratories, the warm-up and the final (binaries and toys). In the proxy the
cache of a request and its buffer are never freed (client_thread.c:383), and
pthread_create is taken to succeed (proxy.c:104); no property is about either. See the
components in `PROJECT.json`.

------------------------------- MODULE Malloc -------------------------------
(***************************************************************************)
(* The implicit-list allocator of project04 (mm.c) over the simulated      *)
(* sbrk heap (memlib.c), driven the way mdriver.c drives it: allocate,     *)
(* reallocate and free numbered blocks, fill each with known data.         *)
(*                                                                         *)
(* The unit is the 8-byte word: an address, a size and a request are word  *)
(* counts.  A block is <header, payload..., footer>; headers and footers   *)
(* are size | is_allocated, so every block size is even and the low bit is *)
(* free for the flag.  `mem' is the raw memory: the same word is a header, *)
(* a list pointer or user data depending on who reads it.                  *)
(***************************************************************************)
EXTENDS Integers, FiniteSets

CONSTANTS
  Ids,      \* indices of the trace's blocks
  Sizes,    \* request sizes, in words
  Data,     \* the words randomize_block may write
  Heap,     \* address of the first heap word
  MaxHeap   \* MAX_HEAP in words

ASSUME SizesAssumption == Sizes \subseteq Nat
ASSUME DataAssumption  == Data \subseteq Nat
\* The heap is 16-byte aligned, its length is a multiple of 16 bytes, and it
\* is mapped far above its own length (0x800000000 against 100 MB), so that an
\* address read as a size always leaves the heap.
ASSUME HeapAssumption  ==
  /\ Heap \in Nat /\ MaxHeap \in Nat
  /\ Heap % 2 = 0 /\ MaxHeap % 2 = 0
  /\ 2 <= MaxHeap /\ MaxHeap < Heap

VARIABLES
  mem,           \* the mapped words
  mem_brk,       \* end of the heap in use
  last_node,     \* payload of the block freed last, or NULL
  pc,            \* where the current library call is
  req,           \* the current call: operation, block index, size
  heap_pointer,  \* the cursor of find_fit
  new_ptr,       \* what the inner malloc returned
  blocks,        \* payload of each index in the driver's range list, or NULL
  block_sizes,   \* trace->block_sizes
  data,          \* what the driver wrote into each block
  starts         \* auxiliary: addresses of the headers now in use; no guard
                 \* and no other variable depends on it

vars == <<mem, mem_brk, last_node, pc, req, heap_pointer, new_ptr,
          blocks, block_sizes, data, starts>>

NULL     == 0
First    == Heap + 1                    \* header of the first block
Limit    == Heap + MaxHeap
Words    == Heap .. Limit - 1
Live     == {id \in Ids : blocks[id] # NULL}
Payload(id) == blocks[id] .. blocks[id] + block_sizes[id] - 1
NoRequest == [op |-> "none", id |-> NULL, size |-> 0]

-----------------------------------------------------------------------------
(* Words as headers. *)

round_up(size, n) == ((size + n - 1) \div n) * n

SizeOf(w)      == w - (w % 2)
AllocatedOf(w) == w % 2

get_size(m, b)        == SizeOf(m[b])
check_allocated(m, b) == AllocatedOf(m[b]) = 1

set_header(m, b, size, is_allocated) == [m EXCEPT ![b] = size + is_allocated]

set_footer(m, b) == [m EXCEPT ![b + get_size(m, b) - 1] = m[b]]

set_block(m, b, size, is_allocated) ==
  set_footer(set_header(m, b, size, is_allocated), b)

-----------------------------------------------------------------------------
(* coalesce(b): the neighbour after b is looked at unless b ends the heap;  *)
(* the one before it only when b - get_size(b) lies above the first block,  *)
(* an unsigned subtraction that wraps when the size exceeds the address.    *)

NextFree(m, b) ==
  /\ b + get_size(m, b) < mem_brk
  /\ ~check_allocated(m, b + get_size(m, b))

LooksBack(m, b) == b - get_size(m, b) > First \/ b < get_size(m, b)

PrevBlock(m, b) == b - SizeOf(m[b - 1])

PrevFree(m, b) ==
  /\ LooksBack(m, b)
  /\ PrevBlock(m, b) \in Words
  /\ ~check_allocated(m, PrevBlock(m, b))

MergedStart(m, b) == IF PrevFree(m, b) THEN PrevBlock(m, b) ELSE b

\* Mutant: the end address of b is taken for its size.
MergedSize_end(m, b) ==
  (IF PrevFree(m, b) THEN get_size(m, PrevBlock(m, b)) ELSE 0)
  + (b + get_size(m, b))
  + (IF NextFree(m, b) THEN get_size(m, b + get_size(m, b)) ELSE 0)
MergedSize(m, b) ==
  (IF PrevFree(m, b) THEN get_size(m, PrevBlock(m, b)) ELSE 0)
  + get_size(m, b)
  + (IF NextFree(m, b) THEN get_size(m, b + get_size(m, b)) ELSE 0)

coalesce(m, b) == set_block(m, MergedStart(m, b), MergedSize(m, b), 0)

\* The headers that disappear when b is merged with its neighbours.
Absorbed(m, b) ==
  (IF PrevFree(m, b) THEN {b} ELSE {})
  \cup (IF NextFree(m, b) THEN {b + get_size(m, b)} ELSE {})

-----------------------------------------------------------------------------
(* split(b, s): the first s words become an allocated block and the rest,   *)
(* however small, a free one.                                               *)

\* Mutant: the rest of the block gets no header.
split_noRest(m, b, s) == set_block(m, b, s, 1)
split(m, b, s) ==
  LET s_size == get_size(m, b) - s
      m1     == set_block(m, b, s, 1)
  IN  IF s_size > 0 THEN set_block(m1, b + s, s_size, 0) ELSE m1

Remainder(m, b, s) == IF get_size(m, b) > s THEN {b + s} ELSE {}

\* Accesses outside the mapping are segmentation faults: writing the footer of
\* a block that ends past it, or following a footer that leads out of it.
SplitFaults(m, b) == b + get_size(m, b) > Limit

CoalesceFaults(m, b) ==
  \/ LooksBack(m, b) /\ PrevBlock(m, b) \notin Words
  \/ MergedStart(m, b) + MergedSize(m, b) > Limit

-----------------------------------------------------------------------------
\* Types: the heap is a total map of words, the break stays inside the mapping,
\* every pointer is NULL or mapped.
TypeOK ==
  /\ mem \in [Words -> Nat]
  /\ mem_brk \in First .. Limit
  /\ last_node \in {NULL} \cup Words
  /\ pc \in {"idle", "find", "ret", "fill", "crash"}
  /\ req \in [op : {"none", "malloc", "calloc", "realloc"},
              id : Ids \cup {NULL}, size : Nat]
  /\ heap_pointer \in Nat
  /\ new_ptr \in {NULL} \cup Words
  /\ blocks \in [Ids -> {NULL} \cup Words]
  /\ block_sizes \in [Ids -> Nat]
  /\ data \in [Ids -> Data \cup {0}]
  /\ starts \subseteq Words

(* mem_init and mm_init: /dev/zero is mapped, brk skips one word so that    *)
(* payloads are 16-byte aligned.                                            *)
Init ==
  /\ mem = [a \in Words |-> 0]
  /\ mem_brk = First
  /\ last_node = NULL
  /\ pc = "idle"
  /\ req = NoRequest
  /\ heap_pointer = First
  /\ new_ptr = NULL
  /\ blocks = [id \in Ids |-> NULL]
  /\ block_sizes = [id \in Ids |-> 0]
  /\ data = [id \in Ids |-> 0]
  /\ starts = {}

(* The driver starts another trace: mem_reset_brk, reinit_trace, mm_init.   *)
(* Neither the memory nor last_node is cleared.                             *)
MmInit ==
  /\ pc = "idle"
  /\ mem_brk' = First
  /\ blocks' = [id \in Ids |-> NULL]
  /\ block_sizes' = [id \in Ids |-> 0]
  /\ data' = [id \in Ids |-> 0]
  /\ starts' = {}
  /\ UNCHANGED <<mem, last_node, pc, req, heap_pointer, new_ptr>>

-----------------------------------------------------------------------------
(* malloc: round the request up, search, then split or extend the heap.     *)

BlockSize(n) == round_up(1 + n + 1, 2)

Call(op, id, n) ==
  /\ pc = "idle"
  /\ pc' = "find"
  /\ req' = [op |-> op, id |-> id, size |-> n]
  /\ heap_pointer' = First
  /\ UNCHANGED <<mem, mem_brk, last_node, new_ptr, blocks, block_sizes, data, starts>>

CallMalloc(id, n) == blocks[id] = NULL /\ Call("malloc", id, n)
CallCalloc(id, n) == blocks[id] = NULL /\ Call("calloc", id, n)

\* realloc of a live block; on NULL it is CallMalloc, with size 0 it is Free.
CallRealloc(id, n) == blocks[id] # NULL /\ n # 0 /\ Call("realloc", id, n)

\* Mutant: find_fit does not look at the allocated bit.
Fits_anyBlock(b, size) == get_size(mem, b) >= size
Fits(b, size) == get_size(mem, b) >= size /\ ~check_allocated(mem, b)

\* Mutant: only allocated blocks are stepped over.
NextHeader_stuck(b) == IF check_allocated(mem, b) THEN b + get_size(mem, b) ELSE b
NextHeader(b) == b + get_size(mem, b)

FindNext ==
  /\ pc = "find"
  /\ heap_pointer < mem_brk
  /\ ~Fits(heap_pointer, BlockSize(req.size))
  /\ heap_pointer' = NextHeader(heap_pointer)
  /\ UNCHANGED <<mem, mem_brk, last_node, pc, req, new_ptr, blocks, block_sizes, data, starts>>

FindHit ==
  /\ pc = "find"
  /\ heap_pointer < mem_brk
  /\ Fits(heap_pointer, BlockSize(req.size))
  /\ IF SplitFaults(mem, heap_pointer)
     THEN pc' = "crash" /\ UNCHANGED <<mem, new_ptr, starts>>
     ELSE /\ pc' = "ret"
          /\ mem' = split(mem, heap_pointer, BlockSize(req.size))
          /\ new_ptr' = heap_pointer + 1
          /\ starts' = starts \cup Remainder(mem, heap_pointer, BlockSize(req.size))
  /\ UNCHANGED <<mem_brk, last_node, req, heap_pointer, blocks, block_sizes, data>>

SbrkFails(n) == mem_brk + n > Limit

(* No fit: mem_sbrk either extends the heap or fails and malloc returns     *)
(* NULL.                                                                    *)
FindMiss ==
  /\ pc = "find"
  /\ heap_pointer >= mem_brk
  /\ pc' = "ret"
  /\ IF SbrkFails(BlockSize(req.size))
     THEN new_ptr' = NULL /\ UNCHANGED <<mem, mem_brk, starts>>
     ELSE /\ mem' = set_block(mem, mem_brk, BlockSize(req.size), 1)
          /\ mem_brk' = mem_brk + BlockSize(req.size)
          /\ new_ptr' = mem_brk + 1
          /\ starts' = starts \cup {mem_brk}
  /\ UNCHANGED <<last_node, req, heap_pointer, blocks, block_sizes, data>>

-----------------------------------------------------------------------------
(* free: coalesce, then link the block behind the one freed last, wherever  *)
(* that node lies now.                                                      *)

\* Mutant: the link goes into the prev field.
link_prev(m, last, node) ==
  LET cleared == [m EXCEPT ![node] = NULL, ![node + 1] = NULL]
  IN  IF last = NULL THEN cleared
      ELSE [[cleared EXCEPT ![last] = node] EXCEPT ![node] = last]
link(m, last, node) ==
  LET cleared == [m EXCEPT ![node] = NULL, ![node + 1] = NULL]
  IN  IF last = NULL THEN cleared
      ELSE [[cleared EXCEPT ![last + 1] = node] EXCEPT ![node] = last]

\* The payload that becomes the free node.  Mutant: that of the block before it
\* was merged.
FreedNode_unmerged(m, b) == b + 1
FreedNode(m, b) == MergedStart(m, b) + 1

\* free(ptr) in memory m; the call continues at `then'.
FreeBlock(m, ptr, then) ==
  LET b    == ptr - 1
      node == FreedNode(m, b)
  IN  IF CoalesceFaults(m, b)
      THEN pc' = "crash" /\ UNCHANGED <<mem, last_node, starts>>
      ELSE /\ pc' = then
           /\ mem' = link(coalesce(m, b), last_node, node)
           /\ last_node' = node
           /\ starts' = starts \ Absorbed(m, b)

Free(id) ==
  /\ pc = "idle"
  /\ blocks[id] # NULL
  /\ FreeBlock(mem, blocks[id], "idle")
  /\ blocks' = [blocks EXCEPT ![id] = NULL]
  /\ block_sizes' = [block_sizes EXCEPT ![id] = 0]
  /\ data' = [data EXCEPT ![id] = 0]
  /\ UNCHANGED <<mem_brk, req, heap_pointer, new_ptr>>

-----------------------------------------------------------------------------
(* What malloc, calloc, realloc and the driver do once find_fit and sbrk    *)
(* are done.                                                                *)

FillWith(m, ptr, n, d) ==
  [a \in Words |-> IF a \in ptr .. ptr + n - 1 THEN d ELSE m[a]]

memcpy(m, to, from, n) ==
  [a \in Words |-> IF a \in to .. to + n - 1 THEN m[from + (a - to)] ELSE m[a]]

\* malloc returned NULL: realloc and calloc return NULL, nothing changes.
ReturnNull ==
  /\ pc = "ret"
  /\ new_ptr = NULL
  /\ pc' = "idle"
  /\ req' = NoRequest
  /\ heap_pointer' = First
  /\ UNCHANGED <<mem, mem_brk, last_node, new_ptr, blocks, block_sizes, data, starts>>

\* The driver remembers the block; the words it holds are all d.
Remember(id, ptr, n, d) ==
  /\ mem' = FillWith(mem, ptr, n, d)
  /\ blocks' = [blocks EXCEPT ![id] = ptr]
  /\ block_sizes' = [block_sizes EXCEPT ![id] = n]
  /\ data' = [data EXCEPT ![id] = d]
  /\ pc' = "idle"
  /\ req' = NoRequest
  /\ heap_pointer' = First
  /\ new_ptr' = NULL
  /\ UNCHANGED <<mem_brk, last_node, starts>>

\* malloc's caller fills the block (randomize_block); calloc clears it.
MallocReturn ==
  /\ pc = "ret" /\ new_ptr # NULL /\ req.op = "malloc"
  /\ \E d \in Data : Remember(req.id, new_ptr, req.size, d)

CallocReturn ==
  /\ pc = "ret" /\ new_ptr # NULL /\ req.op = "calloc"
  /\ Remember(req.id, new_ptr, req.size, 0)

\* realloc copies min(size, size of the old block, header and footer included)
\* and frees the old block.  The driver expects the common prefix to survive.
Smaller(x, y) == IF x < y THEN x ELSE y

ReallocReturn ==
  LET id  == req.id
      old == blocks[id]
      n   == Smaller(req.size, get_size(mem, old - 1))
  IN  /\ pc = "ret" /\ new_ptr # NULL /\ req.op = "realloc"
      /\ FreeBlock(memcpy(mem, new_ptr, old, n), old, "fill")
      /\ blocks' = [blocks EXCEPT ![id] = new_ptr]
      /\ block_sizes' = [block_sizes EXCEPT ![id] = Smaller(req.size, @)]
      /\ UNCHANGED <<mem_brk, req, heap_pointer, new_ptr, data>>

\* ... and then fills the whole new block afresh.
ReallocFill ==
  /\ pc = "fill"
  /\ \E d \in Data : Remember(req.id, new_ptr, req.size, d)

-----------------------------------------------------------------------------
FindFit == FindNext \/ FindHit \/ FindMiss
Return  == ReturnNull \/ MallocReturn \/ CallocReturn \/ ReallocReturn \/ ReallocFill

Next ==
  \/ \E id \in Ids, n \in Sizes :
       CallMalloc(id, n) \/ CallCalloc(id, n) \/ CallRealloc(id, n)
  \/ \E id \in Ids : Free(id)
  \/ FindFit
  \/ Return

\* One trace.  A library call, once made, runs on: nothing else is running.
Spec == Init /\ [][Next]_vars /\ WF_vars(FindFit \/ Return)

\* Several traces in one process, as mdriver runs them.
DriverSpec == Init /\ [][Next \/ MmInit]_vars

-----------------------------------------------------------------------------
(* Properties. *)

EndOf(m, b) == b + get_size(m, b)

\* The headers st cut [lo, hi) into blocks without gap or overlap.
BlockInPlace(m, lo, hi, st, b) ==
  /\ lo <= b /\ b % 2 = 1
  /\ get_size(m, b) >= 2
  /\ EndOf(m, b) <= hi
  /\ EndOf(m, b) \in st \cup {hi}
  /\ m[EndOf(m, b) - 1] = m[b]

Tiled(m, lo, hi, st) ==
  /\ lo % 2 = 1 /\ hi % 2 = 1
  /\ lo \in st \cup {hi}
  /\ \A b \in st : BlockInPlace(m, lo, hi, st, b)
  /\ \A b, c \in st : b < c => EndOf(m, b) <= c
  /\ \A c \in st \cup {hi} : c # lo => \E b \in st : EndOf(m, b) = c

\* The headers in use tile the heap:
\* walking the heap by get_size, as find_fit and mm_checkheap do, visits exactly
\* these blocks, and each footer still repeats its header for coalesce.
HeapTiled == Tiled(mem, First, mem_brk, starts)

\* The block the current call has allocated and not yet handed over or, in
\* realloc, not yet refilled.
Pending == pc = "ret" /\ new_ptr # NULL

\* Every payload the client holds lies inside a block of its own that is marked
\* allocated, so no two payloads overlap; conversely, a block marked allocated
\* belongs to the client or to the call in progress: nothing leaks, not even
\* when realloc fails halfway.
LiveBlocksOwned ==
  /\ \A id \in Live :
       /\ blocks[id] - 1 \in starts
       /\ check_allocated(mem, blocks[id] - 1)
       /\ block_sizes[id] + 2 <= get_size(mem, blocks[id] - 1)
       /\ Pending => new_ptr # blocks[id]
  /\ \A i, j \in Live : blocks[i] = blocks[j] => i = j
  /\ Pending => /\ new_ptr - 1 \in starts
                /\ check_allocated(mem, new_ptr - 1)
                /\ req.size + 2 <= get_size(mem, new_ptr - 1)
  /\ \A b \in starts :
       check_allocated(mem, b) =>
         (\E id \in Live : blocks[id] = b + 1) \/ (Pending /\ new_ptr = b + 1)

\* The node free() will write through is the payload of a block of at least four
\* words, whether that block is still free or has been handed out again: the
\* write can hit user data but never a header or a footer.
LastNodeOnBlock ==
  last_node # NULL =>
    /\ last_node - 1 \in starts
    /\ get_size(mem, last_node - 1) >= 4

\* find_fit only ever reads headers.
CursorOnHeader == pc = "find" => heap_pointer \in starts \cup {mem_brk}

\* The two pointers the allocator follows without a test, the node free writes
\* through and the cursor of find_fit, stay on blocks however blocks are split,
\* merged and handed out in between.
PointersOnBlocks == LastNodeOnBlock /\ CursorOnHeader

\* What the client stored survives every operation on other blocks, realloc's
\* copy included, except possibly the second word of a block (bytes 8 to 15).
OnlySecondWordGarbled ==
  \A id \in Live : \A i \in 0 .. block_sizes[id] - 1 :
    i # 1 => mem[blocks[id] + i] = data[id]

\* No operation reads or writes outside the mapped heap.
NoFault == pc # "crash"

\* ... and every pointer and break stays inside it, up to the failing sbrk.
MemorySafe == TypeOK /\ NoFault

\* Every library call returns: the search of find_fit ends.
CallsReturn == (pc # "idle") ~> (pc = "idle")

\* The allocator implements the contract of HeapSpec: live payloads are aligned,
\* inside the heap and pairwise disjoint, and move only when reallocated.
Regions == [id \in Ids |-> IF blocks[id] = NULL THEN {} ELSE Payload(id)]
Contract == INSTANCE HeapSpec WITH HeapWords <- Words, region <- Regions
ImplementsHeapSpec == Contract!ASpec

\* mdriver's check_index: a block holds what the driver wrote into it.
PayloadsIntact ==
  \A id \in Live : \A i \in 0 .. block_sizes[id] - 1 :
    mem[blocks[id] + i] = data[id]
=============================================================================
